------------------------------ MODULE Filers ------------------------------
(***************************************************************************)
(* Who signs for an insurer: its keys in the registries' directory, each    *)
(* licensed by the regulator, whose own keys are a log (registry/store.ts,  *)
(* protocol/registry.ts); and how the venue judges a signature by what the  *)
(* mirrors of the directory and of the log say (venue/service.ts).          *)
(*                                                                         *)
(* One insurer, one regulator.  A mirror answers from a copy of some time;  *)
(* an honest one says of which.  What the registry has recorded at an       *)
(* instant, a copy of that instant shows.                                   *)
(***************************************************************************)
EXTENDS Naturals, Sequences, FiniteSets

CONSTANTS
    Mirrors, Quorum,
    MaxAge,         \* oldest copy the venue relies on
    Pinned,         \* whether the venue has pinned the regulator's first key
    MaxRoots,       \* bound: keys of the regulator
    MaxKeys,        \* bound: keys of the insurer
    MaxRevocations, \* bound: of those
    MaxTime         \* bound: the clock

VARIABLES
    now,
    honest,      \* the mirrors that say when they synced
    regulator,   \* the log: [since, at], the previous key compromised since
    keys,        \* the insurer's: [from, root, licensed]
    revocations, \* of its keys: [key, since, at], the later one counts
    word         \* the signature the venue accepted last: [key, at, by]

vars == <<now, honest, regulator, keys, revocations, word>>

Never == MaxTime + 1
NoWord == [key |-> 0]

\* The regulator's first key is established, the insurer registered with a
\* key it has licensed
Init ==
    /\ now = 0
    /\ honest \in SUBSET Mirrors
    /\ regulator = <<[since |-> Never, at |-> 0]>>
    /\ keys = <<[from |-> 0, root |-> 1, licensed |-> 0]>>
    /\ revocations = <<>>
    /\ word = NoWord

----------------------------------------------------------------------------
(* Copies of the log and of the registration, and what they are read to say  *)

LogAt(t) == SelectSeq(regulator, LAMBDA e : e.at <= t)

\* A key with its revocation, if any, as of a copy
KeyAt(k, t) ==
    LET known == {i \in DOMAIN revocations : revocations[i].key = k /\ revocations[i].at <= t}
    IN  IF known = {} THEN [since |-> Never, declared |-> Never]
        ELSE LET last == CHOOSE i \in known : \A j \in known : j <= i
             IN  [since |-> revocations[last].since, declared |-> revocations[last].at]

\* filerKeyAt(): registered by then, and not revoked at or before it
FilerKeyAt(k, t, at) == keys[k].from <= t /\ keys[k].from <= at /\ at < KeyAt(k, t).since

\* regulatorKeyAt(): on the log, and not declared compromised as of then
RegulatorKeyAt(log, root, at) ==
    /\ root <= Len(log)
    /\ root < Len(log) => at < log[root + 1].since

\* A fresh answer of a mirror, its copy of a time: a liar's of any
Fresh(m) == IF m \in honest THEN {t \in 0 .. now : now <= t + MaxAge} ELSE 0 .. now

\* filerKeyLicensed(), by the log of record (regulatorLogOfRecord) when the mirrors
\* agree on the regulator's current key; else by the key pinned alone; without
\* either the registries are trusted to have checked
FilerKeyLicensed(k, on) ==
    \E copies \in [on -> 0 .. now] :
        /\ \A m \in on : copies[m] \in Fresh(m)
        /\ IF \A m, n \in on : Len(LogAt(copies[m])) = Len(LogAt(copies[n]))
           THEN \A m \in on : RegulatorKeyAt(LogAt(copies[m]), keys[k].root, keys[k].licensed)
           ELSE Pinned => keys[k].root = 1

\* filerKeyOfRecord(), by some copies of the mirrors: any registry's word against
\* the key blocks
FilerKeyOfRecord(k, at, on) ==
    /\ \A m \in on : \E t \in Fresh(m) : FilerKeyAt(k, t, at)
    /\ FilerKeyLicensed(k, on)

\* filerContradictedBy(): the copy of a mirror that claims a sync against the
\* revocation of a key another copy shows
FilerContradictedBy(k, copy, sync, e) ==
    e.declared < sync /\ keys[k].from <= copy /\ KeyAt(k, copy).since > e.since

----------------------------------------------------------------------------
Tick ==
    /\ now < MaxTime
    /\ now' = now + 1
    /\ UNCHANGED <<honest, regulator, keys, revocations, word>>

\* acceptRegulatorEvent(): the key committed to takes over, the one before is
\* retired, or was compromised as of a time
AcceptRegulatorEvent ==
    /\ Len(regulator) < MaxRoots
    /\ \E since \in 0 .. now \cup {Never} :
          regulator' = Append(regulator, [since |-> since, at |-> now])
    /\ UNCHANGED <<now, honest, keys, revocations, word>>

\* rotateFilerKey(): licensed by the regulator (licenseOk), at some time by the
\* key it had then
RotateFilerKey ==
    /\ Len(keys) < MaxKeys
    /\ \E t \in 0 .. now :
          /\ RegulatorKeyAt(regulator, Len(LogAt(t)), t)
          /\ keys' = Append(keys, [from |-> now, root |-> Len(LogAt(t)), licensed |-> t])
    /\ UNCHANGED <<now, honest, regulator, revocations, word>>

\* revokeFilerKey(): by a key that is live or the regulator's word; again, with
\* another time, as well
RevokeFilerKey ==
    /\ Len(revocations) < MaxRevocations
    /\ \E k \in DOMAIN keys, since \in 0 .. now :
          revocations' = Append(revocations, [key |-> k, since |-> since, at |-> now])
    /\ UNCHANGED <<now, honest, regulator, keys, word>>

\* checkInsurerAttestation(): the mirrors that answer are a quorum; a word older than
\* the one on file is refused
CheckWord ==
    /\ word' \in {w \in [key : DOMAIN keys, at : 0 .. now, by : SUBSET Mirrors \ {{}}] :
          /\ Cardinality(w.by) >= Quorum
          /\ word # NoWord => w.at >= word.at
          /\ FilerKeyOfRecord(w.key, w.at, w.by)}
    /\ UNCHANGED <<now, honest, regulator, keys, revocations>>

Next ==
    \/ Tick \/ AcceptRegulatorEvent \/ RotateFilerKey \/ RevokeFilerKey \/ CheckWord

Spec == Init /\ [][Next]_vars

----------------------------------------------------------------------------
TypeOK ==
    /\ now \in 0 .. MaxTime
    /\ \A k \in DOMAIN keys : keys[k].root \in DOMAIN regulator /\ keys[k].licensed <= keys[k].from

Recent == {t \in 0 .. now : now <= t + MaxAge}
Heard == word' # word /\ word'.by \cap honest # {}

\* News cannot be un-known: a signature under a key that was revoked as of then is
\* refused once the revocation has been declared for longer than the policy
\* allows a copy to be old, however many mirrors lie, as long as one does not
RevokedIsRefused ==
    [][Heard => \E t \in Recent : FilerKeyAt(word'.key, t, word'.at)]_vars

Postponed ==
    \E i, j \in DOMAIN revocations :
        i < j /\ revocations[i].key = revocations[j].key /\ revocations[i].since < revocations[j].since

\* No honest mirror is convicted of hiding a revocation: by whatever copy of
\* whatever age, so long as nobody revokes a key again with a later date
FilersNeverAccused ==
    ~Postponed =>
        \A k \in DOMAIN keys : \A copy, other \in 0 .. now :
            KeyAt(k, other).since # Never
            => ~FilerContradictedBy(k, copy, copy, KeyAt(k, other))

\* The same of the regulator: a key licensed under a key that was compromised then
\* is refused, for "a rotation is news that cannot be un-known" (registry.ts:422-423)
RegulatorNewsBlocks ==
    [][Heard => \E t \in Recent :
          RegulatorKeyAt(LogAt(t), keys[word'.key].root, keys[word'.key].licensed)]_vars
=============================================================================
