----------------------------- MODULE VenueKeys -----------------------------
(***************************************************************************)
(* The venue's keys: roots of the operator, each committed to by the one   *)
(* before it, certify the operational key the venue signs with             *)
(* (protocol/venue-keys.ts, venue/keyring.ts).  A rotation of either is a   *)
(* transaction over journal, ledger and key ring (venue/service.ts); one    *)
(* that declares the old key compromised also affirms what it signed.       *)
(*                                                                         *)
(* Keys are numbers, in the order they are generated; root r is the r-th,   *)
(* and matches what root r - 1 has committed to.  A certificate holds who   *)
(* signed it and when.                                                      *)
(***************************************************************************)
EXTENDS Naturals, Sequences, FiniteSets

CONSTANTS
    MaxKeys,    \* bound: operational keys
    MaxRoots,   \* bound: roots
    MaxTime,    \* bound: the clock
    MaxCrashes  \* bound: crashes of the venue

VARIABLES
    now,
    ring,     \* venue-keyring.json: [roots, active, certs, revs]
    keyFile,  \* venue-key.jwk.json
    nextFile, \* venue-key.next.jwk.json
    pending,  \* the next key, in memory
    order,    \* the operator's certificate (with revocations) for the next key
    journal,  \* the rotation under way, on disk
    step,     \* how far it has come
    ledger,
    credential, \* issuer's file, the agent's credential: [key, issued, signed]
    store,    \* venue state on disk: [attested, owed]
    mem,      \* the same in memory
    mode,     \* "serving", "recovering", or "refusing" to start
    crashes

files == <<ring, keyFile, nextFile, journal, ledger, credential, store>>
vars == <<now, files, pending, order, step, mem, mode, crashes>>

None == 0        \* no key, no time
Nothing == [kind |-> "none"]

\* roots[r] is the time from which root r's event declares root r - 1
\* compromised, or None
Cert(k, r, from) == [key |-> k, root |-> r, at |-> now, from |-> from]
Revocation(k, r, since) == [key |-> k, root |-> r, at |-> now, since |-> since]
Entry(type, k) == [type |-> type, key |-> k, at |-> now]

Init ==
    LET founding == [key |-> 1, root |-> 1, at |-> 1, from |-> 1]
    IN  /\ now = 1
        /\ ring = [roots |-> <<None>>, active |-> 1, certs |-> {founding}, revs |-> {}]
        /\ keyFile = 1 /\ nextFile = None /\ pending = None
        /\ order = Nothing /\ journal = Nothing /\ step = "idle"
        /\ ledger = <<[type |-> "GENESIS", key |-> 1, at |-> 1, cert |-> founding]>>
        /\ credential = [key |-> None, issued |-> None, signed |-> None]
        /\ store = [attested |-> {}, owed |-> {}] /\ mem = store
        /\ mode = "serving" /\ crashes = 0

----------------------------------------------------------------------------
(* What a verifier makes of roots, certificates and revocations, whichever  *)
(* root it has pinned: the log links every root to every other              *)

\* From when root r is untrusted
UntrustedFrom(roots, r) ==
    IF r < Len(roots) /\ roots[r + 1] # None THEN roots[r + 1] ELSE MaxTime + 1

\* Signed by root before it was untrusted: a certificate, a revocation
InTime(roots, x) == x.at < UntrustedFrom(roots, x.root)

Usable(v, k) == {c \in v.certs : c.key = k /\ InTime(v.roots, c)}

TrustedAt(v, k, at) ==
    /\ \E c \in Usable(v, k) : at >= c.from
    /\ ~\E rv \in v.revs : /\ rv.key = k /\ rv.since # None /\ at >= rv.since
                           /\ InTime(v.roots, rv)

On(type) == {i \in DOMAIN ledger : ledger[i].type = type}

\* What the chain carries, for a verifier of the chain alone: its root events are
\* put in the order of their numbers (walkRootLog)
ChainView ==
    [roots |-> [r \in {1} \cup {ledger[i].root : i \in On("ROOT_ROTATION")} |->
                   IF r = 1 THEN None
                   ELSE ledger[CHOOSE i \in On("ROOT_ROTATION") : ledger[i].root = r].since],
     certs |-> {ledger[i].cert : i \in On("GENESIS") \cup On("KEY_ROTATION")},
     revs  |-> UNION {ledger[i].revs : i \in On("KEY_ROTATION")}]

Resealed(v) ==
    UNION {ledger[i].from .. ledger[i].to :
              i \in {i \in On("RESEAL") : TrustedAt(v, ledger[i].key, ledger[i].at)}}

\* verifyChain(), from a root
VerifyChain(v) ==
    /\ \A rv \in v.revs : InTime(v.roots, rv)
    /\ \A i \in DOMAIN ledger :
          /\ Usable(v, ledger[i].key) # {}
          /\ \/ ledger[i].type = "KEY_ROTATION"
             \/ TrustedAt(v, ledger[i].key, ledger[i].at)
             \/ i \in Resealed(v)

----------------------------------------------------------------------------
(* The venue at work, its operator, its crashes                             *)

Serving == mode = "serving" /\ step = "idle"

\* A rotation's writes take no time
Tick ==
    /\ now < MaxTime /\ step = "idle" /\ mode # "refusing"
    /\ now' = now + 1
    /\ UNCHANGED <<files, pending, order, step, mem, mode, crashes>>

\* A commitment, attested and on the ledger; a credential
Commit ==
    /\ Serving /\ mem.attested = {}
    /\ mem' = [mem EXCEPT !.attested = {[key |-> ring.active, at |-> now]}]
    /\ store' = mem'
    /\ ledger' = Append(ledger, Entry("COMMITMENT", ring.active))
    /\ UNCHANGED <<now, ring, keyFile, nextFile, journal, credential, pending, order,
                   step, mode, crashes>>

Issue ==
    /\ Serving /\ credential.key = None
    /\ credential' = [key |-> ring.active, issued |-> now, signed |-> now]
    /\ UNCHANGED <<now, ring, keyFile, nextFile, journal, ledger, store, pending, order,
                   step, mem, mode, crashes>>

\* keyRotationPrepare(): a new key, instead of one that waits for its certificate
Prepare ==
    /\ Serving
    /\ LET k == 1 + Cardinality({c.key : c \in ring.certs})
       IN  k <= MaxKeys /\ pending' = k /\ nextFile' = k
    /\ order' = Nothing
    /\ UNCHANGED <<now, ring, keyFile, journal, ledger, credential, store, step, mem,
                   mode, crashes>>

\* The operator certifies the next key, and revokes the old one: as retired, or
\* as compromised as of a time
Certify ==
    /\ Serving /\ pending \notin {None, ring.active} /\ order = Nothing
    /\ \E revs \in {{}} \cup {{Revocation(ring.active, Len(ring.roots), t)} : t \in 0 .. now} :
          order' = [kind |-> "order", cert |-> Cert(pending, Len(ring.roots), now), revs |-> revs]
    /\ UNCHANGED <<now, files, pending, step, mem, mode, crashes>>

Start(j) ==
    /\ journal' = j
    /\ step' = "journaled"
    /\ UNCHANGED <<now, ring, keyFile, nextFile, ledger, credential, store, pending,
                   order, mem, mode, crashes>>

\* keyRotationCommit(): the operator may send an order again
KeyRotationCommit ==
    /\ Serving
    /\ order # Nothing
    /\ order.cert.root = Len(ring.roots) /\ order.cert.key = pending
    /\ \A rv \in order.revs : rv.root = Len(ring.roots) /\ rv.key = ring.active
    /\ Start([kind |-> "KEY_ROTATION", previous |-> ring.active,
              cert |-> order.cert, revs |-> order.revs])

\* Signed by the new root, with the start of the key's tenure
Recert ==
    LET c == CHOOSE c \in ring.certs : c.key = ring.active
    IN  Cert(ring.active, Len(ring.roots) + 1, c.from)

\* rootRotationCommit(): the next root, the old one retired or compromised
RootRotationCommit ==
    /\ Serving /\ Len(ring.roots) < MaxRoots
    /\ \E t \in 0 .. now :
          Start([kind |-> "ROOT_ROTATION", root |-> Len(ring.roots) + 1, since |-> t,
                 recert |-> IF t = None THEN {} ELSE {Recert}])

Crash ==
    /\ mode # "refusing" /\ crashes < MaxCrashes
    /\ crashes' = crashes + 1
    /\ pending' = nextFile /\ mem' = store /\ step' = "idle"
    /\ mode' = IF keyFile = ring.active THEN "recovering" ELSE "refusing"
    /\ UNCHANGED <<now, files, order>>

----------------------------------------------------------------------------
(* The transaction, one write after the other, and recovery from its journal *)

At(s) == mode \in {"serving", "recovering"} /\ step = s

\* The entry is the commit point: a rotation's is signed by the successor
AppendEntry ==
    /\ At("journaled")
    /\ ledger' = Append(ledger,
          IF journal.kind = "KEY_ROTATION"
          THEN [type |-> journal.kind, key |-> journal.cert.key, at |-> now,
                cert |-> journal.cert, revs |-> journal.revs]
          ELSE [type |-> journal.kind, key |-> ring.active, at |-> now,
                root |-> journal.root, since |-> journal.since])
    /\ step' = "appended"
    /\ UNCHANGED <<now, ring, keyFile, nextFile, journal, credential, store, pending,
                   order, mem, mode, crashes>>

\* install(), installRoot(): nothing to do the second time
AlreadyInstalled ==
    IF journal.kind = "KEY_ROTATION" THEN journal.cert.key = ring.active
    ELSE journal.root = Len(ring.roots)

SkipInstall ==
    /\ At("appended") /\ AlreadyInstalled
    /\ step' = "installed"
    /\ UNCHANGED <<now, files, pending, order, mem, mode, crashes>>

InstallRoot ==
    /\ At("appended") /\ ~AlreadyInstalled /\ journal.kind = "ROOT_ROTATION"
    /\ ring' = [ring EXCEPT !.roots = Append(@, journal.since), !.certs = @ \cup journal.recert]
    /\ step' = "installed"
    /\ UNCHANGED <<now, keyFile, nextFile, journal, ledger, credential, store, pending,
                   order, mem, mode, crashes>>

\* install() of an operational key: the key, then the ring, then the next key's
\* file is removed
InstallKey ==
    /\ At("appended") /\ ~AlreadyInstalled /\ journal.kind = "KEY_ROTATION"
    /\ keyFile' = journal.cert.key
    /\ step' = "keyed"
    /\ UNCHANGED <<now, ring, nextFile, journal, ledger, credential, store, pending,
                   order, mem, mode, crashes>>

InstallRing ==
    /\ At("keyed")
    /\ ring' = [ring EXCEPT !.active = journal.cert.key, !.certs = @ \cup {journal.cert},
                            !.revs = @ \cup journal.revs]
    /\ pending' = None
    /\ step' = "ringed"
    /\ UNCHANGED <<now, keyFile, nextFile, journal, ledger, credential, store, order,
                   mem, mode, crashes>>

RemoveNext ==
    /\ At("ringed")
    /\ nextFile' = None
    /\ step' = "installed"
    /\ UNCHANGED <<now, ring, keyFile, journal, ledger, credential, store, pending,
                   order, mem, mode, crashes>>

\* From when the old key is compromised
Since ==
    IF journal.kind = "KEY_ROTATION" /\ \E rv \in journal.revs : rv.since # None
    THEN (CHOOSE rv \in journal.revs : TRUE).since ELSE None

Suspect(a) == a.key = journal.previous /\ a.at >= Since

\* Mutant: issued after the old key was compromised, not at that moment
SuspectAfter == credential.key = journal.previous /\ credential.issued > Since
SuspectCredential == credential.key = journal.previous /\ credential.issued >= Since

\* reissueUnder(): in the issuer's file at once; the agent's notice is in memory
Reissue ==
    /\ At("installed") /\ Since # None
    /\ IF SuspectCredential
       THEN /\ credential' = [credential EXCEPT !.key = ring.active, !.signed = now]
            /\ mem' = [mem EXCEPT !.owed = @ \cup {"CREDENTIAL_REISSUED"}]
       ELSE UNCHANGED <<credential, mem>>
    /\ step' = "reissued"
    /\ UNCHANGED <<now, ring, keyFile, nextFile, journal, ledger, store, pending, order,
                   mode, crashes>>

\* A commitment attested by the old key is attested by the new one: with the new
\* certificate its content is another, and no earlier attestation binds
Reattest ==
    /\ At("reissued")
    /\ IF /\ \E a \in mem.attested : Suspect(a)
          /\ ~\E a \in mem.attested : a.key = ring.active
       THEN /\ mem' = [mem EXCEPT !.attested = {[key |-> ring.active, at |-> now]},
                                  !.owed = @ \cup {"COMMITMENT_REATTESTED"}]
            /\ ledger' = Append(ledger, Entry("REATTESTATION", ring.active))
       ELSE UNCHANGED <<mem, ledger>>
    /\ step' = "reattested"
    /\ UNCHANGED <<now, ring, keyFile, nextFile, journal, credential, store, pending,
                   order, mode, crashes>>

RotationEntry ==
    CHOOSE i \in On("KEY_ROTATION") :
        /\ ledger[i].cert.key = journal.cert.key
        /\ \A j \in On("KEY_ROTATION") : ledger[j].cert.key = journal.cert.key => j >= i

\* Entries the new key affirms
SuspectEntries ==
    {i \in 1 .. RotationEntry - 1 : ledger[i].type # "KEY_ROTATION" /\ ledger[i].at >= Since}

Reseal ==
    /\ At("reattested")
    /\ IF SuspectEntries = {} THEN UNCHANGED ledger
       ELSE ledger' = Append(ledger,
                [type |-> "RESEAL", key |-> ring.active, at |-> now,
                 from |-> CHOOSE i \in SuspectEntries : \A j \in SuspectEntries : i <= j,
                 to   |-> CHOOSE i \in SuspectEntries : \A j \in SuspectEntries : i >= j])
    /\ step' = "resealed"
    /\ UNCHANGED <<now, ring, keyFile, nextFile, journal, credential, store, pending,
                   order, mem, mode, crashes>>

Persist ==
    /\ \/ At("resealed")
       \/ At("installed") /\ Since = None
    /\ store' = mem
    /\ step' = "persisted"
    /\ UNCHANGED <<now, ring, keyFile, nextFile, journal, ledger, credential, pending,
                   order, mem, mode, crashes>>

\* The operator has the answer, unless the venue has died meanwhile: then the
\* order may come again
Finish ==
    /\ At("persisted")
    /\ journal' = Nothing /\ step' = "idle" /\ mode' = "serving"
    /\ order' = IF mode = "serving" /\ journal.kind = "KEY_ROTATION" THEN Nothing ELSE order
    /\ UNCHANGED <<now, ring, keyFile, nextFile, ledger, credential, store, pending,
                   mem, crashes>>

Recorded(j) ==
    \E i \in On(j.kind) : IF j.kind = "KEY_ROTATION" THEN ledger[i].cert.key = j.cert.key
                          ELSE ledger[i].root = j.root

\* recover(): finish a rotation whose entry is on the ledger, discard the other
Recover ==
    /\ mode = "recovering" /\ step = "idle"
    /\ IF journal # Nothing /\ Recorded(journal)
       THEN step' = "appended" /\ UNCHANGED <<journal, mode>>
       ELSE journal' = Nothing /\ mode' = "serving" /\ UNCHANGED step
    /\ UNCHANGED <<now, ring, keyFile, nextFile, ledger, credential, store, pending,
                   order, mem, crashes>>

Next ==
    \/ Tick \/ Commit \/ Issue \/ Prepare \/ Certify \/ Crash
    \/ KeyRotationCommit \/ RootRotationCommit
    \/ AppendEntry \/ SkipInstall \/ InstallRoot \/ InstallKey \/ InstallRing
    \/ RemoveNext \/ Reissue \/ Reattest \/ Reseal \/ Persist \/ Finish \/ Recover

Spec == Init /\ [][Next]_vars

----------------------------------------------------------------------------
\* A root was declared compromised as of a time before it signed a certificate
\* or a revocation the venue has taken
Backdated == \E x \in ring.certs \cup ring.revs : ~InTime(ring.roots, x)

\* Whatever becomes of the roots, agents that fetch the venue's key history
\* trust what the venue signs, and all its key has signed since it was certified,
\* even in the middle of a rotation, unless the key is declared compromised
\* (makeResolver, installRoot)
SignerTrusted ==
    \A i \in DOMAIN ledger :
        ledger[i].key = ring.active => TrustedAt(ring, ring.active, ledger[i].at)

\* Two declarations of compromise of operational keys, or more
Repeated == \E rv, rw \in ring.revs : rv.key # rw.key /\ rv.since # None /\ rw.since # None

\* Between rotations the ledger verifies from any root, across rotations that
\* died at any write and declarations of compromise: every entry is signed in
\* time or affirmed (verifyChain, applyKeyRotation)
ChainVerifies == Serving /\ ~Backdated /\ ~Repeated => VerifyChain(ChainView)

\* Between rotations what agents and offline verifiers rely on can be trusted: a
\* commitment on file has an attestation, a credential its signature, by a key
\* not compromised at the time (applyKeyRotation, reattestArtifact, reissueUnder)
StillTrusted ==
    Serving /\ ~Backdated =>
        /\ mem.attested # {} => \E a \in mem.attested : TrustedAt(ring, a.key, a.at)
        /\ credential.key # None /\ ~Repeated
           => TrustedAt(ring, credential.key, credential.signed)

\* Between rotations the key ring is what the ledger says: the active key is the
\* one rotated to last, the roots are those recorded, and nothing is lost when
\* the venue dies in between (recover)
RingFollowsLedger ==
    Serving =>
        /\ ring.roots = ChainView.roots
        /\ ring.revs = ChainView.revs
        /\ LET last == CHOOSE i \in On("GENESIS") \cup On("KEY_ROTATION") :
                         \A j \in On("KEY_ROTATION") : j <= i
           IN  ring.active = ledger[last].cert.key

\* The venue starts again wherever it has died: a rotation whose entry is on the
\* ledger is finished, another is discarded (service.ts:858-859)
StartsAgain == mode # "refusing"

\* Where the operator declares keys compromised again and again, credentials are
\* to be trusted as well: re-signing lets verifiers trust them again
\* (issuer.ts:294-297)
StillTrustedAgain ==
    Serving /\ ~Backdated /\ credential.key # None
    => TrustedAt(ring, credential.key, credential.signed)
=============================================================================
