---------------------------- MODULE VenueKeysInv ----------------------------
(***************************************************************************)
(* The inductive invariant of VenueKeys, where MCAgentRuntime has it: how   *)
(* journal, ledger, ring, files and memory agree while a rotation is under   *)
(* way, and what it has yet to sign again.                                  *)
(***************************************************************************)
EXTENDS MCAgentRuntime

Instants == 1 .. MaxVenueTime
Certs == [key : Nat, root : Nat, at : Nat, from : Nat]
Revocations == [key : Nat, root : Nat, at : Nat, since : Nat]
Marks == [key : Nat, at : Nat]
Owed == {"CREDENTIAL_REISSUED", "COMMITMENT_REATTESTED"}
EntryTypes == {"GENESIS", "COMMITMENT", "KEY_ROTATION", "ROOT_ROTATION", "REATTESTATION", "RESEAL"}
Certifying == {"GENESIS", "KEY_ROTATION"}

KeyJournal == journal.kind = "KEY_ROTATION"
RootJournal == journal.kind = "ROOT_ROTATION"

\* The entry of the rotation under way is on the ledger, and it is not installed yet
Ahead == Ring!Recorded(journal) /\ ~Ring!AlreadyInstalled
KeyAhead == KeyJournal /\ Ahead
RootAhead == RootJournal /\ Ahead

Applying == {"ringed", "installed", "reissued", "reattested", "resealed", "persisted"}
Steps == {"idle", "journaled", "appended", "keyed"} \cup Applying

RingTypes ==
    /\ venueClock \in Instants
    /\ ring \in [roots : Seq(Nat), active : Nat \ {0}, certs : SUBSET Certs, revs : SUBSET Revocations]
    /\ Len(ring.roots) >= 1 /\ ring.roots[1] = 0
    /\ \A c \in ring.certs : c.key \in 1 .. ring.active
    /\ \A k \in 1 .. ring.active : \E c \in ring.certs : c.key = k
    /\ \A c \in ring.certs : c.from <= venueClock /\ c.at <= venueClock
    /\ step \in Steps /\ mode \in {"serving", "recovering", "refusing"}
    /\ nextFile \in {0, ring.active, ring.active + 1} /\ pending \in {0, nextFile}

OrderInv ==
    order # Ring!Nothing =>
        /\ order.cert \in Certs /\ order.revs \in SUBSET Revocations
        /\ order.cert.from <= venueClock /\ order.cert.at <= venueClock /\ order.cert.key >= 2
        /\ order.cert.key \in {ring.active, ring.active + 1}
        /\ order.cert.key = ring.active => order.cert \in ring.certs /\ order.revs \subseteq ring.revs
        /\ \A rv, rw \in order.revs : rv = rw
        /\ \A rv \in order.revs : rv.key < order.cert.key

KeyJournalInv ==
    KeyJournal =>
        /\ order # Ring!Nothing /\ journal.cert = order.cert /\ journal.revs = order.revs
        /\ \A rv \in journal.revs : rv.key = journal.previous
        /\ journal.cert.key # ring.active =>
              journal.cert.root = Len(ring.roots) /\ nextFile = journal.cert.key

RootJournalInv ==
    RootJournal =>
        /\ journal.root \in {Len(ring.roots), Len(ring.roots) + 1} /\ journal.root >= 2
        /\ journal.since \in Nat /\ journal.recert \in SUBSET Certs
        /\ \A c \in journal.recert : /\ c.key = ring.active /\ c.root = journal.root
                                     /\ c.at <= venueClock
                                     /\ \E o \in ring.certs : o.key = c.key /\ o.from = c.from
        /\ journal.since # 0 => journal.recert # {}
        /\ journal.root = Len(ring.roots) => journal.since = ring.roots[journal.root]

StepInv ==
    /\ journal = Ring!Nothing \/ KeyJournal \/ RootJournal
    /\ mode = "serving" /\ step = "idle" => journal = Ring!Nothing
    /\ step # "idle" => journal # Ring!Nothing
    /\ step \notin {"idle", "journaled"} => Ring!Recorded(journal)
    /\ step \in Applying => Ring!AlreadyInstalled
    /\ step \in {"keyed", "ringed"} => KeyJournal
    /\ step = "keyed" => journal.cert.key # ring.active
    /\ step = "ringed" => pending = 0
    /\ step \in {"reissued", "reattested", "resealed"} => KeyJournal /\ Ring!Since # 0

\* The key of the last entry that certifies one
Top == IF KeyAhead THEN journal.cert.key ELSE ring.active

LedgerInv ==
    /\ Len(ledger) >= 1 /\ \E S : ledger \in Seq(S)
    /\ \A i \in DOMAIN ledger :
          /\ ledger[i].type \in EntryTypes /\ (ledger[i].type = "GENESIS" <=> i = 1)
          /\ ledger[i].key \in 1 .. Top /\ ledger[i].at \in 1 .. venueClock
          /\ \A j \in DOMAIN ledger : i <= j => ledger[i].key <= ledger[j].key
    /\ \A i \in DOMAIN ledger :
          ledger[i].type \in Certifying =>
              /\ ledger[i].cert.key = ledger[i].key
              /\ ledger[i].cert \in ring.certs \/ (KeyAhead /\ ledger[i].cert = journal.cert)
    /\ \A k \in 1 .. Top : \E i \in DOMAIN ledger :
          ledger[i].type \in Certifying /\ ledger[i].key = k

\* What the chain says of roots and revocations is in the ring, but for what the
\* rotation under way has yet to install
Roots == IF RootAhead THEN journal.root ELSE Len(ring.roots)

RingInv ==
    /\ \A i \in DOMAIN ledger :
          ledger[i].type = "ROOT_ROTATION" =>
              /\ ledger[i].root \in 2 .. Roots
              /\ ledger[i].since = IF RootAhead /\ ledger[i].root = journal.root
                                   THEN journal.since ELSE ring.roots[ledger[i].root]
    /\ \A r \in 2 .. Roots : \E i \in DOMAIN ledger :
          ledger[i].type = "ROOT_ROTATION" /\ ledger[i].root = r
    /\ \A i \in DOMAIN ledger :
          ledger[i].type = "KEY_ROTATION" =>
              \A rv \in ledger[i].revs : rv \in ring.revs \/ (KeyAhead /\ rv \in journal.revs)
    /\ \A rv : rv \in ring.revs \/ (KeyAhead /\ rv \in journal.revs) =>
          \E i \in DOMAIN ledger : ledger[i].type = "KEY_ROTATION" /\ rv \in ledger[i].revs
    /\ \A rv \in ring.revs : rv.key < ring.active

\* A key's certificates give it one tenure, and what it has signed is from then on
TenureInv ==
    /\ \A c, d \in ring.certs : c.key = d.key => c.from = d.from
    /\ \A i \in DOMAIN ledger :
          /\ \A c \in ring.certs : c.key = ledger[i].key => c.from <= ledger[i].at
          /\ KeyAhead /\ ledger[i].key = journal.cert.key => journal.cert.from <= ledger[i].at
    /\ \E c \in ring.certs : c.key = ring.active /\ Ring!InTime(ring.roots, c)

\* The rotation that has revoked a key is still being applied, and has not come to
\* some of its steps
Working(rv) == KeyJournal /\ rv \in journal.revs /\ journal.cert.key = ring.active
Before(rv, steps) == Working(rv) /\ step \notin steps

Persisted  == {"persisted"}
Resealed   == {"resealed", "persisted"}
Reattested == {"reattested", "resealed", "persisted"}
Reissued   == {"reissued", "reattested", "resealed", "persisted"}

Declared == {rv \in ring.revs : rv.since # 0}

\* What a revocation casts doubt on
Doubted(rv, i) == /\ ledger[i].type # "KEY_ROTATION"
                  /\ ledger[i].key = rv.key /\ ledger[i].at >= rv.since

Affirms(s, rv, i) == /\ ledger[s].type = "RESEAL" /\ ledger[s].key > rv.key
                     /\ i \in ledger[s].from .. ledger[s].to
Affirmed(rv) ==
    \A i \in DOMAIN ledger : Doubted(rv, i) => \E s \in DOMAIN ledger : Affirms(s, rv, i)

AffirmedInv == \A rv \in Declared : Before(rv, Resealed) \/ Affirmed(rv)

\* The attestation is by a key in its tenure, and none is in doubt
Attesting(s, steps) ==
    /\ s \in [attested : SUBSET Marks, owed : SUBSET Owed] /\ \A a, b \in s.attested : a = b
    /\ \A a \in s.attested :
          /\ a.key \in 1 .. ring.active /\ a.at <= venueClock
          /\ \A c \in ring.certs : c.key = a.key => c.from <= a.at
          /\ \A rv \in Declared : a.key = rv.key /\ a.at >= rv.since => Before(rv, steps)

AttestedInv == Attesting(venueMem, Reattested) /\ Attesting(store, Persisted)

CredentialInv ==
    /\ venueCredential \in [key : Nat, issued : Nat, signed : Nat]
    /\ venueCredential.key # 0 =>
          /\ venueCredential.key <= ring.active /\ venueCredential.signed <= venueClock
          /\ \A c \in ring.certs : c.key = venueCredential.key => c.from <= venueCredential.signed
          /\ venueCredential.signed # venueCredential.issued =>
                \E rv \in Declared : rv.key # venueCredential.key
          /\ \A rv \in Declared :
                venueCredential.key = rv.key /\ venueCredential.issued >= rv.since =>
                    Before(rv, Reissued)

KeysInv == /\ RingTypes /\ OrderInv /\ KeyJournalInv /\ RootJournalInv /\ StepInv
           /\ LedgerInv /\ RingInv /\ TenureInv
           /\ AffirmedInv /\ AttestedInv /\ CredentialInv
=============================================================================
