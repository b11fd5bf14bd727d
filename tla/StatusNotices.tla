---------------------------- MODULE StatusNotices ----------------------------
(***************************************************************************)
(* Credential statuses and the notices that change them (submitNotice,     *)
(* applyNotice, recordCredentialStatus, revokeCredential and the last part *)
(* of recover, src/venue/service.ts; revoke, src/identity/issuer.ts), with *)
(* a witness that holds the venue to its promises (src/protocol/           *)
(* witness-core.ts).                                                       *)
(*                                                                         *)
(* The venue does one of these at a time (none of them awaits), in steps   *)
(* between which it may die: the issuer's file, then the ledger.  The      *)
(* witness sees the ledger; the venue is honest.  A status carries the     *)
(* time it was set, here a number of its own for each: two statuses of one *)
(* millisecond are left out.  The order in which a notice's credentials    *)
(* are taken is left open.                                                 *)
(***************************************************************************)
EXTENDS Naturals, SequencesExt

CONSTANTS
    Credentials,
    Issued,       \* those this venue has issued
    Notices,      \* notices that sources submit
    Named,        \* [Notices -> the credentials a notice is about]
    ByEntity,     \* notices that name an entity: its live credentials are meant
    NoCredential,
    NoNotice,
    MaxStatuses,  \* bound: statuses set before a request that sets more is let in
    MaxCrashes    \* bound: crashes

ASSUME NoticesAssumption ==
    /\ Issued \subseteq Credentials /\ NoCredential \notin Credentials
    /\ ByEntity \subseteq Notices /\ NoNotice \notin Notices
    /\ Named \in [Notices -> SUBSET Credentials]
    /\ \A n \in Notices \ ByEntity : Named[n] # {}
    /\ MaxStatuses \in Nat /\ MaxCrashes \in Nat

VARIABLES
    status,    \* issuer's file: [Credentials -> time its status was set]; 0: active
    clock,     \* statuses set so far
    ledger,    \* status entries and others, in order
    promised,  \* notices whose promise has been returned to the source
    due,       \* those whose deadline has passed
    mode,      \* "serving", "recovering" or "down"
    job,       \* what the venue is in the middle of
    crashes,
    verified,  \* witness: entries of the ledger it has verified and cosigned
    signed,    \* witness: positions it has signed receipts for
    latest,    \* witness: its latest receipt: position, and what was due when signed
    watching,  \* witness: promises lodged with it, not decided yet
    broken     \* witness: promises it has declared broken

venueVars == <<status, clock, ledger, promised, mode, job, crashes>>
witnessVars == <<verified, signed, latest, watching, broken>>
vars == <<venueVars, due, witnessVars>>

\* An entry without a credential and a time is one of status null, or no status
Entry == [credential : Issued \cup {NoCredential}, at : Nat,
          notice : Notices \cup {NoNotice}, type : {"CREDENTIAL_STATUS", "GENESIS"}]
NoJob == [kind |-> "none"]
Job   == [kind : {"notice", "revoke", "recover"}, notice : Notices \cup {NoNotice},
          todo : SUBSET Credentials, current : Issued \cup {NoCredential}]

TypeOK ==
    /\ status \in [Credentials -> Nat] /\ clock \in Nat
    /\ ledger \in Seq(Entry)
    /\ due \subseteq promised /\ promised \subseteq Notices
    /\ mode \in {"serving", "recovering", "down"}
    /\ job \in Job \cup {NoJob}
    /\ mode = "down" => job = NoJob
    /\ crashes \in 0 .. MaxCrashes
    /\ verified \in 0 .. Len(ledger) /\ signed \subseteq 1 .. verified
    /\ latest \in [position : 0 .. verified, due : SUBSET Notices]
    /\ watching \subseteq promised \ broken /\ broken \subseteq promised

Genesis == [credential |-> NoCredential, at |-> 0, notice |-> NoNotice, type |-> "GENESIS"]

Init ==
    /\ status = [c \in Credentials |-> 0] /\ clock = 0
    /\ ledger = <<Genesis>>
    /\ promised = {} /\ due = {}
    /\ mode = "serving" /\ job = NoJob /\ crashes = 0
    /\ verified = 0 /\ signed = {} /\ latest = [position |-> 0, due |-> {}]
    /\ watching = {} /\ broken = {}

----------------------------------------------------------------------------
(* Notices and revocations                                                 *)

Free == mode = "serving" /\ job = NoJob

StatusEntry(c, at, n) ==
    [credential |-> c, at |-> at, notice |-> n, type |-> "CREDENTIAL_STATUS"]

OnLedger(n) == \E i \in DOMAIN ledger : ledger[i].notice = n

\* The credentials meant by a notice: the one it names, issued here or not, or
\* the live ones of an entity
Targets(n) ==
    IF n \in ByEntity THEN {c \in Named[n] \cap Issued : status[c] = 0} ELSE Named[n]

Begin(kind, n, todo) ==
    job' = [kind |-> kind, notice |-> n, todo |-> todo, current |-> NoCredential]

\* A notice that is on the ledger already is promised again, and that is all
SubmitAgain(n) ==
    /\ Free /\ OnLedger(n)
    /\ promised' = promised \cup {n}
    /\ UNCHANGED <<status, clock, ledger, mode, job, crashes, due, witnessVars>>

\* No live credential: the notice is recorded with status null
SubmitUnmatched(n) ==
    /\ Free /\ ~OnLedger(n) /\ Targets(n) = {}
    /\ ledger' = Append(ledger, StatusEntry(NoCredential, 0, n))
    /\ promised' = promised \cup {n}
    /\ UNCHANGED <<status, clock, mode, job, crashes, due, witnessVars>>

SubmitNotice(n) ==
    /\ Free /\ ~OnLedger(n) /\ Targets(n) # {}
    /\ clock < MaxStatuses
    /\ Begin("notice", n, Targets(n))
    /\ UNCHANGED <<status, clock, ledger, promised, mode, crashes, due, witnessVars>>

\* An operator revokes a credential
RevokeCredential(c) ==
    /\ Free /\ c \in Issued
    /\ clock < MaxStatuses
    /\ Begin("revoke", NoNotice, {c})
    /\ UNCHANGED <<status, clock, ledger, promised, mode, crashes, due, witnessVars>>

\* The credential whose status is to be recorded, if it has one
Taken(c) == IF c \in Issued THEN c ELSE NoCredential

\* The next credential: its status is set in the issuer's file, unless it was not
\* issued here, or unless its status is only to be looked for
Take(c) ==
    /\ job # NoJob
    /\ c \in job.todo /\ job.current = NoCredential
    /\ IF job.kind = "recover" \/ c \notin Issued
       THEN UNCHANGED <<status, clock>>
       ELSE /\ clock' = clock + 1
            /\ status' = [status EXCEPT ![c] = clock + 1]
    /\ job' = [job EXCEPT !.todo = @ \ {c},
                          !.current = Taken(c)]
    /\ UNCHANGED <<ledger, promised, mode, crashes, due, witnessVars>>

\* Mutant: any status of that credential will do
MatchesCredential(e, c) == e.credential = c

\* The entry of the status a credential has now
Matches(e, c) == e.credential = c /\ e.at = status[c]

\* Mutant: entries that are no status entries are looked into as well
UnreadableAny(e) == e.credential = NoCredential

\* Looking into a status entry of status null throws
Unreadable(e) == e.type = "CREDENTIAL_STATUS" /\ e.credential = NoCredential

Recorded(c) == \E i \in DOMAIN ledger : Matches(ledger[i], c)

\* Does the search for the status of c come to such an entry first?
Throws(c) ==
    \E i \in DOMAIN ledger :
       Unreadable(ledger[i]) /\ \A j \in 1 .. i - 1 : ~Matches(ledger[j], c)

\* The status goes on the ledger, unless it is there
RecordStatus ==
    LET c == job.current IN
    /\ job # NoJob /\ c # NoCredential
    /\ ~Throws(c)
    /\ ledger' = IF Recorded(c) THEN ledger
                 ELSE Append(ledger, StatusEntry(c, status[c], job.notice))
    /\ job' = [job EXCEPT !.current = NoCredential]
    /\ UNCHANGED <<status, clock, promised, mode, crashes, due, witnessVars>>

\* The exception ends a request with an error, and recovery with the process
RecordThrows ==
    /\ job # NoJob /\ job.current # NoCredential
    /\ Throws(job.current)
    /\ job' = NoJob
    /\ mode' = IF mode = "recovering" THEN "down" ELSE mode
    /\ UNCHANGED <<status, clock, ledger, promised, crashes, due, witnessVars>>

\* All done: the source gets its promise, or the venue begins to serve
Finish ==
    /\ job # NoJob
    /\ job.todo = {} /\ job.current = NoCredential
    /\ promised' = promised \cup ({job.notice} \ {NoNotice})
    /\ mode' = "serving"
    /\ job' = NoJob
    /\ UNCHANGED <<status, clock, ledger, crashes, due, witnessVars>>

Crash ==
    /\ mode # "down" /\ crashes < MaxCrashes
    /\ crashes' = crashes + 1
    /\ mode' = "down" /\ job' = NoJob
    /\ UNCHANGED <<status, clock, ledger, promised, due, witnessVars>>

\* Mutant: statuses are taken to be on the ledger
ReconcilesNothing == {}

\* Every credential that has a status
Reconciles == {c \in Credentials : status[c] # 0}

\* Before it serves, the venue puts the statuses on the ledger that are not there
Recover ==
    /\ mode = "down"
    /\ mode' = "recovering"
    /\ Begin("recover", NoNotice, Reconciles)
    /\ UNCHANGED <<status, clock, ledger, promised, crashes, due, witnessVars>>

----------------------------------------------------------------------------
(* The witness                                                             *)

Seen(upTo) == {ledger[i].notice : i \in 1 .. upTo}

\* The promises past their deadline by that receipt and not on the verified chain
Absent(lodged, upTo, receipt) == {n \in lodged \ Seen(upTo) : n \in receipt.due}

CheckWatched(lodged, upTo, receipt) ==
    /\ broken' = broken \cup Absent(lodged, upTo, receipt)
    /\ watching' = (lodged \ Seen(upTo)) \ Absent(lodged, upTo, receipt)

\* A poll: the chain has grown, and its head is cosigned
Cosign ==
    LET receipt == [position |-> Len(ledger), due |-> due] IN
    /\ Free
    /\ broken = {}
    /\ verified < Len(ledger)
    /\ verified' = Len(ledger)
    /\ signed' = signed \cup {Len(ledger)}
    /\ latest' = receipt
    /\ CheckWatched(watching, Len(ledger), receipt)
    /\ UNCHANGED <<venueVars, due>>

\* A peer asks for a receipt for a position cosigned before without one: it is
\* dated now, and the latest
ReceiptFor(position) ==
    /\ position \in 1 .. verified \ signed
    /\ signed' = signed \cup {position}
    /\ latest' = [position |-> position, due |-> due]
    /\ UNCHANGED <<venueVars, due, verified, watching, broken>>

\* A source lodges its promise, which is judged by the latest receipt
Watch(n) ==
    /\ n \in promised \ broken
    /\ IF verified = 0
       THEN watching' = watching \cup {n} /\ UNCHANGED broken
       ELSE CheckWatched(watching \cup {n}, verified, latest)
    /\ UNCHANGED <<venueVars, due, verified, signed, latest>>

\* The time by which a promise is to be kept passes
Deadline(n) ==
    /\ n \in promised \ due
    /\ due' = due \cup {n}
    /\ UNCHANGED <<venueVars, witnessVars>>

----------------------------------------------------------------------------

Next ==
    \/ \E n \in Notices :
          \/ SubmitAgain(n) \/ SubmitUnmatched(n) \/ SubmitNotice(n)
          \/ Watch(n) \/ Deadline(n)
    \/ \E c \in Credentials : RevokeCredential(c) \/ Take(c)
    \/ RecordStatus \/ RecordThrows \/ Finish
    \/ Crash \/ Recover
    \/ Cosign
    \/ \E position \in 1 .. verified : ReceiptFor(position)

Spec == Init /\ [][Next]_vars

\* Synchronous code runs on; the venue is started again when it has died
Fairness ==
    /\ WF_vars(\E c \in Credentials : Take(c))
    /\ WF_vars(RecordStatus \/ RecordThrows \/ Finish)
    /\ WF_vars(Recover)

FairSpec == Spec /\ Fairness

----------------------------------------------------------------------------
(* Properties                                                              *)

\* Every status the issuer holds is on the ledger (recover, recordCredentialStatus:
\* "Every credential status the issuer holds must be on the ledger").  The code
\* does not ensure it once an unmatched notice is on the ledger.
StatusesOnLedger == Free => \A c \in Issued : status[c] # 0 => Recorded(c)

AllMatched ==
    \A i \in DOMAIN ledger :
       ledger[i].type = "CREDENTIAL_STATUS" => ledger[i].credential # NoCredential

\* As long as every notice has met a live credential, whatever crash comes
\* between the issuer's file and the ledger, the two agree when requests are let
\* in (recover, recordCredentialStatus)
MatchedOnLedger == AllMatched => StatusesOnLedger

Recordable(n) == n \in ByEntity \/ Named[n] \subseteq Issued

\* A promise is returned only when the notice is on the ledger, however many
\* notices are about one credential (submitNotice, applyNotice); a notice about a
\* credential issued elsewhere is promised and not recorded
PromisedIsRecorded == \A n \in promised : Recordable(n) => OnLedger(n)

\* As long as every notice has met a live credential, a venue that has died serves
\* again (recover)
ServesAgain == ([]AllMatched) => (mode = "down" ~> mode = "serving")

\* An honest venue's promise is never declared broken (checkWatched: "a promise
\* past its deadline with no matching entry in the chain they verified is proof
\* of misbehaviour", inclusion.ts:7)
KeptPromise == \A n \in broken : ~OnLedger(n)

\* It is not as long as the witness's latest receipt is that of its head
KeptByHead == ([](latest.position = verified)) => []KeptPromise

\* The venue comes back, and no promise kept in time is declared broken
ServesAndKeeps == ServesAgain /\ KeptByHead
==============================================================================
