---------------------------- MODULE VenueCommit ----------------------------
(***************************************************************************)
(* Negotiation, commit transaction, voiding and crash recovery of the      *)
(* venue (src/venue/service.ts).                                           *)
(*                                                                         *)
(* The venue is one Node process.  A handler runs without interruption     *)
(* until it awaits something, so what interleaves is: handlers parked at   *)
(* the await that reads the registry (`calls'), and the process dying.     *)
(* A handler's run from one await to the next is one action, except for    *)
(* the commit, void and lifecycle transactions: they write several files   *)
(* one after another with no await between, and only a crash can separate  *)
(* the writes.  Such a transaction is a `section', one action per write.   *)
(*                                                                         *)
(* Every variable but `calls', `section' and `mode' is on disk: at every   *)
(* await the maps in memory equal the last snapshot, so a crash forgets    *)
(* the parked handlers and the open section and nothing else.              *)
(***************************************************************************)
EXTENDS Naturals, Sequences

CONSTANTS
    Tasks,        \* negotiations, one per (load, counterparty)
    LoadOf,       \* the load a task is about
    BrokerOf,     \* the agent that tenders it
    CarrierOf,    \* the agent it is tendered to
    Offers,       \* rate and windows put on the table, or accepted as terms
    NoOffer,      \* nothing on the table, or no acceptance
    Handlers,     \* slots for handlers in flight
    Overlap,      \* may a handler start while another is parked at an await?
    Reported,     \* bound: lifecycle events the parties report
    MaxRounds,    \* config.maxRounds
    MaxCommits,   \* bound: commitment ids drawn
    MaxCrashes    \* bound: times the process dies

ASSUME TasksAssumption == Tasks # {} /\ Offers # {} /\ NoOffer \notin Offers
ASSUME OverlapAssumption == Overlap \in BOOLEAN
ASSUME BoundsAssumption ==
    MaxRounds \in Nat /\ MaxCommits \in Nat /\ MaxCrashes \in Nat

Sides == {"broker", "carrier"}
Other(s) == IF s = "broker" THEN "carrier" ELSE "broker"
Cids == 1 .. MaxCommits

----------------------------------------------------------------------------
VARIABLES
    state,     \* [Tasks -> A2A state of the task]; "none": not tendered yet
    status,    \* [Tasks -> the venue's own status of the negotiation]
    awaiting,  \* [Tasks -> side whose reply is awaited]
    round,     \* [Tasks -> negotiation round]
    onTable,   \* [Tasks -> offer on the table]
    accepted,  \* [Tasks -> [Sides -> terms in the acceptance on file]]
    told,      \* [Tasks -> outcome notices enqueued for the parties, in order]
    record,    \* [Cids -> status of the commitment record]
    guarantee, \* [Cids -> status of the guarantee attached to it]
    exposure,  \* [Cids -> [Sides -> entry in that party's exposure book]]
    ledger,    \* the append-only chain, entries about commitments only
    journal,   \* [Cids -> kind of the journal file on disk]
    intent,    \* [Cids -> content of the commit journal written under this id]
    nextCid,   \* the commitment id the next commit will draw
    calls,     \* [Handlers -> handler parked at its await]
    section,   \* the transaction being written, and its next write
    mode,      \* "serving", or "recovering" after a start
    crashes    \* crashes so far

taskVars == <<state, status, awaiting, round, onTable, accepted, told>>
bookVars == <<record, guarantee, exposure>>
logVars  == <<ledger, journal, intent, nextCid>>
procVars == <<calls, section, mode, crashes>>
vars == <<taskVars, bookVars, logVars, procVars>>

States   == {"none", "working", "completed", "canceled", "failed", "rejected"}
Terminal == {"completed", "canceled", "failed", "rejected"}
Statuses == {"NEGOTIATING", "COUNTERSIGN", "COMMITTED",
             "REJECTED", "CANCELED", "FAILED"}
Records  == {"none", "ACTIVE", "IN_TRANSIT", "DELIVERED", "COMPLETED", "VOIDED"}
Events   == {"PICKED_UP", "DELIVERED", "DELIVERY_ACCEPTED"}
Terms    == Offers \cup {NoOffer}

NoCall   == [kind |-> "none"]
Idle     == [kind |-> "idle", cid |-> 0, step |-> "none"]
NoIntent == [task |-> "none"]

Entry   == [type : {"COMMITMENT", "VOID"} \cup Events, cid : Cids]
Notice  == [type : {"COMMITTED", "REFUSED", "VOIDED"}, cid : Cids \cup {0}]
Intent  == [task : Tasks, terms : Terms, signed : [Sides -> Terms],
            guaranteed : BOOLEAN]
Call    == [kind : {"TENDER", "COMMIT"}, task : Tasks, terms : Terms]
             \cup [kind : {"COUNTER", "ACCEPT", "REJECT"}, task : Tasks,
                   by : Sides, terms : Terms]
             \cup [kind : {"CHECK"}, cid : Cids]
Section == [kind : {"COMMIT", "VOID"}, cid : Cids,
            step : {"append", "guarantee", "broker", "carrier",
                    "snapshot", "cleanup"}]
             \cup [kind : {"PICKED_UP", "DELIVERED"}, cid : Cids,
                   step : {"append", "snapshot"}]
             \cup [kind : {"DELIVERY_ACCEPTED"}, cid : Cids,
                   step : {"append", "guarantee", "snapshot"}]

TypeOK ==
    /\ state \in [Tasks -> States]
    /\ status \in [Tasks -> Statuses]
    /\ awaiting \in [Tasks -> Sides]
    /\ round \in [Tasks -> Nat]
    /\ onTable \in [Tasks -> Terms]
    /\ accepted \in [Tasks -> [Sides -> Terms]]
    /\ told \in [Tasks -> Seq(Notice)]
    /\ record \in [Cids -> Records]
    /\ guarantee \in [Cids -> {"none", "ATTACHED", "CLAIMABLE", "RELEASED"}]
    /\ exposure \in [Cids -> [Sides -> {"none", "held", "released"}]]
    /\ ledger \in Seq(Entry)
    /\ journal \in [Cids -> {"none", "COMMIT", "VOID"}]
    /\ intent \in [Cids -> Intent \cup {NoIntent}]
    /\ nextCid \in 1 .. MaxCommits + 1
    /\ calls \in [Handlers -> Call \cup {NoCall}]
    /\ section \in Section \cup {Idle}
    /\ mode \in {"serving", "recovering"}
    /\ crashes \in 0 .. MaxCrashes

Init ==
    /\ state = [t \in Tasks |-> "none"]
    /\ status = [t \in Tasks |-> "NEGOTIATING"]
    /\ awaiting = [t \in Tasks |-> "carrier"]
    /\ round = [t \in Tasks |-> 1]
    /\ onTable = [t \in Tasks |-> NoOffer]
    /\ accepted = [t \in Tasks |-> [s \in Sides |-> NoOffer]]
    /\ told = [t \in Tasks |-> <<>>]
    /\ record = [c \in Cids |-> "none"]
    /\ guarantee = [c \in Cids |-> "none"]
    /\ exposure = [c \in Cids |-> [s \in Sides |-> "none"]]
    /\ ledger = <<>>
    /\ journal = [c \in Cids |-> "none"]
    /\ intent = [c \in Cids |-> NoIntent]
    /\ nextCid = 1
    /\ calls = [h \in Handlers |-> NoCall]
    /\ section = Idle
    /\ mode = "serving"
    /\ crashes = 0

----------------------------------------------------------------------------
Open(t) == state[t] = "working"

SameLoad(t, u) == BrokerOf[t] = BrokerOf[u] /\ LoadOf[t] = LoadOf[u]

Sibling(t, u) == t # u /\ SameLoad(t, u)

OnLedger(type, c) == \E i \in 1 .. Len(ledger) :
                        ledger[i] = [type |-> type, cid |-> c]

\* An ACTIVE commitment in which t's broker is the broker for t's load
Won(t) == \E c \in Cids : record[c] = "ACTIVE" /\ SameLoad(t, intent[c].task)

\* t's broker is the performing carrier of an ACTIVE commitment for this load
DoubleBrokering(t) ==
    \E c \in Cids : /\ record[c] = "ACTIVE"
                    /\ CarrierOf[intent[c].task] = BrokerOf[t]
                    /\ LoadOf[intent[c].task] = LoadOf[t]

NoneInFlight == \A h \in Handlers : calls[h] = NoCall

\* The event loop may start a handler: none is mid-transaction
CanStart == mode = "serving" /\ section = Idle /\ (Overlap \/ NoneInFlight)

\* The event loop may resume handler h from its await
Resumes(h, kinds) == section = Idle /\ calls[h].kind \in kinds

Park(h, call) == calls[h] = NoCall /\ calls' = [calls EXCEPT ![h] = call]

Return(h) == calls' = [calls EXCEPT ![h] = NoCall]

\* End a negotiation: both fields of the task and the notices
Terminate(t, st, stat) ==
    /\ state' = [state EXCEPT ![t] = st]
    /\ status' = [status EXCEPT ![t] = stat]
    /\ told' = [told EXCEPT ![t] = Append(@, [type |-> "REFUSED", cid |-> 0])]
    /\ UNCHANGED <<awaiting, round, onTable, accepted>>

Fail(t) == Terminate(t, "failed", "FAILED")

----------------------------------------------------------------------------
(* Negotiation                                                             *)

Tender(t, o, h) ==
    /\ CanStart
    /\ state[t] = "none"
    /\ \A g \in Handlers : ~(calls[g].kind = "TENDER" /\ calls[g].task = t)
    /\ Park(h, [kind |-> "TENDER", task |-> t, terms |-> o])
    /\ UNCHANGED <<taskVars, bookVars, logVars, section, mode, crashes>>

\* Standing, mandate, an unknown carrier: outside the model, always possible
TenderRefuse(h) ==
    /\ Resumes(h, {"TENDER"})
    /\ LET t == calls[h].task IN
         /\ state' = [state EXCEPT ![t] = "rejected"]
         /\ status' = [status EXCEPT ![t] = "REJECTED"]
    /\ Return(h)
    /\ UNCHANGED <<awaiting, round, onTable, accepted, told,
                   bookVars, logVars, section, mode, crashes>>

\* Mutant: (b2) is not looked at
AdmissibleUnlessDoubleBrokering(t) == ~DoubleBrokering(t)

\* (b) no double-brokering, (b2) first commitment wins
Admissible(t) == ~DoubleBrokering(t) /\ ~Won(t)

TenderAdmit(h) ==
    /\ Resumes(h, {"TENDER"})
    /\ LET t == calls[h].task IN
         /\ Admissible(t)
         /\ state' = [state EXCEPT ![t] = "working"]
         /\ onTable' = [onTable EXCEPT ![t] = calls[h].terms]
    /\ Return(h)
    /\ UNCHANGED <<status, awaiting, round, accepted, told,
                   bookVars, logVars, section, mode, crashes>>

\* COUNTER, ACCEPT or REJECT arrives: checked here, then parked at the await
Message(t, s, kind, o, h) ==
    /\ CanStart
    /\ kind = "REJECT" <=> o = NoOffer
    /\ Open(t)
    /\ awaiting[t] = s
    /\ Park(h, [kind |-> kind, task |-> t, by |-> s, terms |-> o])
    /\ UNCHANGED <<taskVars, bookVars, logVars, section, mode, crashes>>

\* Registry unavailable, standing, mandate, rounds used up, terms that differ
AdvanceFail(h) ==
    /\ Resumes(h, {"COUNTER", "ACCEPT", "REJECT"})
    /\ Fail(calls[h].task)
    /\ Return(h)
    /\ UNCHANGED <<bookVars, logVars, section, mode, crashes>>

RejectResume(h) ==
    /\ Resumes(h, {"REJECT"})
    /\ Terminate(calls[h].task, "canceled", "REJECTED")
    /\ Return(h)
    /\ UNCHANGED <<bookVars, logVars, section, mode, crashes>>

\* Mutant: a counter puts the task back to work
CounterReopens(h) ==
    /\ Resumes(h, {"COUNTER"})
    /\ LET t == calls[h].task IN
         /\ round[t] + 1 <= MaxRounds
         /\ state' = [state EXCEPT ![t] = "working"]
         /\ round' = [round EXCEPT ![t] = @ + 1]
         /\ onTable' = [onTable EXCEPT ![t] = calls[h].terms]
         /\ awaiting' = [awaiting EXCEPT ![t] = Other(calls[h].by)]
         /\ status' = [status EXCEPT ![t] = "NEGOTIATING"]
    /\ Return(h)
    /\ UNCHANGED <<accepted, told, bookVars, logVars, section, mode, crashes>>

CounterResume(h) ==
    /\ Resumes(h, {"COUNTER"})
    /\ LET t == calls[h].task IN
         /\ round[t] + 1 <= MaxRounds
         /\ round' = [round EXCEPT ![t] = @ + 1]
         /\ onTable' = [onTable EXCEPT ![t] = calls[h].terms]
         /\ awaiting' = [awaiting EXCEPT ![t] = Other(calls[h].by)]
         /\ status' = [status EXCEPT ![t] = "NEGOTIATING"]
    /\ Return(h)
    /\ UNCHANGED <<state, accepted, told, bookVars, logVars,
                   section, mode, crashes>>

\* The broker's load was committed elsewhere in the meantime
AcceptLost(h) ==
    /\ Resumes(h, {"ACCEPT"})
    /\ Won(calls[h].task)
    /\ Terminate(calls[h].task, "canceled", "CANCELED")
    /\ Return(h)
    /\ UNCHANGED <<bookVars, logVars, section, mode, crashes>>

\* Mutant: a prior acceptance of other terms is not looked at
TermsOnTable(t, s, o) == onTable[t] = o

\* The accepted terms are the offer on the table and the other side's, if any
TermsAgree(t, s, o) ==
    /\ onTable[t] = o
    /\ accepted[t][Other(s)] \in {NoOffer, o}

\* The acceptance is checked and goes on file, in a snapshot of its own
Accepts(h) ==
    LET t == calls[h].task
        s == calls[h].by
        o == calls[h].terms
    IN  /\ Resumes(h, {"ACCEPT"})
        /\ ~Won(t)
        /\ TermsAgree(t, s, o)
        /\ accepted' = [accepted EXCEPT ![t][s] = o]

\* A first acceptance passes the turn for the countersignature; the second one
\* goes on to commit(), which awaits the registry again
AcceptResume(h) ==
    /\ Accepts(h)
    /\ LET t == calls[h].task
           s == calls[h].by
       IN \/ /\ accepted[t][Other(s)] = NoOffer
             /\ status' = [status EXCEPT ![t] = "COUNTERSIGN"]
             /\ awaiting' = [awaiting EXCEPT ![t] = Other(s)]
             /\ Return(h)
          \/ /\ accepted[t][Other(s)] # NoOffer
             /\ calls' = [calls EXCEPT ![h] =
                    [kind |-> "COMMIT", task |-> t, terms |-> calls[h].terms]]
             /\ UNCHANGED <<status, awaiting>>
    /\ UNCHANGED <<state, round, onTable, told, bookVars, logVars,
                   section, mode, crashes>>

\* The reply-timeout sweep reaches a task whose party has been silent
Timeout(t) ==
    /\ CanStart
    /\ Open(t)
    /\ Terminate(t, "canceled", "CANCELED")
    /\ UNCHANGED <<bookVars, logVars, procVars>>

----------------------------------------------------------------------------
(* The commit transaction                                                  *)

CommitFail(h) ==
    /\ Resumes(h, {"COMMIT"})
    /\ Fail(calls[h].task)
    /\ Return(h)
    /\ UNCHANGED <<bookVars, logVars, section, mode, crashes>>

\* Registry read, identities verified, artifact built: write the journal
CommitPrepare(h) ==
    /\ Resumes(h, {"COMMIT"})
    /\ nextCid \in Cids
    /\ LET t == calls[h].task IN
         \E g \in BOOLEAN :
            intent' = [intent EXCEPT ![nextCid] =
                         [task |-> t, terms |-> calls[h].terms,
                          signed |-> accepted[t], guaranteed |-> g]]
    /\ journal' = [journal EXCEPT ![nextCid] = "COMMIT"]
    /\ section' = [kind |-> "COMMIT", cid |-> nextCid, step |-> "append"]
    /\ nextCid' = nextCid + 1
    /\ Return(h)
    /\ UNCHANGED <<taskVars, bookVars, ledger, mode, crashes>>

EntryType(kind) == IF kind = "COMMIT" THEN "COMMITMENT" ELSE kind

\* The commit point: one durable append
AppendEntry ==
    /\ section.step = "append"
    /\ ledger' = Append(ledger, [type |-> EntryType(section.kind),
                                 cid |-> section.cid])
    /\ section' = [section EXCEPT !.step =
                     IF section.kind \in {"PICKED_UP", "DELIVERED"}
                     THEN "snapshot" ELSE "guarantee"]
    /\ UNCHANGED <<taskVars, bookVars, journal, intent, nextCid,
                   calls, mode, crashes>>

\* attach, complete and release of the underwriting engine, each idempotent
GuaranteeAfter(kind, c) ==
    IF ~intent[c].guaranteed THEN guarantee[c]
    ELSE CASE kind = "COMMIT" ->
                IF guarantee[c] = "none" THEN "ATTACHED" ELSE guarantee[c]
           [] kind = "DELIVERY_ACCEPTED" ->
                IF guarantee[c] = "ATTACHED" THEN "CLAIMABLE" ELSE guarantee[c]
           [] kind = "VOID" ->
                IF guarantee[c] = "none" THEN "none" ELSE "RELEASED"

ApplyGuarantee ==
    /\ section.step = "guarantee"
    /\ guarantee' = [guarantee EXCEPT ![section.cid] =
                       GuaranteeAfter(section.kind, section.cid)]
    /\ section' = [section EXCEPT !.step =
                     IF section.kind = "DELIVERY_ACCEPTED"
                     THEN "snapshot" ELSE "broker"]
    /\ UNCHANGED <<taskVars, record, exposure, logVars, calls, mode, crashes>>

\* An exposure book applies one add and one release per commitment id
ApplyExposure(s) ==
    /\ section.step = s
    /\ exposure' = [exposure EXCEPT ![section.cid][s] =
                      IF section.kind = "VOID" THEN "released"
                      ELSE IF @ = "none" THEN "held" ELSE @]
    /\ section' = [section EXCEPT !.step =
                     IF s = "broker" THEN "carrier" ELSE "snapshot"]
    /\ UNCHANGED <<taskVars, record, guarantee, logVars, calls, mode, crashes>>

\* Mutant: the notices are enqueued at every application
AnnounceAlways(t) == TRUE

\* Not COMMITTED before: the task changes state and its notices are enqueued
Announce(t) == status[t] # "COMMITTED"

\* Mutant: ended siblings are terminated again
LosesAgain(t, u) == Sibling(t, u)

\* u is an open negotiation of the load that t has won
Loses(t, u) == Sibling(t, u) /\ Open(u)

\* One snapshot: the record, the task and its COMMITTED notices, and the
\* open siblings of the load canceled with theirs
SnapshotCommit ==
    /\ section.step = "snapshot" /\ section.kind = "COMMIT"
    /\ LET c == section.cid
           t == intent[c].task
           first == Announce(t)
       IN  /\ record' = [record EXCEPT ![c] = IF @ = "none" THEN "ACTIVE" ELSE @]
           /\ state' = [u \in Tasks |-> IF u = t /\ first THEN "completed"
                                        ELSE IF Loses(t, u) THEN "canceled"
                                        ELSE state[u]]
           /\ status' = [u \in Tasks |-> IF u = t THEN "COMMITTED"
                                         ELSE IF Loses(t, u) THEN "CANCELED"
                                         ELSE status[u]]
           /\ told' = [u \in Tasks |->
                IF u = t /\ first
                THEN Append(told[u], [type |-> "COMMITTED", cid |-> c])
                ELSE IF Loses(t, u)
                THEN Append(told[u], [type |-> "REFUSED", cid |-> 0])
                ELSE told[u]]
    /\ section' = [section EXCEPT !.step = "cleanup"]
    /\ UNCHANGED <<awaiting, round, onTable, accepted, guarantee, exposure,
                   logVars, calls, mode, crashes>>

SnapshotVoid ==
    /\ section.step = "snapshot" /\ section.kind = "VOID"
    /\ LET c == section.cid
           t == intent[c].task
       IN  /\ record' = [record EXCEPT ![c] = "VOIDED"]
           /\ told' = IF record[c] = "VOIDED" THEN told
                      ELSE [told EXCEPT ![t] =
                              Append(@, [type |-> "VOIDED", cid |-> c])]
    /\ section' = [section EXCEPT !.step = "cleanup"]
    /\ UNCHANGED <<state, status, awaiting, round, onTable, accepted,
                   guarantee, exposure, logVars, calls, mode, crashes>>

\* The journal is deleted last
Cleanup ==
    /\ section.step = "cleanup"
    /\ journal' = [journal EXCEPT ![section.cid] = "none"]
    /\ section' = Idle
    /\ UNCHANGED <<taskVars, bookVars, ledger, intent, nextCid,
                   calls, mode, crashes>>

----------------------------------------------------------------------------
(* After the commitment: lifecycle, claims, voids                          *)

\* Mutant: delivery reported of a load never picked up
FromAnywhere(e) == IF e = "DELIVERY_ACCEPTED" THEN "DELIVERED" ELSE "ACTIVE"

From(e) == CASE e = "PICKED_UP" -> "ACTIVE"
             [] e = "DELIVERED" -> "IN_TRANSIT"
             [] e = "DELIVERY_ACCEPTED" -> "DELIVERED"

To(e) == CASE e = "PICKED_UP" -> "IN_TRANSIT"
           [] e = "DELIVERED" -> "DELIVERED"
           [] e = "DELIVERY_ACCEPTED" -> "COMPLETED"

\* No journal: the ledger entry is written first, the snapshot last
Lifecycle(c, e) ==
    /\ CanStart
    /\ e \in Reported
    /\ record[c] = From(e)
    /\ section' = [kind |-> e, cid |-> c, step |-> "append"]
    /\ UNCHANGED <<taskVars, bookVars, logVars, calls, mode, crashes>>

SnapshotLifecycle ==
    /\ section.step = "snapshot" /\ section.kind \in Events
    /\ record' = [record EXCEPT ![section.cid] = To(section.kind)]
    /\ section' = Idle
    /\ UNCHANGED <<taskVars, guarantee, exposure, logVars, calls, mode, crashes>>

\* A claim on the guarantee is paid, or its claim window closes
ReleaseGuarantee(c) ==
    /\ CanStart
    /\ record[c] # "none"
    /\ guarantee[c] \in {"ATTACHED", "CLAIMABLE"}
    /\ guarantee' = [guarantee EXCEPT ![c] = "RELEASED"]
    /\ UNCHANGED <<taskVars, record, exposure, logVars, procVars>>

BeginVoid(c) ==
    /\ journal' = [journal EXCEPT ![c] = "VOID"]
    /\ section' = [kind |-> "VOID", cid |-> c, step |-> "append"]

\* Mutant: any commitment not voided yet
VoidableUntilVoided(c) == record[c] \notin {"none", "VOIDED"}

Voidable(c) == record[c] = "ACTIVE"

\* Compromised key, revoked credential, renewal missed: found and voided
\* without an await in between
VoidNow(c) ==
    /\ CanStart
    /\ Voidable(c)
    /\ BeginVoid(c)
    /\ UNCHANGED <<taskVars, bookVars, ledger, intent, nextCid,
                   calls, mode, crashes>>

\* The pre-pickup check (scheduled, or started by the watchlist sweep) takes
\* up an ACTIVE commitment and awaits the registry
CheckStart(c, h) ==
    /\ CanStart
    /\ Voidable(c)
    /\ Park(h, [kind |-> "CHECK", cid |-> c])
    /\ UNCHANGED <<taskVars, bookVars, logVars, section, mode, crashes>>

CheckPass(h) ==
    /\ Resumes(h, {"CHECK"})
    /\ Return(h)
    /\ UNCHANGED <<taskVars, bookVars, logVars, section, mode, crashes>>

\* Bad standing: void, without looking at the record's status again
CheckVoid(h) ==
    /\ Resumes(h, {"CHECK"})
    /\ BeginVoid(calls[h].cid)
    /\ Return(h)
    /\ UNCHANGED <<taskVars, bookVars, ledger, intent, nextCid, mode, crashes>>

----------------------------------------------------------------------------
(* Crash, and recovery before serving                                      *)

\* What was in memory only is gone; the restarted venue recovers first
Die ==
    /\ crashes < MaxCrashes
    /\ crashes' = crashes + 1
    /\ mode' = "recovering"
    /\ section' = Idle
    /\ calls' = [h \in Handlers |-> NoCall]

Crash == Die /\ UNCHANGED <<taskVars, bookVars, logVars>>

\* Between the snapshot of an acceptance and the one that passes the turn: the
\* venue goes on waiting for the party that has accepted
CrashInAccept(h) ==
    /\ Accepts(h)
    /\ Die
    /\ UNCHANGED <<state, status, awaiting, round, onTable, told,
                   bookVars, logVars>>

Recovering == mode = "recovering" /\ section = Idle /\ NoneInFlight

NoJournal == \A c \in Cids : journal[c] = "none"

\* Mutants: every journal is dropped; every journal is applied
PastNoCommitPoint(c) == FALSE
PastAnyCommitPoint(c) == TRUE

PastCommitPoint(c) == OnLedger(EntryType(journal[c]), c)

\* A journal whose entry is on the ledger is applied again, any other dropped
RecoverJournal(c) ==
    /\ Recovering
    /\ journal[c] # "none"
    /\ \/ /\ PastCommitPoint(c)
          /\ section' = [kind |-> journal[c], cid |-> c, step |-> "guarantee"]
          /\ UNCHANGED journal
       \/ /\ ~PastCommitPoint(c)
          /\ journal' = [journal EXCEPT ![c] = "none"]
          /\ UNCHANGED section
    /\ UNCHANGED <<taskVars, bookVars, ledger, intent, nextCid,
                   calls, mode, crashes>>

FullyAccepted(t) == \A s \in Sides : accepted[t][s] # NoOffer

\* Mutant: only tasks that are announced are retried
RetriedIfCommitted(t) == FullyAccepted(t) /\ status[t] = "COMMITTED"

\* Both acceptances on file and no outcome
Retried(t) == Open(t) /\ FullyAccepted(t)

\* A task with both acceptances and no outcome: commit it from what is on disk
RecoverRetry(t, h) ==
    /\ Recovering /\ NoJournal
    /\ Retried(t)
    /\ Park(h, [kind |-> "COMMIT", task |-> t, terms |-> accepted[t]["carrier"]])
    /\ UNCHANGED <<taskVars, bookVars, logVars, section, mode, crashes>>

\* Cancel what an ACTIVE commitment should have canceled, then serve
RecoverFinish ==
    /\ Recovering /\ NoJournal
    /\ ~\E t \in Tasks : Retried(t)
    /\ LET Lost(u) == \E c \in Cids :
                     record[c] = "ACTIVE" /\ Loses(intent[c].task, u)
       IN  /\ state' = [u \in Tasks |-> IF Lost(u) THEN "canceled" ELSE state[u]]
           /\ status' = [u \in Tasks |-> IF Lost(u) THEN "CANCELED" ELSE status[u]]
           /\ told' = [u \in Tasks |->
                IF Lost(u) THEN Append(told[u], [type |-> "REFUSED", cid |-> 0])
                ELSE told[u]]
    /\ mode' = "serving"
    /\ UNCHANGED <<awaiting, round, onTable, accepted, bookVars, logVars,
                   calls, section, crashes>>

----------------------------------------------------------------------------
SectionStep ==
    \/ AppendEntry
    \/ ApplyGuarantee
    \/ \E s \in Sides : ApplyExposure(s)
    \/ SnapshotCommit
    \/ SnapshotVoid
    \/ SnapshotLifecycle
    \/ Cleanup

Resume(h) ==
    \/ TenderRefuse(h) \/ TenderAdmit(h)
    \/ AdvanceFail(h) \/ RejectResume(h) \/ CounterResume(h)
    \/ AcceptLost(h) \/ AcceptResume(h)
    \/ CommitFail(h) \/ CommitPrepare(h)
    \/ CheckPass(h) \/ CheckVoid(h)

Recover ==
    \/ \E c \in Cids : RecoverJournal(c)
    \/ \E t \in Tasks, h \in Handlers : RecoverRetry(t, h)
    \/ RecoverFinish

Start ==
    \/ \E t \in Tasks, o \in Offers, h \in Handlers : Tender(t, o, h)
    \/ \E t \in Tasks, s \in Sides, kind \in {"COUNTER", "ACCEPT", "REJECT"},
          o \in Terms, h \in Handlers : Message(t, s, kind, o, h)
    \/ \E t \in Tasks : Timeout(t)
    \/ \E c \in Cids, e \in Events : Lifecycle(c, e)
    \/ \E c \in Cids : ReleaseGuarantee(c)
    \/ \E c \in Cids : VoidNow(c)
    \/ \E c \in Cids, h \in Handlers : CheckStart(c, h)

Next == Start \/ (\E h \in Handlers : Resume(h)) \/ SectionStep
          \/ Crash \/ (\E h \in Handlers : CrashInAccept(h)) \/ Recover

Spec == Init /\ [][Next]_vars

\* A transaction has no await in it, a registry read times out, and a started
\* venue recovers: each of these goes on as long as the process lives
Fairness ==
    /\ WF_vars(SectionStep)
    /\ \A h \in Handlers : WF_vars(Resume(h))
    /\ WF_vars(Recover)

FairSpec == Spec /\ Fairness

----------------------------------------------------------------------------
(* Properties that hold however handlers overlap and wherever it crashes   *)

AtRest == section = Idle /\ NoJournal

\* The ledger, the record, the guarantee and both exposure books agree on c
Settled(c) ==
    /\ record[c] # "none" <=> OnLedger("COMMITMENT", c)
    /\ record[c] = "VOIDED" <=> OnLedger("VOID", c)
    /\ guarantee[c] # "none" <=> record[c] # "none" /\ intent[c].guaranteed
    /\ \A s \in Sides :
          exposure[c][s] = IF record[c] = "none" THEN "none"
                           ELSE IF record[c] = "VOIDED" THEN "released"
                           ELSE "held"
    /\ record[c] = "VOIDED" => guarantee[c] \in {"none", "RELEASED"}
    /\ record[c] = "COMPLETED" => guarantee[c] # "ATTACHED"

\* Between transactions the ledger, the records, the guarantees and the
\* exposure books tell one story: a commitment is recorded exactly if it is on
\* the chain, guaranteed exactly if its artifact promised so, and held in both
\* parties' books until it is voided, which it is exactly if the chain says so
\* (commit, applyCommit, voidCommitment, applyVoid and recover together)
BooksMatchLedger == AtRest => \A c \in Cids : Settled(c)

\* No effect precedes the commit point that decides it: nothing is attached,
\* booked or recorded for a commitment the chain does not hold, and nothing is
\* given back before the chain holds its VOID (step 3 before step 4 of commit)
NothingBeforeCommitPoint ==
    \A c \in Cids :
        /\ \/ guarantee[c] # "none"
           \/ record[c] # "none"
           \/ \E s \in Sides : exposure[c][s] # "none"
           => OnLedger("COMMITMENT", c)
        /\ \/ record[c] = "VOIDED"
           \/ \E s \in Sides : exposure[c][s] = "released"
           => OnLedger("VOID", c)

Positions(type, c) ==
    {i \in 1 .. Len(ledger) : ledger[i] = [type |-> type, cid |-> c]}

\* However often the venue dies and recovers, a commitment is on the chain
\* once and the parties are told of it once (recover and applyCommit)
CommittedOnce ==
    \A c \in Cids :
        /\ \A i, j \in Positions("COMMITMENT", c) : i = j
        /\ \A t, u \in Tasks :
             \A i \in 1 .. Len(told[t]), j \in 1 .. Len(told[u]) :
               /\ told[t][i] = [type |-> "COMMITTED", cid |-> c]
               /\ told[u][j] = [type |-> "COMMITTED", cid |-> c]
               => t = u /\ i = j

\* What is committed is what both parties signed: the artifact's terms are
\* those of both acceptances it embeds, whatever counters, stale acceptances
\* and retries came before (checkAcceptTerms, commit, recover)
CommittedOnAgreedTerms ==
    \A c \in Cids : OnLedger("COMMITMENT", c) =>
        \A s \in Sides : intent[c].signed[s] = intent[c].terms

\* While a commitment is ACTIVE no other negotiation of the same load is open,
\* one whose tender was parked at its await included (cancelSiblings, b2)
NoOpenSibling ==
    \A c \in Cids : record[c] = "ACTIVE" =>
        \A t \in Tasks : Sibling(intent[c].task, t) => ~Open(t)

\* The chain holds a commitment by which t's broker is to perform t's load
OwedByItsBroker(t) ==
    \E c \in Cids :
        /\ OnLedger("COMMITMENT", c)
        /\ ~OnLedger("VOID", c) /\ ~OnLedger("PICKED_UP", c)
        /\ CarrierOf[intent[c].task] = BrokerOf[t]
        /\ LoadOf[intent[c].task] = LoadOf[t]

\* A carrier opens no negotiation of a load that the chain says it is to perform:
\* committed, neither voided nor picked up, whether its tender was parked at the
\* await when the commitment was recorded or came after a crash that cut the
\* commitment short (startNegotiation (b), after recover)
OpensUnowed == \A t \in Tasks : ~Open(t) /\ Open(t)' => ~OwedByItsBroker(t)

\* The chain tells the load's life in order: commitment first, then pickup,
\* delivery, acceptance, and the record is never ahead of it (recordLifecycle)
LifecycleInOrder ==
    \A c \in Cids :
        /\ \A e \in Events \cup {"VOID"} : \A i \in Positions(e, c) :
             LET Earlier(type) == \E j \in Positions(type, c) : j < i
             IN  /\ Earlier("COMMITMENT")
                 /\ e = "DELIVERED" => Earlier("PICKED_UP")
                 /\ e = "DELIVERY_ACCEPTED" => Earlier("DELIVERED")
        /\ \A e \in Events : record[c] = To(e) => OnLedger(e, c)

\* An ended negotiation is never open again, whichever handlers still hold it
\* across an await and whatever recovery retries
TerminalNeverReopens ==
    [][\A t \in Tasks : state[t] \in Terminal => state'[t] \in Terminal]_vars

\* Two acceptances on file never hang: the task is committed or refused, by
\* the handler that held it or by the retry of recover()
AgreedIsResolved ==
    \A t \in Tasks : Open(t) /\ FullyAccepted(t) ~> ~Open(t)

----------------------------------------------------------------------------
(* The abstract specification it implements                                *)

\* Seen through the chain and the records, the venue is a CommitPoint: one
\* durable append decides, and journal, snapshot, crash and recovery are how
\* its effects follow (the commit transaction, service.ts and README.md)
Point == INSTANCE CommitPoint WITH
            Commitments <- Cids,
            decided  <- {c \in Cids : OnLedger("COMMITMENT", c)},
            applied  <- {c \in Cids : record[c] # "none"},
            voided   <- {c \in Cids : OnLedger("VOID", c)},
            released <- {c \in Cids : record[c] = "VOIDED"}

\* Every behaviour of the venue is one of CommitPoint, its liveness included
ImplementsCommitPoint == Point!Spec

\* Nothing is left hanging: an agreement is resolved, and what was decided on the
\* chain is carried out
DecidedAndResolved == AgreedIsResolved /\ ImplementsCommitPoint

----------------------------------------------------------------------------
(* Properties that hold only while one handler runs at a time              *)

\* "The first commitment recorded wins": one ACTIVE commitment for a load of
\* a broker (README.md, negotiation lifecycle rules)
OneActivePerLoad ==
    \A c, d \in Cids :
        /\ record[c] = "ACTIVE" /\ record[d] = "ACTIVE"
        /\ SameLoad(intent[c].task, intent[d].task)
        => c = d

\* "VOIDED from ACTIVE only": a load that was picked up is not voided
VoidsActiveOnly ==
    \A c \in Cids : record'[c] = "VOIDED" => record[c] \in {"ACTIVE", "VOIDED"}

\* The parties hear one outcome of a negotiation, the one it has; a VOIDED
\* notice comes after COMMITTED and once (terminate, applyCommit, applyVoid)
OutcomeToldOnce ==
    \A t \in Tasks :
        CASE state[t] \in {"none", "working", "rejected"} -> told[t] = <<>>
          [] state[t] \in {"canceled", "failed"} ->
               told[t] = <<[type |-> "REFUSED", cid |-> 0]>>
          [] state[t] = "completed" ->
               \E c \in Cids :
                 /\ intent[c].task = t
                 /\ told[t] = IF record[c] = "VOIDED"
                              THEN <<[type |-> "COMMITTED", cid |-> c],
                                     [type |-> "VOIDED", cid |-> c]>>
                              ELSE <<[type |-> "COMMITTED", cid |-> c]>>
============================================================================
