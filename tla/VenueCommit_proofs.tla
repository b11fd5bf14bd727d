------------------------- MODULE VenueCommit_proofs -------------------------
(***************************************************************************)
(* Theorems about VenueCommit, for every set of tasks, offers and handlers *)
(* and every bound: the ledger, the books and the commit point, and then    *)
(* what becomes of negotiations, what is told of them, and in what order    *)
(* the chain tells of a commitment.                                        *)
(***************************************************************************)
EXTENDS VenueCommitInv, MCLoadRules, SequenceTheorems, TLAPS

USE TasksAssumption, OverlapAssumption, BoundsAssumption

----------------------------------------------------------------------------
(* Type correctness                                                        *)

\* What a parked handler carries, by kind
LEMMA CallFields ==
    ASSUME TypeOK, NEW h \in Handlers
    PROVE  /\ calls[h].kind \in {"TENDER", "COMMIT"} =>
                /\ calls[h] \in [kind : {"TENDER", "COMMIT"},
                                 task : Tasks, terms : Terms]
                /\ calls[h].task \in Tasks /\ calls[h].terms \in Terms
           /\ calls[h].kind \in {"COUNTER", "ACCEPT", "REJECT"} =>
                /\ calls[h].task \in Tasks /\ calls[h].terms \in Terms
                /\ calls[h].by \in Sides
           /\ calls[h].kind = "CHECK" => calls[h].cid \in Cids
  BY DEF TypeOK, Call, NoCall

\* What a transaction in progress carries, by step
LEMMA SectionFields ==
    ASSUME TypeOK, section.step # "none"
    PROVE  /\ section \in Section
           /\ section.cid \in Cids
           /\ section.step = "guarantee" =>
                section.kind \in {"COMMIT", "VOID", "DELIVERY_ACCEPTED"}
           /\ section.step \in {"broker", "carrier", "cleanup"} =>
                section.kind \in {"COMMIT", "VOID"}
           /\ section.kind \in {"COMMIT", "VOID"} \cup Events
  BY DEF TypeOK, Section, Idle, Events

LEMMA NoticeAppended ==
    ASSUME NEW q \in Seq(Notice), NEW n \in Notice
    PROVE  Append(q, n) \in Seq(Notice)
  OBVIOUS

\* The two kinds of notices the proofs append
LEMMA Notices ==
    /\ [type |-> "REFUSED", cid |-> 0] \in Notice
    /\ \A c \in Cids : /\ [type |-> "COMMITTED", cid |-> c] \in Notice
                      /\ [type |-> "VOIDED", cid |-> c] \in Notice
  BY DEF Notice

TaskTypes ==
    /\ state \in [Tasks -> States]
    /\ status \in [Tasks -> Statuses]
    /\ awaiting \in [Tasks -> Sides]
    /\ round \in [Tasks -> Nat]
    /\ onTable \in [Tasks -> Terms]
    /\ accepted \in [Tasks -> [Sides -> Terms]]
    /\ told \in [Tasks -> Seq(Notice)]

\* Ending a negotiation keeps the types of its fields
LEMMA TypeTerminate ==
    ASSUME TypeOK, NEW t, NEW st \in States, NEW stat \in Statuses,
           Terminate(t, st, stat)
    PROVE  TaskTypes'
  <1>1. told' \in [Tasks -> Seq(Notice)]
    <2>1. \A u \in Tasks :
             Append(told[u], [type |-> "REFUSED", cid |-> 0]) \in Seq(Notice)
      BY NoticeAppended, Notices DEF TypeOK
    <2> QED  BY <2>1 DEF TypeOK, Terminate
  <1> QED  BY <1>1 DEF TypeOK, TaskTypes, Terminate

LEMMA TypeInit == Init => TypeOK
  BY DEF Init, TypeOK, States, Statuses, Sides, Terms, Records, NoCall, Idle,
         NoIntent, Cids

LEMMA TypeStart == ASSUME TypeOK, Start PROVE TypeOK'
  <1>1. ASSUME NEW t \in Tasks, NEW o \in Offers, NEW h \in Handlers,
               Tender(t, o, h)
        PROVE  TypeOK'
    BY <1>1 DEF TypeOK, Tender, Park, Call, Terms,
                taskVars, bookVars, logVars
  <1>2. ASSUME NEW t \in Tasks, NEW s \in Sides,
               NEW kind \in {"COUNTER", "ACCEPT", "REJECT"},
               NEW o \in Terms, NEW h \in Handlers, Message(t, s, kind, o, h)
        PROVE  TypeOK'
    BY <1>2 DEF TypeOK, Message, Park, Call, taskVars, bookVars, logVars
  <1>3. ASSUME NEW t \in Tasks, Timeout(t) PROVE TypeOK'
    <2>1. TaskTypes'
      BY <1>3, TypeTerminate DEF Timeout, States, Statuses
    <2> QED  BY <1>3, <2>1 DEF TypeOK, TaskTypes, Timeout,
                               bookVars, logVars, procVars
  <1>4. ASSUME NEW c \in Cids, NEW e \in Events, Lifecycle(c, e) PROVE TypeOK'
    BY <1>4 DEF TypeOK, Lifecycle, Section, Events, taskVars, bookVars, logVars
  <1>5. ASSUME NEW c \in Cids, ReleaseGuarantee(c) PROVE TypeOK'
    BY <1>5 DEF TypeOK, ReleaseGuarantee, taskVars, logVars, procVars
  <1>6. ASSUME NEW c \in Cids, VoidNow(c) PROVE TypeOK'
    BY <1>6 DEF TypeOK, VoidNow, BeginVoid, Section, taskVars, bookVars
  <1>7. ASSUME NEW c \in Cids, NEW h \in Handlers, CheckStart(c, h)
        PROVE  TypeOK'
    BY <1>7 DEF TypeOK, CheckStart, Park, Call, taskVars, bookVars, logVars
  <1> QED  BY <1>1, <1>2, <1>3, <1>4, <1>5, <1>6, <1>7 DEF Start

LEMMA TypeResume ==
    ASSUME TypeOK, NEW h \in Handlers, Resume(h) PROVE TypeOK'
  <1>1. CASE TenderRefuse(h)
    BY <1>1 DEF TypeOK, TenderRefuse, Return, States, Statuses,
                bookVars, logVars
  <1>2. CASE TenderAdmit(h)
    BY <1>2, CallFields DEF TypeOK, TenderAdmit, Resumes, Return, States,
                bookVars, logVars
  <1>3. CASE AdvanceFail(h)
    <2>1. TaskTypes'
      BY <1>3, TypeTerminate DEF AdvanceFail, Fail, States, Statuses
    <2> QED  BY <1>3, <2>1 DEF TypeOK, TaskTypes, AdvanceFail, Return,
                               bookVars, logVars
  <1>4. CASE RejectResume(h)
    <2>1. TaskTypes'
      BY <1>4, TypeTerminate DEF RejectResume, States, Statuses
    <2> QED  BY <1>4, <2>1 DEF TypeOK, TaskTypes, RejectResume, Return,
                               bookVars, logVars
  <1>5. CASE CounterResume(h)
    BY <1>5, CallFields, SMTT(60) DEF TypeOK, CounterResume, Resumes, Return, Other,
                Statuses, Sides, bookVars, logVars
  <1>6. CASE AcceptLost(h)
    <2>1. TaskTypes'
      BY <1>6, TypeTerminate DEF AcceptLost, States, Statuses
    <2> QED  BY <1>6, <2>1 DEF TypeOK, TaskTypes, AcceptLost, Return,
                               bookVars, logVars
  <1>7. CASE AcceptResume(h)
    <2> DEFINE t == calls[h].task
               s == calls[h].by
               o == calls[h].terms
    <2>1. t \in Tasks /\ s \in Sides /\ Other(s) \in Sides /\ o \in Terms
      BY <1>7, CallFields DEF AcceptResume, Accepts, Resumes, Other, Sides
    <2>2. accepted' \in [Tasks -> [Sides -> Terms]]
      BY <1>7, <2>1 DEF TypeOK, AcceptResume, Accepts
    <2>3. /\ status' \in [Tasks -> Statuses]
          /\ awaiting' \in [Tasks -> Sides]
      <3>1. \/ /\ status' = [status EXCEPT ![t] = "COUNTERSIGN"]
               /\ awaiting' = [awaiting EXCEPT ![t] = Other(s)]
            \/ status' = status /\ awaiting' = awaiting
        BY <1>7 DEF AcceptResume
      <3>2. /\ status \in [Tasks -> Statuses] /\ awaiting \in [Tasks -> Sides]
            /\ "COUNTERSIGN" \in Statuses
        BY DEF TypeOK, Statuses
      <3> HIDE DEF t, s
      <3> QED  BY <2>1, <3>1, <3>2
    <2>4. calls' \in [Handlers -> Call \cup {NoCall}]
      <3>1. [kind |-> "COMMIT", task |-> t, terms |-> o] \in Call
        BY <2>1 DEF Call
      <3>2. calls' = [calls EXCEPT ![h] = NoCall] \/ calls' =
              [calls EXCEPT ![h] = [kind |-> "COMMIT", task |-> t, terms |-> o]]
        BY <1>7 DEF AcceptResume, Return
      <3> HIDE DEF t, o
      <3> QED  BY <3>1, <3>2 DEF TypeOK
    <2> QED  BY <1>7, <2>2, <2>3, <2>4 DEF TypeOK, AcceptResume,
                                           bookVars, logVars
  <1>8. CASE CommitFail(h)
    <2>1. TaskTypes'
      BY <1>8, TypeTerminate DEF CommitFail, Fail, States, Statuses
    <2> QED  BY <1>8, <2>1 DEF TypeOK, TaskTypes, CommitFail, Return,
                               bookVars, logVars
  <1>9. CASE CommitPrepare(h)
    BY <1>9, CallFields, SMTT(60) DEF TypeOK, CommitPrepare, Resumes, Return, Intent,
                Section, Cids, taskVars, bookVars
  <1>10. CASE CheckPass(h)
    BY <1>10 DEF TypeOK, CheckPass, Return, taskVars, bookVars, logVars
  <1>11. CASE CheckVoid(h)
    BY <1>11, CallFields DEF TypeOK, CheckVoid, BeginVoid, Resumes, Return,
                Section, taskVars, bookVars
  <1> QED  BY <1>1, <1>2, <1>3, <1>4, <1>5, <1>6, <1>7, <1>8, <1>9, <1>10,
              <1>11 DEF Resume

LEMMA TypeSection == ASSUME TypeOK, SectionStep PROVE TypeOK'
  <1>1. CASE AppendEntry
    <2>1. section' \in Section
      BY <1>1, SectionFields DEF AppendEntry, Section
    <2>2. [type |-> EntryType(section.kind), cid |-> section.cid] \in Entry
      BY <1>1, SectionFields DEF AppendEntry, EntryType, Entry, Events
    <2>3. ledger' \in Seq(Entry)
      BY <1>1, <2>2 DEF TypeOK, AppendEntry
    <2> QED  BY <1>1, <2>1, <2>3 DEF TypeOK, AppendEntry, taskVars, bookVars
  <1>2. CASE ApplyGuarantee
    BY <1>2, SectionFields DEF TypeOK, ApplyGuarantee, GuaranteeAfter, Section,
                taskVars, logVars
  <1>3. ASSUME NEW s \in Sides, ApplyExposure(s) PROVE TypeOK'
    <2>1. section.cid \in Cids /\ section \in Section
      BY <1>3, SectionFields DEF ApplyExposure, Sides
    <2>2. section' \in Section
      BY <1>3, <2>1 DEF ApplyExposure, Section, Sides
    <2>3. exposure' \in [Cids -> [Sides -> {"none", "held", "released"}]]
      BY <1>3, <2>1 DEF TypeOK, ApplyExposure
    <2> QED  BY <1>3, <2>2, <2>3 DEF TypeOK, ApplyExposure, taskVars, logVars
  <1>4. CASE SnapshotCommit
    <2>1. section.cid \in Cids /\ section' \in Section
      BY <1>4, SectionFields DEF SnapshotCommit, Section
    <2>2. /\ record' \in [Cids -> Records]
          /\ state' \in [Tasks -> States]
          /\ status' \in [Tasks -> Statuses]
      BY <1>4 DEF TypeOK, SnapshotCommit, Records, States, Statuses
    <2>3. told' \in [Tasks -> Seq(Notice)]
      <3>1. \A u \in Tasks :
              /\ Append(told[u], [type |-> "COMMITTED", cid |-> section.cid])
                   \in Seq(Notice)
              /\ Append(told[u], [type |-> "REFUSED", cid |-> 0]) \in Seq(Notice)
        BY <2>1, NoticeAppended, Notices DEF TypeOK
      <3> QED  BY <1>4, <3>1 DEF TypeOK, SnapshotCommit
    <2> QED  BY <1>4, <2>1, <2>2, <2>3 DEF TypeOK, SnapshotCommit, logVars
  <1>5. CASE SnapshotVoid
    <2>1. section.cid \in Cids /\ section' \in Section
      BY <1>5, SectionFields DEF SnapshotVoid, Section
    <2>2. record' \in [Cids -> Records]
      BY <1>5 DEF TypeOK, SnapshotVoid, Records
    <2>3. told' \in [Tasks -> Seq(Notice)]
      <3>1. \A u \in Tasks :
              Append(told[u], [type |-> "VOIDED", cid |-> section.cid])
                \in Seq(Notice)
        BY <2>1, NoticeAppended, Notices DEF TypeOK
      <3> QED  BY <1>5, <3>1 DEF TypeOK, SnapshotVoid
    <2> QED  BY <1>5, <2>1, <2>2, <2>3 DEF TypeOK, SnapshotVoid, logVars
  <1>6. CASE SnapshotLifecycle
    BY <1>6, SectionFields DEF TypeOK, SnapshotLifecycle, To, Events, Records,
                taskVars, logVars
  <1>7. CASE Cleanup
    BY <1>7 DEF TypeOK, Cleanup, taskVars, bookVars
  <1> QED  BY <1>1, <1>2, <1>3, <1>4, <1>5, <1>6, <1>7 DEF SectionStep

CrashStep == Crash \/ \E h \in Handlers : CrashInAccept(h)

LEMMA TypeCrashRecover ==
    ASSUME TypeOK, CrashStep \/ Recover PROVE TypeOK'
  <1>1. CASE CrashStep
    <2>1. Die /\ UNCHANGED <<state, status, awaiting, round, onTable, told,
                            bookVars, logVars>>
      BY <1>1 DEF CrashStep, Crash, CrashInAccept, taskVars
    <2>2. accepted' \in [Tasks -> [Sides -> Terms]]
      <3>1. CASE accepted' = accepted
        BY <3>1 DEF TypeOK
      <3>2. ASSUME NEW h \in Handlers, Accepts(h)
            PROVE  accepted' \in [Tasks -> [Sides -> Terms]]
        <4>1. /\ calls[h].task \in Tasks /\ calls[h].by \in Sides
              /\ calls[h].terms \in Terms
          BY <3>2, CallFields DEF Accepts, Resumes
        <4> QED  BY <3>2, <4>1 DEF TypeOK, Accepts
      <3> QED  BY <1>1, <3>1, <3>2
               DEF CrashStep, Crash, CrashInAccept, taskVars
    <2> QED  BY <2>1, <2>2 DEF TypeOK, Die, bookVars, logVars
  <1>2. ASSUME NEW c \in Cids, RecoverJournal(c) PROVE TypeOK'
    <2>1. journal[c] \in {"COMMIT", "VOID"}
      BY <1>2 DEF TypeOK, RecoverJournal
    <2>2. section' \in Section \cup {Idle}
      BY <1>2, <2>1 DEF TypeOK, RecoverJournal, Section
    <2>3. journal' \in [Cids -> {"none", "COMMIT", "VOID"}]
      BY <1>2 DEF TypeOK, RecoverJournal
    <2> QED  BY <1>2, <2>2, <2>3 DEF TypeOK, RecoverJournal, taskVars, bookVars
  <1>3. ASSUME NEW t \in Tasks, NEW h \in Handlers, RecoverRetry(t, h)
        PROVE  TypeOK'
    BY <1>3, SMTT(60) DEF TypeOK, RecoverRetry, Park, Call, Sides,
                taskVars, bookVars, logVars
  <1>4. CASE RecoverFinish
    <2>1. /\ state' \in [Tasks -> States]
          /\ status' \in [Tasks -> Statuses]
      BY <1>4 DEF TypeOK, RecoverFinish, States, Statuses
    <2>2. told' \in [Tasks -> Seq(Notice)]
      <3>1. \A u \in Tasks :
              Append(told[u], [type |-> "REFUSED", cid |-> 0]) \in Seq(Notice)
        BY NoticeAppended, Notices DEF TypeOK
      <3> QED  BY <1>4, <3>1 DEF TypeOK, RecoverFinish
    <2> QED  BY <1>4, <2>1, <2>2 DEF TypeOK, RecoverFinish, bookVars, logVars
  <1> QED  BY <1>1, <1>2, <1>3, <1>4 DEF Recover

\* Every variable keeps its type: no handler, write, crash or recovery step
\* leaves a field the code could not read back
THEOREM TypeCorrect == Spec => []TypeOK
  <1>1. TypeOK /\ [Next]_vars => TypeOK'
    <2> SUFFICES ASSUME TypeOK, [Next]_vars PROVE TypeOK'
      OBVIOUS
    <2>1. CASE UNCHANGED vars
      BY <2>1 DEF TypeOK, vars, taskVars, bookVars, logVars, procVars
    <2> QED
      BY <2>1, TypeStart, TypeResume, TypeSection, TypeCrashRecover DEF Next, CrashStep
  <1> QED  BY <1>1, TypeInit, PTL DEF Spec

----------------------------------------------------------------------------
(* The inductive invariant IInv                                            *)

LEMMA LedgerKept ==
    ASSUME UNCHANGED ledger
    PROVE  \A type, c : OnLedger(type, c)' <=> OnLedger(type, c)
  BY DEF OnLedger

LEMMA LedgerAppended ==
    ASSUME TypeOK, NEW e \in Entry, ledger' = Append(ledger, e)
    PROVE  \A type, c : OnLedger(type, c)' <=>
              OnLedger(type, c) \/ e = [type |-> type, cid |-> c]
  <1> DEFINE n == Len(ledger)
  <1>1. /\ n \in Nat
        /\ Len(ledger') = n + 1
        /\ ledger'[n + 1] = e
        /\ \A i \in 1 .. n : ledger'[i] = ledger[i]
    BY DEF TypeOK
  <1>2. \A i : i \in 1 .. n + 1 <=> i \in 1 .. n \/ i = n + 1
    BY <1>1
  <1> SUFFICES ASSUME NEW type, NEW c
      PROVE OnLedger(type, c)' <=>
              OnLedger(type, c) \/ e = [type |-> type, cid |-> c]
    OBVIOUS
  <1>3. OnLedger(type, c)' <=> \E i \in 1 .. n + 1 :
                                  ledger'[i] = [type |-> type, cid |-> c]
    BY <1>1 DEF OnLedger
  <1>4. OnLedger(type, c) <=> \E i \in 1 .. n :
                                  ledger[i] = [type |-> type, cid |-> c]
    BY DEF OnLedger
  <1> HIDE DEF n
  <1> QED  BY <1>1, <1>2, <1>3, <1>4

\* What a step leaves alone at c stays as it was, unless a transaction on c
\* has moved on
LEMMA BookFrame ==
    ASSUME NEW c \in Cids, BookInv(c),
           record'[c] = record[c], guarantee'[c] = guarantee[c],
           exposure'[c] = exposure[c], journal'[c] = journal[c],
           intent'[c] = intent[c],
           OnLedger("COMMITMENT", c)' <=> OnLedger("COMMITMENT", c),
           OnLedger("VOID", c)' <=> OnLedger("VOID", c),
           journal[c] = "none" \/ section'.cid # c \/ section' = section
    PROVE  BookInv(c)'
  <1>1. journal[c] # "none" => \A steps : Doing(c, steps)' => Doing(c, steps)
    BY DEF Doing
  <1>2. CASE journal[c] = "none"
    BY <1>2 DEF BookInv, Settled
  <1>3. CASE journal[c] # "none" /\ journal[c] = "COMMIT"
    BY <1>3, <1>1 DEF BookInv, CommitOpen
  <1>4. CASE journal[c] # "none" /\ journal[c] = "VOID"
    BY <1>4, <1>1 DEF BookInv, VoidOpen
  <1> QED  BY <1>2, <1>3, <1>4 DEF BookInv

\* A running venue between transactions has no journal on disk, and a venue
\* writing one has no other
LEMMA NoJournalAtRest ==
    ASSUME IInv, section = Idle, mode = "serving" \/ ~NoneInFlight
    PROVE  NoJournal
  BY ZenonT(60) DEF IInv, JournalInv, Recovering, NoJournal, TypeOK, Idle

LEMMA OnlyOwnJournal ==
    ASSUME IInv, section.step # "none", NEW c \in Cids, c # section.cid
    PROVE  journal[c] = "none"
  BY DEF IInv, JournalInv, Recovering, Idle

\* A step that ends or parks a handler and writes no book, ledger or journal
LEMMA Quiet ==
    ASSUME IInv, TypeOK', section = Idle,
           UNCHANGED <<bookVars, logVars, section, mode>>,
           NEW h \in Handlers,
           \A g \in Handlers : g # h => calls'[g] = calls[g],
           calls'[h].kind = "CHECK" => record[calls'[h].cid] # "none",
           \/ mode = "serving"
           \/ calls[h] # NoCall /\ calls'[h].kind \in {"none", "COMMIT"}
    PROVE  IInv'
  <1>1. \A c \in Cids : BookInv(c)'
    BY LedgerKept, BookFrame DEF IInv, bookVars, logVars
  <1>2. CheckInv'
    BY DEF IInv, CheckInv, bookVars
  <1>3. FreshInv' /\ LifecycleInv'
    BY DEF IInv, FreshInv, LifecycleInv, bookVars, logVars
  <1>4. JournalInv'
    <2>1. CASE mode = "serving"
      BY <2>1, NoJournalAtRest
         DEF IInv, JournalInv, NoJournal, logVars, Idle, Events
    <2>2. CASE mode = "recovering" /\ calls[h] # NoCall
                 /\ calls'[h].kind \in {"none", "COMMIT"}
      <3>1. NoJournal
        BY <2>2, NoJournalAtRest DEF NoneInFlight
      <3>2. \A g \in Handlers : g # h => calls'[g] = NoCall
        BY <2>2 DEF IInv, JournalInv
      <3>3. \A g \in Handlers : calls'[g].kind \in {"none", "COMMIT"}
        BY <2>2, <3>2 DEF NoCall
      <3> QED  BY <3>1, <3>2, <3>3
               DEF IInv, JournalInv, NoJournal, logVars, Idle, Events
    <2> QED  BY <2>1, <2>2 DEF IInv, TypeOK
  <1> QED  BY <1>1, <1>2, <1>3, <1>4 DEF IInv

LEMMA InvInit == Init => IInv
  <1> SUFFICES ASSUME Init PROVE IInv
    OBVIOUS
  <1>1. \A type, c : ~OnLedger(type, c)
    BY DEF Init, OnLedger
  <1> QED  BY <1>1, TypeInit DEF Init, IInv, JournalInv, FreshInv, CheckInv,
              LifecycleInv, BookInv, Settled, Idle, NoCall, Events

\* A void begins: of a commitment on the books, between transactions
LEMMA VoidBegins ==
    ASSUME IInv, TypeOK', mode = "serving", section = Idle,
           NEW c \in Cids, record[c] # "none", BeginVoid(c),
           UNCHANGED <<bookVars, ledger, intent, nextCid, mode>>,
           \A h \in Handlers : calls'[h] \in {calls[h], NoCall}
    PROVE  IInv'
  <1>1. NoJournal
    BY NoJournalAtRest
  <1>2. /\ section' = [kind |-> "VOID", cid |-> c, step |-> "append"]
        /\ journal'[c] = "VOID"
        /\ \A d \in Cids : d # c => journal'[d] = "none"
    BY <1>1 DEF BeginVoid, NoJournal, IInv, TypeOK
  <1>3. ASSUME NEW d \in Cids PROVE BookInv(d)'
    <2>1. CASE d # c
      BY <1>1, <1>2, <2>1, LedgerKept, BookFrame
         DEF IInv, NoJournal, bookVars
    <2>2. CASE d = c
      <3>1. Settled(c)
        BY <1>1 DEF IInv, BookInv, NoJournal
      <3>2. VoidOpen(c)'
        BY <1>2, <3>1, LedgerKept DEF VoidOpen, Settled, Doing, Sides, bookVars
      <3> QED  BY <1>2, <2>2, <3>2 DEF BookInv
    <2> QED  BY <2>1, <2>2
  <1>4. JournalInv'
    BY <1>2 DEF JournalInv, Idle, Events
  <1>5. FreshInv'
    BY <1>2 DEF IInv, FreshInv, bookVars
  <1>6. CheckInv'
    BY DEF IInv, CheckInv, NoCall, bookVars
  <1>7. LifecycleInv'
    BY <1>2 DEF LifecycleInv, Events
  <1> QED  BY <1>3, <1>4, <1>5, <1>6, <1>7 DEF IInv

LEMMA InvStart == ASSUME IInv, Start PROVE IInv'
  <1> TypeOK /\ TypeOK'
    BY TypeStart DEF IInv
  <1>1. ASSUME NEW t \in Tasks, NEW o \in Offers, NEW h \in Handlers,
               Tender(t, o, h)
        PROVE  IInv'
    <2>1. /\ section = Idle /\ mode = "serving"
          /\ UNCHANGED <<bookVars, logVars, section, mode>>
          /\ calls' = [calls EXCEPT ![h] =
                         [kind |-> "TENDER", task |-> t, terms |-> o]]
      BY <1>1 DEF Tender, CanStart, Park
    <2>2. calls'[h].kind = "TENDER"
      BY <2>1 DEF TypeOK
    <2> QED  BY <2>1, <2>2, Quiet DEF TypeOK
  <1>2. ASSUME NEW t \in Tasks, NEW s \in Sides,
               NEW kind \in {"COUNTER", "ACCEPT", "REJECT"},
               NEW o \in Terms, NEW h \in Handlers, Message(t, s, kind, o, h)
        PROVE  IInv'
    <2>1. /\ section = Idle /\ mode = "serving"
          /\ UNCHANGED <<bookVars, logVars, section, mode>>
          /\ calls' = [calls EXCEPT ![h] =
                         [kind |-> kind, task |-> t, by |-> s, terms |-> o]]
      BY <1>2 DEF Message, CanStart, Park
    <2>2. calls'[h].kind = kind
      BY <2>1 DEF TypeOK
    <2> QED  BY <2>1, <2>2, Quiet DEF TypeOK
  <1>3. ASSUME NEW t \in Tasks, Timeout(t) PROVE IInv'
    <2>1. /\ section = Idle /\ mode = "serving"
          /\ UNCHANGED <<bookVars, logVars, procVars>>
      BY <1>3 DEF Timeout, CanStart
    <2>2. \A c \in Cids : BookInv(c)'
      BY <2>1, LedgerKept, BookFrame DEF IInv, bookVars, logVars, procVars
    <2>3. JournalInv'
      BY <2>1 DEF IInv, JournalInv, Recovering, NoneInFlight, logVars, procVars
    <2>4. FreshInv' /\ CheckInv' /\ LifecycleInv'
      BY <2>1 DEF IInv, FreshInv, CheckInv, LifecycleInv,
                  bookVars, logVars, procVars
    <2> QED  BY <2>2, <2>3, <2>4 DEF IInv
  <1>4. ASSUME NEW c \in Cids, NEW e \in Events, Lifecycle(c, e) PROVE IInv'
    <2>1. /\ section = Idle /\ mode = "serving" /\ mode' = mode
          /\ section' = [kind |-> e, cid |-> c, step |-> "append"]
          /\ record[c] = From(e)
          /\ UNCHANGED <<bookVars, logVars, calls>>
      BY <1>4 DEF Lifecycle, CanStart
    <2>2. NoJournal
      BY <2>1, NoJournalAtRest
    <2>3. \A d \in Cids : BookInv(d)'
      BY <2>1, <2>2, LedgerKept, BookFrame DEF IInv, NoJournal, bookVars, logVars
    <2>4. JournalInv'
      BY <2>1, <2>2 DEF JournalInv, NoJournal, Events, logVars
    <2>5. FreshInv' /\ CheckInv' /\ LifecycleInv'
      BY <2>1 DEF IInv, FreshInv, CheckInv, LifecycleInv, bookVars, logVars
    <2> QED  BY <2>3, <2>4, <2>5 DEF IInv
  <1>5. ASSUME NEW c \in Cids, ReleaseGuarantee(c) PROVE IInv'
    <2>1. /\ section = Idle /\ mode = "serving"
          /\ record[c] # "none" /\ guarantee[c] \in {"ATTACHED", "CLAIMABLE"}
          /\ guarantee' = [guarantee EXCEPT ![c] = "RELEASED"]
          /\ UNCHANGED <<record, exposure, logVars, procVars>>
      BY <1>5 DEF ReleaseGuarantee, CanStart
    <2>2. NoJournal
      BY <2>1, NoJournalAtRest
    <2>3. ASSUME NEW d \in Cids PROVE BookInv(d)'
      <3>1. CASE d # c
        BY <2>1, <3>1, LedgerKept, BookFrame, ZenonT(60)
           DEF IInv, TypeOK, logVars, procVars
      <3>2. CASE d = c
        <4>1. Settled(c)
          BY <2>2 DEF IInv, BookInv, NoJournal
        <4>2. Settled(c)' /\ journal'[c] = "none"
          BY <2>1, <2>2, <4>1, LedgerKept
             DEF Settled, NoJournal, TypeOK, logVars
        <4> QED  BY <3>2, <4>2 DEF BookInv
      <3> QED  BY <3>1, <3>2
    <2>4. JournalInv'
      BY <2>1 DEF IInv, JournalInv, Recovering, NoneInFlight, logVars, procVars
    <2>5. FreshInv' /\ CheckInv' /\ LifecycleInv'
      BY <2>1 DEF IInv, FreshInv, CheckInv, LifecycleInv, Idle, Events,
                  logVars, procVars
    <2> QED  BY <2>3, <2>4, <2>5 DEF IInv
  <1>6. ASSUME NEW c \in Cids, VoidNow(c) PROVE IInv'
    BY <1>6, VoidBegins DEF VoidNow, CanStart, Voidable
  <1>7. ASSUME NEW c \in Cids, NEW h \in Handlers, CheckStart(c, h)
        PROVE  IInv'
    <2>1. /\ section = Idle /\ mode = "serving" /\ record[c] # "none"
          /\ UNCHANGED <<bookVars, logVars, section, mode>>
          /\ calls' = [calls EXCEPT ![h] = [kind |-> "CHECK", cid |-> c]]
      BY <1>7 DEF CheckStart, CanStart, Park, Voidable
    <2>2. calls'[h].cid = c
      BY <2>1 DEF TypeOK
    <2> QED  BY <2>1, <2>2, Quiet DEF TypeOK
  <1> QED  BY <1>1, <1>2, <1>3, <1>4, <1>5, <1>6, <1>7 DEF Start

LEMMA InvResume ==
    ASSUME IInv, NEW h \in Handlers, Resume(h) PROVE IInv'
  <1> TypeOK /\ TypeOK'
    BY TypeResume DEF IInv
  <1>1. section = Idle /\ calls[h] # NoCall
    BY DEF Resume, TenderRefuse, TenderAdmit, AdvanceFail, RejectResume,
           CounterResume, AcceptLost, AcceptResume, Accepts, CommitFail,
           CommitPrepare, CheckPass, CheckVoid, Resumes, NoCall
  <1>2. ASSUME Return(h), UNCHANGED <<bookVars, logVars, section, mode>>
        PROVE  IInv'
    <2>1. calls'[h].kind = "none"
      BY <1>2 DEF TypeOK, Return, NoCall
    <2> QED  BY <1>1, <1>2, <2>1, Quiet DEF TypeOK, Return
  <1>3. CASE \/ TenderRefuse(h) \/ TenderAdmit(h) \/ AdvanceFail(h)
             \/ RejectResume(h) \/ CounterResume(h) \/ AcceptLost(h)
             \/ CommitFail(h) \/ CheckPass(h)
    BY <1>2, <1>3 DEF TenderRefuse, TenderAdmit, AdvanceFail, RejectResume,
                      CounterResume, AcceptLost, CommitFail, CheckPass
  <1>4. CASE AcceptResume(h)
    <2>1. \/ Return(h)
          \/ calls' = [calls EXCEPT ![h] = [kind |-> "COMMIT",
                          task |-> calls[h].task, terms |-> calls[h].terms]]
      BY <1>4 DEF AcceptResume
    <2>2. UNCHANGED <<bookVars, logVars, section, mode>>
      BY <1>4 DEF AcceptResume
    <2>3. CASE calls' = [calls EXCEPT ![h] = [kind |-> "COMMIT",
                          task |-> calls[h].task, terms |-> calls[h].terms]]
      <3>1. calls'[h].kind = "COMMIT"
        BY <2>3 DEF TypeOK
      <3> QED  BY <1>1, <2>2, <2>3, <3>1, Quiet DEF TypeOK
    <2> QED  BY <1>2, <2>1, <2>2, <2>3
  <1>5. CASE CommitPrepare(h)
    <2>0. PICK n \in Cids : n = nextCid
      BY <1>5 DEF CommitPrepare
    <2>1. NoJournal
      BY <1>1, NoJournalAtRest DEF NoneInFlight
    <2>2. /\ n \in Nat /\ nextCid' = n + 1
          /\ section' = [kind |-> "COMMIT", cid |-> n, step |-> "append"]
          /\ journal'[n] = "COMMIT"
          /\ \A d \in Cids : d # n => /\ journal'[d] = journal[d]
                                      /\ intent'[d] = intent[d]
          /\ UNCHANGED <<bookVars, ledger, mode>>
          /\ calls' = [calls EXCEPT ![h] = NoCall]
      BY <1>5, <2>0 DEF CommitPrepare, TypeOK, Return, Cids
    <2>3. record[n] = "none" /\ Settled(n)
      BY <2>0, <2>1, <2>2 DEF IInv, FreshInv, BookInv, NoJournal, Cids
    <2>31. /\ ~OnLedger("COMMITMENT", n)' /\ ~OnLedger("VOID", n)'
           /\ record'[n] = "none" /\ guarantee'[n] = "none"
           /\ \A s \in Sides : exposure'[n][s] = "none"
      BY <2>2, <2>3, LedgerKept DEF Settled, bookVars
    <2>4. ASSUME NEW d \in Cids PROVE BookInv(d)'
      <3>1. CASE d # n
        BY <2>1, <2>2, <3>1, LedgerKept, BookFrame
           DEF IInv, NoJournal, bookVars
      <3>2. CASE d = n
        <4>1. \A steps : Doing(n, steps)' => "append" \in steps
          BY <2>2 DEF Doing
        <4>2. CommitOpen(d)'
          <5>1. ~\E steps : "append" \notin steps /\ Doing(d, steps)'
            BY <3>2, <4>1
          <5>2. /\ ~OnLedger("COMMITMENT", d)' /\ ~OnLedger("VOID", d)'
                /\ record'[d] = "none" /\ guarantee'[d] = "none"
                /\ \A s \in Sides : exposure'[d][s] = "none"
            BY <2>31, <3>2
          <5> QED  BY <5>1, <5>2 DEF CommitOpen
        <4> QED  BY <2>2, <3>2, <4>2 DEF BookInv
      <3> QED  BY <3>1, <3>2
    <2>5. JournalInv'
      <3>1. \A d \in Cids : journal'[d] # "none" => d = n
        BY <2>1, <2>2 DEF NoJournal
      <3>2. mode = "recovering" => \A g \in Handlers : calls'[g] = NoCall
        BY <1>1, <2>2 DEF IInv, TypeOK, JournalInv
      <3> QED  BY <2>2, <3>1, <3>2 DEF JournalInv, NoneInFlight, Events, NoCall
    <2>6. FreshInv'
      <3> SUFFICES ASSUME NEW d \in Cids, d >= nextCid'
                   PROVE record'[d] = "none" /\ journal'[d] = "none"
                         /\ intent'[d] = NoIntent
        BY DEF FreshInv
      <3>1. d >= n /\ d # n
        BY <2>2 DEF Cids
      <3> QED  BY <2>0, <2>2, <3>1 DEF IInv, FreshInv, bookVars
    <2>7. CheckInv' /\ LifecycleInv'
      BY <2>2 DEF IInv, CheckInv, LifecycleInv, Events, NoCall, TypeOK, bookVars
    <2> QED  BY <2>4, <2>5, <2>6, <2>7 DEF IInv
  <1>6. CASE CheckVoid(h)
    <2>1. calls[h].cid \in Cids /\ record[calls[h].cid] # "none"
      BY <1>6, CallFields DEF CheckVoid, Resumes, IInv, CheckInv
    <2>2. CASE mode = "serving"
      BY <1>1, <1>6, <2>1, <2>2, VoidBegins DEF CheckVoid, Return, TypeOK
    <2>3. CASE mode = "recovering"
      BY <1>6, <2>3 DEF CheckVoid, Resumes, IInv, JournalInv
    <2> QED  BY <2>2, <2>3 DEF TypeOK
  <1> QED  BY <1>3, <1>4, <1>5, <1>6 DEF Resume

\* What the invariant says of the commitment a transaction is about
LEMMA AtWork ==
    ASSUME IInv, section.step # "none", NEW c \in Cids, section.cid = c
    PROVE  /\ section.kind = "COMMIT" => journal[c] = "COMMIT" /\ CommitOpen(c)
           /\ section.kind = "VOID" => journal[c] = "VOID" /\ VoidOpen(c)
           /\ section.kind \in Events =>
                /\ journal[c] = "none" /\ Settled(c)
                /\ record[c] = From(section.kind)
           /\ c < nextCid
  <1> TypeOK /\ section.kind \in {"COMMIT", "VOID"} \cup Events
    BY SectionFields DEF IInv
  <1>1. /\ section.kind = "COMMIT" => journal[c] = "COMMIT" /\ CommitOpen(c)
        /\ section.kind = "VOID" => journal[c] = "VOID" /\ VoidOpen(c)
    BY DEF IInv, JournalInv, BookInv
  <1>2. ASSUME section.kind \in Events
        PROVE  journal[c] = "none" /\ Settled(c)
    <2>1. mode = "serving" /\ section.kind \notin {"COMMIT", "VOID"}
      BY <1>2 DEF IInv, JournalInv, Events
    <2>2. journal[c] \in {"none", "COMMIT", "VOID"}
      BY DEF TypeOK
    <2>3. journal[c] = "none"
      BY <2>1, <2>2 DEF IInv, JournalInv, Recovering
    <2> QED  BY <2>3 DEF IInv, BookInv
  <1>3. section.kind \in Events => record[c] = From(section.kind)
    BY DEF IInv, LifecycleInv
  <1>4. record[c] # "none" \/ journal[c] # "none"
    BY <1>1, <1>3 DEF From, Events
  <1>5. c < nextCid
    BY <1>4 DEF IInv, FreshInv, TypeOK, Cids
  <1> QED  BY <1>1, <1>2, <1>3, <1>5

\* A write of a transaction touches one commitment: its own
LEMMA SectionFrame ==
    ASSUME IInv, TypeOK', section.step # "none",
           NEW c \in Cids, section.cid = c,
           UNCHANGED <<intent, nextCid, calls, mode>>,
           \/ section'.cid = c /\ section'.kind = section.kind /\ journal' = journal
           \/ section' = Idle /\ journal'[c] = "none",
           \A d \in Cids : d # c =>
              /\ record'[d] = record[d] /\ guarantee'[d] = guarantee[d]
              /\ exposure'[d] = exposure[d] /\ journal'[d] = journal[d],
           \A type, d : d # c => (OnLedger(type, d)' <=> OnLedger(type, d)),
           record[c] # "none" => record'[c] # "none",
           BookInv(c)', LifecycleInv'
    PROVE  IInv'
  <1>1. \A d \in Cids : d # c => journal[d] = "none" /\ journal'[d] = "none"
    BY OnlyOwnJournal
  <1>2. \A d \in Cids : BookInv(d)'
    BY <1>1, BookFrame DEF IInv
  <1>3. JournalInv'
    <2>1. section # Idle /\ section.kind \in {"COMMIT", "VOID"} \cup Events
      BY SectionFields DEF IInv, Idle
    <2>2. \A d, e \in Cids : journal'[d] # "none" /\ journal'[e] # "none" => d = e
      BY <1>1
    <2>3. CASE section'.cid = c /\ section'.kind = section.kind /\ journal' = journal
      <3>1. \A d \in Cids : journal'[d] # "none" =>
               section'.cid = d /\ section'.kind = journal'[d]
        BY <1>1, <2>1, <2>3 DEF IInv, JournalInv, Recovering
      <3> QED  BY <2>1, <2>2, <2>3, <3>1 DEF IInv, JournalInv, NoneInFlight
    <2>4. CASE section' = Idle /\ journal'[c] = "none"
      BY <1>1, <2>1, <2>4 DEF IInv, JournalInv, NoneInFlight, Idle, Events
    <2> QED  BY <2>3, <2>4
  <1>4. FreshInv'
    BY AtWork, SMTT(60) DEF IInv, FreshInv, TypeOK, Cids
  <1>5. CheckInv'
    BY CallFields DEF IInv, CheckInv
  <1> QED  BY <1>2, <1>3, <1>4, <1>5 DEF IInv

LEMMA InvSection == ASSUME IInv, SectionStep PROVE IInv'
  <1> TypeOK /\ TypeOK'
    BY TypeSection DEF IInv
  <1>0. section.step # "none"
    BY DEF SectionStep, AppendEntry, ApplyGuarantee, ApplyExposure, Sides,
           SnapshotCommit, SnapshotVoid, SnapshotLifecycle, Cleanup
  <1>1. PICK c \in Cids : c = section.cid
    BY <1>0, SectionFields
  <1> DEFINE k == section.kind
  <1>2. /\ k = "COMMIT" => journal[c] = "COMMIT" /\ CommitOpen(c)
        /\ k = "VOID" => journal[c] = "VOID" /\ VoidOpen(c)
        /\ k \in Events => journal[c] = "none" /\ Settled(c) /\ record[c] = From(k)
        /\ k \in {"COMMIT", "VOID"} \cup Events
        /\ section.step = "guarantee" => k \in {"COMMIT", "VOID", "DELIVERY_ACCEPTED"}
        /\ section.step \in {"broker", "carrier", "cleanup"} => k \in {"COMMIT", "VOID"}
        /\ section \in Section
    BY <1>0, <1>1, AtWork, SectionFields
  <1>3. \A steps : Doing(c, steps) <=> section.step \in steps
    BY <1>1 DEF Doing
  <1>4. CASE AppendEntry
    <2> DEFINE e == [type |-> EntryType(k), cid |-> c]
    <2>1. /\ UNCHANGED <<record, guarantee, exposure, journal, intent, nextCid,
                         calls, mode>>
          /\ section'.cid = c /\ section'.kind = k
          /\ section'.step = IF k \in {"PICKED_UP", "DELIVERED"}
                             THEN "snapshot" ELSE "guarantee"
          /\ ledger' = Append(ledger, e)
          /\ section.step = "append"
      <3>1. /\ section.step = "append"
            /\ ledger' = Append(ledger, e)
            /\ UNCHANGED <<record, guarantee, exposure, journal, intent, nextCid,
                           calls, mode>>
        BY <1>1, <1>4 DEF AppendEntry, bookVars
      <3>2. /\ section'.cid = c /\ section'.kind = k
            /\ section'.step = IF k \in {"PICKED_UP", "DELIVERED"}
                               THEN "snapshot" ELSE "guarantee"
        BY <1>1, <1>2, <1>4 DEF AppendEntry, Section
      <3> QED  BY <3>1, <3>2
    <2>2. e \in Entry
      BY <1>2 DEF EntryType, Entry, Events
    <2>3. \A type, d : OnLedger(type, d)' <=> OnLedger(type, d)
                                          \/ e = [type |-> type, cid |-> d]
      BY <2>1, <2>2, LedgerAppended
    <2>4. \A type, d : e = [type |-> type, cid |-> d]
                         <=> type = EntryType(k) /\ d = c
      OBVIOUS
    <2> HIDE DEF e
    <2>5. \A type, d : OnLedger(type, d)' <=> OnLedger(type, d)
                                          \/ (type = EntryType(k) /\ d = c)
      BY <2>3, <2>4
    <2>6. \A steps : Doing(c, steps)' <=> section'.step \in steps
      BY <2>1 DEF Doing
    <2>7. BookInv(c)'
      <3>1. CASE k = "COMMIT"
        <4>1. CommitOpen(c)'
          BY <1>2, <1>3, <2>1, <2>5, <2>6, <3>1 DEF CommitOpen, EntryType
        <4> QED  BY <1>2, <2>1, <3>1, <4>1 DEF BookInv
      <3>2. CASE k = "VOID"
        <4>1. VoidOpen(c)'
          BY <1>2, <1>3, <2>1, <2>5, <2>6, <3>2 DEF VoidOpen, EntryType
        <4> QED  BY <1>2, <2>1, <3>2, <4>1 DEF BookInv
      <3>3. CASE k \in Events
        <4>1. Settled(c)'
          BY <1>2, <2>1, <2>5, <3>3 DEF Settled, EntryType, Events
        <4> QED  BY <1>2, <2>1, <3>3, <4>1 DEF BookInv
      <3> QED  BY <1>2, <3>1, <3>2, <3>3
    <2>8. LifecycleInv'
      BY <1>1, <1>2, <2>1 DEF LifecycleInv
    <2> QED  BY <1>0, <1>1, <2>1, <2>5, <2>7, <2>8, SectionFrame
  <1>5. CASE ApplyGuarantee
    <2>1. /\ UNCHANGED <<record, exposure, journal, ledger, intent, nextCid,
                         calls, mode>>
          /\ section'.cid = c /\ section'.kind = k
          /\ section'.step = IF k = "DELIVERY_ACCEPTED"
                             THEN "snapshot" ELSE "broker"
          /\ guarantee'[c] = GuaranteeAfter(k, c)
          /\ \A d \in Cids : d # c => guarantee'[d] = guarantee[d]
          /\ section.step = "guarantee"
      <3>1. /\ section.step = "guarantee"
            /\ guarantee'[c] = GuaranteeAfter(k, c)
            /\ \A d \in Cids : d # c => guarantee'[d] = guarantee[d]
            /\ UNCHANGED <<record, exposure, journal, ledger, intent, nextCid,
                           calls, mode>>
        BY <1>1, <1>5 DEF ApplyGuarantee, TypeOK, logVars
      <3>2. /\ section'.cid = c /\ section'.kind = k
            /\ section'.step = IF k = "DELIVERY_ACCEPTED"
                               THEN "snapshot" ELSE "broker"
        BY <1>1, <1>2, <1>5 DEF ApplyGuarantee, Section
      <3> QED  BY <3>1, <3>2
    <2>2. \A type, d : OnLedger(type, d)' <=> OnLedger(type, d)
      BY <2>1, LedgerKept
    <2>3. \A steps : Doing(c, steps)' <=> section'.step \in steps
      BY <2>1 DEF Doing
    <2>4. BookInv(c)'
      <3>1. CASE k = "COMMIT"
        <4>1. CommitOpen(c)'
          BY <1>2, <1>3, <2>1, <2>2, <2>3, <3>1 DEF CommitOpen, GuaranteeAfter
        <4> QED  BY <1>2, <2>1, <3>1, <4>1 DEF BookInv
      <3>2. CASE k = "VOID"
        <4>1. VoidOpen(c)'
          BY <1>2, <1>3, <2>1, <2>2, <2>3, <3>2 DEF VoidOpen, GuaranteeAfter
        <4> QED  BY <1>2, <2>1, <3>2, <4>1 DEF BookInv
      <3>3. CASE k = "DELIVERY_ACCEPTED"
        <4>1. Settled(c)'
          BY <1>2, <2>1, <2>2, <3>3
             DEF Settled, GuaranteeAfter, From, Events
        <4> QED  BY <1>2, <2>1, <3>3, <4>1 DEF BookInv, Events
      <3> QED  BY <1>2, <2>1, <3>1, <3>2, <3>3
    <2>5. LifecycleInv'
      <3> SUFFICES ASSUME k = "DELIVERY_ACCEPTED"
                   PROVE  record[c] = From(k) /\ guarantee'[c] # "ATTACHED"
        BY <1>2, <2>1 DEF LifecycleInv, Events
      <3> QED  BY <1>2, <2>1 DEF GuaranteeAfter, Settled, From, Events
    <2> QED  BY <1>0, <1>1, <2>1, <2>2, <2>4, <2>5, SectionFrame
  <1>6. ASSUME NEW s \in Sides, ApplyExposure(s) PROVE IInv'
    <2>1. /\ UNCHANGED <<record, guarantee, journal, ledger, intent, nextCid,
                         calls, mode>>
          /\ section'.cid = c /\ section'.kind = k
          /\ section'.step = IF s = "broker" THEN "carrier" ELSE "snapshot"
          /\ \A d \in Cids : d # c => exposure'[d] = exposure[d]
          /\ section.step = s
      BY <1>1, <1>2, <1>6 DEF ApplyExposure, Section, TypeOK, logVars
    <2>2. /\ exposure'[c][s] = IF k = "VOID" THEN "released"
                       ELSE IF exposure[c][s] = "none" THEN "held" ELSE exposure[c][s]
          /\ \A r \in Sides : r # s => exposure'[c][r] = exposure[c][r]
      BY <1>1, <1>6, SMTT(60) DEF ApplyExposure, TypeOK
    <2>3. k \in {"COMMIT", "VOID"}
      BY <1>2, <2>1 DEF Sides
    <2>4. \A type, d : OnLedger(type, d)' <=> OnLedger(type, d)
      BY <2>1, LedgerKept
    <2>5. \A steps : Doing(c, steps)' <=> section'.step \in steps
      BY <2>1 DEF Doing
    <2>6. BookInv(c)'
      <3>1. CASE k = "COMMIT"
        <4>1. CommitOpen(c)'
          BY <1>2, <1>3, <2>1, <2>2, <2>4, <2>5, <3>1 DEF CommitOpen, Sides
        <4> QED  BY <1>2, <2>1, <3>1, <4>1 DEF BookInv
      <3>2. CASE k = "VOID"
        <4>1. VoidOpen(c)'
          BY <1>2, <1>3, <2>1, <2>2, <2>4, <2>5, <3>2 DEF VoidOpen, Sides
        <4> QED  BY <1>2, <2>1, <3>2, <4>1 DEF BookInv
      <3> QED  BY <2>3, <3>1, <3>2
    <2>7. LifecycleInv'
      BY <2>1, <2>3 DEF LifecycleInv, Events
    <2> QED  BY <1>0, <1>1, <2>1, <2>4, <2>6, <2>7, SectionFrame
  <1>7. CASE SnapshotCommit
    <2>1. /\ UNCHANGED <<guarantee, exposure, journal, ledger, intent, nextCid,
                         calls, mode>>
          /\ section'.cid = c /\ section'.kind = k /\ section'.step = "cleanup"
          /\ record'[c] = IF record[c] = "none" THEN "ACTIVE" ELSE record[c]
          /\ \A d \in Cids : d # c => record'[d] = record[d]
          /\ section.step = "snapshot" /\ k = "COMMIT"
      <3>1. /\ section.step = "snapshot" /\ k = "COMMIT"
            /\ record'[c] = IF record[c] = "none" THEN "ACTIVE" ELSE record[c]
            /\ \A d \in Cids : d # c => record'[d] = record[d]
            /\ UNCHANGED <<guarantee, exposure, journal, ledger, intent, nextCid,
                           calls, mode>>
        BY <1>1, <1>7 DEF SnapshotCommit, TypeOK, logVars
      <3>2. section'.cid = c /\ section'.kind = k /\ section'.step = "cleanup"
        BY <1>1, <1>2, <1>7 DEF SnapshotCommit, Section
      <3> QED  BY <3>1, <3>2
    <2>2. \A type, d : OnLedger(type, d)' <=> OnLedger(type, d)
      BY <2>1, LedgerKept
    <2>3. \A steps : Doing(c, steps)' <=> section'.step \in steps
      BY <2>1 DEF Doing
    <2>4. CommitOpen(c)'
      BY <1>2, <1>3, <2>1, <2>2, <2>3 DEF CommitOpen
    <2>5. BookInv(c)' /\ LifecycleInv'
      BY <1>2, <2>1, <2>4 DEF BookInv, LifecycleInv, Events
    <2> QED  BY <1>0, <1>1, <2>1, <2>2, <2>5, SectionFrame
  <1>8. CASE SnapshotVoid
    <2>1. /\ UNCHANGED <<guarantee, exposure, journal, ledger, intent, nextCid,
                         calls, mode>>
          /\ section'.cid = c /\ section'.kind = k /\ section'.step = "cleanup"
          /\ record'[c] = "VOIDED"
          /\ \A d \in Cids : d # c => record'[d] = record[d]
          /\ section.step = "snapshot" /\ k = "VOID"
      <3>1. /\ section.step = "snapshot" /\ k = "VOID"
            /\ record'[c] = "VOIDED"
            /\ \A d \in Cids : d # c => record'[d] = record[d]
            /\ UNCHANGED <<guarantee, exposure, journal, ledger, intent, nextCid,
                           calls, mode>>
        BY <1>1, <1>8 DEF SnapshotVoid, TypeOK, logVars
      <3>2. section'.cid = c /\ section'.kind = k /\ section'.step = "cleanup"
        BY <1>1, <1>2, <1>8 DEF SnapshotVoid, Section
      <3> QED  BY <3>1, <3>2
    <2>2. \A type, d : OnLedger(type, d)' <=> OnLedger(type, d)
      BY <2>1, LedgerKept
    <2>3. \A steps : Doing(c, steps)' <=> section'.step \in steps
      BY <2>1 DEF Doing
    <2>4. VoidOpen(c)'
      BY <1>2, <1>3, <2>1, <2>2, <2>3 DEF VoidOpen, Sides
    <2>5. BookInv(c)' /\ LifecycleInv'
      BY <1>2, <2>1, <2>4 DEF BookInv, LifecycleInv, Events
    <2> QED  BY <1>0, <1>1, <2>1, <2>2, <2>5, SectionFrame
  <1>9. CASE SnapshotLifecycle
    <2>1. /\ UNCHANGED <<guarantee, exposure, journal, ledger, intent, nextCid,
                         calls, mode>>
          /\ section' = Idle
          /\ record'[c] = To(k)
          /\ \A d \in Cids : d # c => record'[d] = record[d]
          /\ section.step = "snapshot" /\ k \in Events
      BY <1>1, <1>2, <1>9 DEF SnapshotLifecycle, TypeOK, logVars
    <2>2. \A type, d : OnLedger(type, d)' <=> OnLedger(type, d)
      BY <2>1, LedgerKept
    <2>3. k = "DELIVERY_ACCEPTED" => guarantee[c] # "ATTACHED"
      BY <1>1, <2>1 DEF IInv, LifecycleInv
    <2>4. Settled(c)'
      BY <1>2, <2>1, <2>2, <2>3 DEF Settled, From, To, Events
    <2>5. BookInv(c)' /\ LifecycleInv'
      BY <1>2, <2>1, <2>4 DEF BookInv, LifecycleInv, Idle, Events
    <2> QED  BY <1>0, <1>1, <1>2, <2>1, <2>2, <2>5, SectionFrame
             DEF To, Events
  <1>10. CASE Cleanup
    <2>1. /\ UNCHANGED <<record, guarantee, exposure, ledger, intent, nextCid,
                         calls, mode>>
          /\ section' = Idle
          /\ journal'[c] = "none"
          /\ \A d \in Cids : d # c => journal'[d] = journal[d]
          /\ section.step = "cleanup" /\ k \in {"COMMIT", "VOID"}
      BY <1>1, <1>2, <1>10 DEF Cleanup, TypeOK, bookVars
    <2>2. \A type, d : OnLedger(type, d)' <=> OnLedger(type, d)
      BY <2>1, LedgerKept
    <2>3. Settled(c)
      <3>1. CASE k = "COMMIT"
        BY <1>2, <1>3, <2>1, <3>1 DEF CommitOpen, Settled, Sides
      <3>2. CASE k = "VOID"
        BY <1>2, <1>3, <2>1, <3>2 DEF VoidOpen, Settled, Sides
      <3> QED  BY <2>1, <3>1, <3>2
    <2>4. BookInv(c)'
      BY <2>1, <2>2, <2>3 DEF BookInv, Settled
    <2>5. LifecycleInv'
      BY <2>1 DEF LifecycleInv, Idle, Events
    <2> QED  BY <1>0, <1>1, <2>1, <2>2, <2>4, <2>5, SectionFrame
  <1> QED  BY <1>4, <1>5, <1>6, <1>7, <1>8, <1>9, <1>10 DEF SectionStep

LEMMA InvCrashRecover ==
    ASSUME IInv, CrashStep \/ Recover PROVE IInv'
  <1> TypeOK /\ TypeOK'
    BY TypeCrashRecover DEF IInv
  <1>1. CASE CrashStep
    <2>1. /\ section' = Idle /\ mode' = "recovering"
          /\ calls' = [h \in Handlers |-> NoCall]
          /\ UNCHANGED <<record, guarantee, exposure, ledger, journal, intent,
                         nextCid>>
      BY <1>1 DEF CrashStep, Crash, CrashInAccept, Die, bookVars, logVars
    <2>2. \A c \in Cids : BookInv(c)'
      BY <2>1, LedgerKept, BookFrame DEF IInv, Idle, Cids
    <2>3. JournalInv'
      BY <2>1 DEF IInv, JournalInv, Recovering, NoneInFlight, Idle, NoCall, Events
    <2>4. FreshInv' /\ CheckInv' /\ LifecycleInv'
      BY <2>1 DEF IInv, FreshInv, CheckInv, LifecycleInv, Idle, NoCall, Events
    <2> QED  BY <2>2, <2>3, <2>4 DEF IInv
  <1>2. ASSUME NEW c \in Cids, RecoverJournal(c) PROVE IInv'
    <2>1. /\ Recovering /\ journal[c] \in {"COMMIT", "VOID"}
          /\ UNCHANGED <<record, guarantee, exposure, ledger, intent, nextCid,
                         calls, mode>>
      BY <1>2 DEF RecoverJournal, TypeOK, bookVars
    <2>2. \A d \in Cids : d # c => journal[d] = "none"
      BY <2>1 DEF IInv, JournalInv
    <2>3. \A type, d : OnLedger(type, d)' <=> OnLedger(type, d)
      BY <2>1, LedgerKept
    <2>4. FreshInv' /\ CheckInv'
      BY <1>2, <2>1 DEF IInv, FreshInv, CheckInv, RecoverJournal, TypeOK
    <2>5. CASE /\ PastCommitPoint(c)
               /\ section' = [kind |-> journal[c], cid |-> c, step |-> "guarantee"]
               /\ journal' = journal
      <3>1. \A steps : Doing(c, steps)' <=> "guarantee" \in steps
        BY <2>5 DEF Doing
      <3>2. ASSUME NEW d \in Cids PROVE BookInv(d)'
        <4>1. CASE d # c
          BY <2>1, <2>2, <2>3, <2>5, <4>1, BookFrame DEF IInv
        <4>2. CASE d = c
          <5>1. CASE journal[c] = "COMMIT"
            <6>1. CommitOpen(c) /\ OnLedger("COMMITMENT", c)
              BY <2>5, <5>1 DEF IInv, BookInv, PastCommitPoint, EntryType
            <6>2. CommitOpen(c)'
              BY <2>1, <2>3, <3>1, <6>1 DEF CommitOpen
            <6> QED  BY <2>5, <4>2, <5>1, <6>2 DEF BookInv
          <5>2. CASE journal[c] = "VOID"
            <6>1. VoidOpen(c) /\ OnLedger("VOID", c)
              BY <2>5, <5>2 DEF IInv, BookInv, PastCommitPoint, EntryType
            <6>2. VoidOpen(c)'
              BY <2>1, <2>3, <3>1, <6>1 DEF VoidOpen
            <6> QED  BY <2>5, <4>2, <5>2, <6>2 DEF BookInv
          <5> QED  BY <2>1, <5>1, <5>2
        <4> QED  BY <4>1, <4>2
      <3>3. JournalInv'
        BY <2>1, <2>2, <2>5 DEF JournalInv, Recovering, NoneInFlight, NoCall, Events
      <3>4. LifecycleInv'
        BY <2>1, <2>5 DEF LifecycleInv, Events
      <3> QED  BY <2>4, <3>2, <3>3, <3>4 DEF IInv
    <2>6. CASE /\ ~PastCommitPoint(c)
               /\ journal' = [journal EXCEPT ![c] = "none"]
               /\ section' = section
      <3>1. \A d \in Cids : journal'[d] = "none"
        BY <2>2, <2>6 DEF TypeOK
      <3>2. ASSUME NEW d \in Cids PROVE BookInv(d)'
        <4>1. CASE d # c
          BY <2>1, <2>2, <2>3, <2>6, <3>1, <4>1, BookFrame DEF IInv
        <4>2. CASE d = c
          <5>1. Settled(c)
            <6>1. CASE journal[c] = "COMMIT"
              <7>1. CommitOpen(c) /\ ~OnLedger("COMMITMENT", c)
                BY <2>6, <6>1 DEF IInv, BookInv, PastCommitPoint, EntryType
              <7> QED  BY <7>1 DEF CommitOpen, Settled
            <6>2. CASE journal[c] = "VOID"
              <7>1. VoidOpen(c) /\ ~OnLedger("VOID", c)
                BY <2>6, <6>2 DEF IInv, BookInv, PastCommitPoint, EntryType
              <7> QED  BY <7>1 DEF VoidOpen, Settled
            <6> QED  BY <2>1, <6>1, <6>2
          <5> QED  BY <2>1, <2>3, <3>1, <4>2, <5>1 DEF BookInv, Settled
        <4> QED  BY <4>1, <4>2
      <3>3. JournalInv'
        BY <2>1, <2>6, <3>1 DEF JournalInv, Recovering, NoneInFlight, Idle,
                                NoCall, Events
      <3>4. LifecycleInv'
        BY <2>1, <2>6 DEF LifecycleInv, Recovering, Idle, Events
      <3> QED  BY <2>4, <3>2, <3>3, <3>4 DEF IInv
    <2> QED  BY <1>2, <2>5, <2>6 DEF RecoverJournal
  <1>3. ASSUME NEW t \in Tasks, NEW h \in Handlers, RecoverRetry(t, h)
        PROVE  IInv'
    <2>1. /\ Recovering /\ NoJournal
          /\ UNCHANGED <<bookVars, logVars, section, mode>>
          /\ calls' = [calls EXCEPT ![h] = [kind |-> "COMMIT", task |-> t,
                                     terms |-> accepted[t]["carrier"]]]
      BY <1>3 DEF RecoverRetry, Park
    <2>2. /\ calls'[h].kind = "COMMIT"
          /\ \A g \in Handlers : g # h => calls'[g] = NoCall
      BY <2>1 DEF TypeOK, Recovering, NoneInFlight
    <2>3. \A c \in Cids : BookInv(c)'
      BY <2>1, LedgerKept, BookFrame DEF IInv, bookVars, logVars
    <2>4. JournalInv'
      BY <2>1, <2>2 DEF JournalInv, Recovering, NoJournal, NoCall, Idle, Events,
                        logVars
    <2>5. FreshInv' /\ CheckInv' /\ LifecycleInv'
      BY <2>1, <2>2 DEF IInv, FreshInv, CheckInv, LifecycleInv, NoCall,
                        bookVars, logVars
    <2> QED  BY <2>3, <2>4, <2>5 DEF IInv
  <1>4. CASE RecoverFinish
    <2>1. /\ section = Idle /\ NoJournal /\ mode' = "serving"
          /\ UNCHANGED <<bookVars, logVars, section, calls>>
      BY <1>4 DEF RecoverFinish, Recovering
    <2>2. \A c \in Cids : BookInv(c)'
      BY <2>1, LedgerKept, BookFrame DEF IInv, bookVars, logVars
    <2>3. JournalInv'
      BY <2>1 DEF JournalInv, NoJournal, Idle, Events, logVars
    <2>4. FreshInv' /\ CheckInv' /\ LifecycleInv'
      BY <2>1 DEF IInv, FreshInv, CheckInv, LifecycleInv, bookVars, logVars
    <2> QED  BY <2>2, <2>3, <2>4 DEF IInv
  <1> QED  BY <1>1, <1>2, <1>3, <1>4 DEF Recover

\* The books are right or a journal says what is missing, at every moment
THEOREM Inductive == Spec => []IInv
  <1>1. IInv /\ [Next]_vars => IInv'
    <2> SUFFICES ASSUME IInv, [Next]_vars PROVE IInv'
      OBVIOUS
    <2>1. CASE UNCHANGED vars
      <3>1. TypeOK'
        BY <2>1 DEF IInv, TypeOK, vars, taskVars, bookVars, logVars, procVars
      <3>2. \A c \in Cids : BookInv(c)'
        BY <2>1, LedgerKept, BookFrame
           DEF IInv, vars, taskVars, bookVars, logVars, procVars
      <3>3. JournalInv'
        BY <2>1 DEF IInv, JournalInv, Recovering, NoneInFlight,
                    vars, logVars, procVars
      <3>4. FreshInv' /\ CheckInv' /\ LifecycleInv'
        BY <2>1 DEF IInv, FreshInv, CheckInv, LifecycleInv,
                    vars, bookVars, logVars, procVars
      <3> QED  BY <3>1, <3>2, <3>3, <3>4 DEF IInv
    <2> QED
      BY <2>1, InvStart, InvResume, InvSection, InvCrashRecover DEF Next, CrashStep
  <1> QED  BY <1>1, InvInit, PTL DEF Spec

----------------------------------------------------------------------------
(* What follows from it                                                    *)

\* Between transactions the ledger, the records, the guarantees and the
\* exposure books agree on every commitment, wherever the venue has crashed
\* and however its handlers have overlapped (commit, voidCommitment, recover)
THEOREM BooksCorrect == Spec => []BooksMatchLedger
  <1>1. IInv => BooksMatchLedger
    BY DEF IInv, BookInv, BooksMatchLedger, AtRest, NoJournal
  <1> QED  BY <1>1, Inductive, PTL

\* No guarantee, exposure or record before the COMMITMENT is on the chain, and
\* none given back before its VOID is (the order of steps in commit and recover)
THEOREM CommitPointFirst == Spec => []NothingBeforeCommitPoint
  <1>1. IInv => NothingBeforeCommitPoint
    <2> SUFFICES ASSUME IInv, NEW c \in Cids
                 PROVE  /\ \/ guarantee[c] # "none"
                           \/ record[c] # "none"
                           \/ \E s \in Sides : exposure[c][s] # "none"
                           => OnLedger("COMMITMENT", c)
                        /\ \/ record[c] = "VOIDED"
                           \/ \E s \in Sides : exposure[c][s] = "released"
                           => OnLedger("VOID", c)
      BY DEF NothingBeforeCommitPoint
    <2>1. CASE journal[c] = "none"
      BY <2>1 DEF IInv, BookInv, Settled
    <2>2. CASE journal[c] = "COMMIT"
      BY <2>2 DEF IInv, BookInv, CommitOpen
    <2>3. CASE journal[c] = "VOID"
      BY <2>3 DEF IInv, BookInv, VoidOpen
    <2> QED  BY <2>1, <2>2, <2>3 DEF IInv, TypeOK
  <1> QED  BY <1>1, Inductive, PTL

----------------------------------------------------------------------------
(* What is committed is what both parties signed                           *)

\* A step that files no acceptance and draws no commitment id
LEMMA AgreedFrame ==
    ASSUME AgreedInv, UNCHANGED <<accepted, intent, nextCid>>,
           \A h \in Handlers : \/ calls'[h] = calls[h]
                               \/ calls'[h].kind \notin {"ACCEPT", "COMMIT"}
                               \/ CarriesAgreed(calls'[h])
    PROVE  AgreedInv'
  <1>1. \A t \in Tasks : FullyAccepted(t)' => FullyAccepted(t)
    BY DEF FullyAccepted
  <1>2. \A h \in Handlers : CarriesAgreed(calls[h])'
    BY DEF AgreedInv, CarriesAgreed
  <1> QED  BY <1>1, <1>2 DEF AgreedInv

\* An acceptance that passes the check agrees with the one already on file
LEMMA AcceptAgrees ==
    ASSUME TypeOK, AgreedInv, NEW h \in Handlers, Accepts(h)
    PROVE  /\ \A t \in Tasks : FullyAccepted(t)' =>
                 accepted'[t]["broker"] = accepted'[t]["carrier"]
           /\ \A g \in Handlers : calls[g].kind = "COMMIT" =>
                 \A r \in Sides : accepted'[calls[g].task][r] = calls[g].terms
           /\ accepted[calls[h].task][Other(calls[h].by)] # NoOffer =>
                 \A r \in Sides : accepted'[calls[h].task][r] = calls[h].terms
           /\ calls[h].terms # NoOffer
  <1> DEFINE u == calls[h].task
             s == calls[h].by
             o == calls[h].terms
  <1>1. /\ u \in Tasks /\ s \in Sides /\ o \in Terms /\ o # NoOffer
        /\ accepted[u][Other(s)] \in {NoOffer, o}
        /\ accepted' = [accepted EXCEPT ![u][s] = o]
    BY CallFields DEF Accepts, Resumes, TermsAgree, AgreedInv, CarriesAgreed
  <1>2. /\ accepted'[u][s] = o
        /\ accepted'[u][Other(s)] = accepted[u][Other(s)]
        /\ \A t \in Tasks : t # u => accepted'[t] = accepted[t]
        /\ Sides = {s, Other(s)} /\ s # Other(s)
    BY <1>1 DEF TypeOK, Sides, Other
  <1> HIDE DEF u, s, o
  <1>3. ASSUME NEW t \in Tasks, FullyAccepted(t)'
        PROVE  accepted'[t]["broker"] = accepted'[t]["carrier"]
    <2>1. CASE t # u
      BY <1>2, <1>3, <2>1 DEF AgreedInv, FullyAccepted
    <2>2. CASE t = u
      <3>1. accepted'[u][s] = o /\ accepted'[u][Other(s)] = o
        BY <1>1, <1>2, <1>3, <2>2 DEF FullyAccepted
      <3>2. "broker" \in {s, Other(s)} /\ "carrier" \in {s, Other(s)}
        BY <1>2 DEF Sides
      <3> QED  BY <2>2, <3>1, <3>2
    <2> QED  BY <2>1, <2>2
  <1>4. ASSUME NEW g \in Handlers, calls[g].kind = "COMMIT", NEW r \in Sides
        PROVE  accepted'[calls[g].task][r] = calls[g].terms
    <2>1. /\ calls[g].task \in Tasks /\ calls[g].terms # NoOffer
          /\ \A q \in Sides : accepted[calls[g].task][q] = calls[g].terms
      BY <1>4, CallFields DEF AgreedInv, CarriesAgreed
    <2>2. CASE calls[g].task # u
      BY <1>2, <2>1, <2>2
    <2>3. CASE calls[g].task = u
      <3>1. accepted[u][Other(s)] = calls[g].terms /\ o = calls[g].terms
        BY <1>1, <1>2, <2>1, <2>3
      <3> QED  BY <1>2, <2>3, <3>1
    <2> QED  BY <2>2, <2>3
  <1>5. accepted[u][Other(s)] # NoOffer => \A r \in Sides : accepted'[u][r] = o
    BY <1>1, <1>2
  <1> QED  BY <1>1, <1>3, <1>4, <1>5 DEF u, s, o

LEMMA AgreedResume ==
    ASSUME TypeOK, AgreedInv, NEW h \in Handlers, Resume(h) PROVE AgreedInv'
  <1>1. CASE \/ TenderRefuse(h) \/ TenderAdmit(h) \/ AdvanceFail(h)
             \/ RejectResume(h) \/ CounterResume(h) \/ AcceptLost(h)
             \/ CommitFail(h) \/ CheckPass(h) \/ CheckVoid(h)
    <2>1. UNCHANGED <<accepted, intent, nextCid>> /\ Return(h)
      BY <1>1 DEF TenderRefuse, TenderAdmit, AdvanceFail, RejectResume,
                  CounterResume, AcceptLost, CommitFail, CheckPass, CheckVoid,
                  Fail, Terminate, taskVars, logVars
    <2>2. \A g \in Handlers : \/ calls'[g] = calls[g]
                              \/ calls'[g].kind \notin {"ACCEPT", "COMMIT"}
      BY <2>1 DEF Return, NoCall, TypeOK
    <2> QED  BY <2>1, <2>2, AgreedFrame, SMTT(60)
  <1>2. CASE AcceptResume(h)
    <2>1. Accepts(h) /\ UNCHANGED <<intent, nextCid>>
      BY <1>2 DEF AcceptResume, logVars
    <2>2. ASSUME NEW g \in Handlers PROVE CarriesAgreed(calls[g])'
      <3>1. CASE g # h \/ calls'[g] = NoCall
        <4>1. calls'[g] = calls[g] \/ calls'[g] = NoCall
          BY <1>2, <3>1 DEF AcceptResume, Return, TypeOK
        <4> QED  BY <2>1, <4>1, AcceptAgrees
                 DEF AgreedInv, CarriesAgreed, NoCall
      <3>2. CASE g = h /\ calls'[g] # NoCall
        <4>1. /\ accepted[calls[h].task][Other(calls[h].by)] # NoOffer
              /\ calls' = [calls EXCEPT ![h] = [kind |-> "COMMIT",
                             task |-> calls[h].task, terms |-> calls[h].terms]]
          BY <1>2, <3>2 DEF AcceptResume, Return, TypeOK
        <4>2. calls'[h] = [kind |-> "COMMIT", task |-> calls[h].task,
                           terms |-> calls[h].terms]
          BY <4>1 DEF TypeOK
        <4> QED  BY <2>1, <3>2, <4>1, <4>2, AcceptAgrees DEF CarriesAgreed
      <3> QED  BY <3>1, <3>2
    <2> QED  BY <2>1, <2>2, AcceptAgrees DEF AgreedInv
  <1>3. CASE CommitPrepare(h)
    <2>1. /\ calls[h].kind = "COMMIT" /\ nextCid \in Cids
          /\ nextCid' = nextCid + 1 /\ accepted' = accepted
          /\ \E b \in BOOLEAN : intent' = [intent EXCEPT ![nextCid] =
                 [task |-> calls[h].task, terms |-> calls[h].terms,
                  signed |-> accepted[calls[h].task], guaranteed |-> b]]
          /\ calls' = [calls EXCEPT ![h] = NoCall]
      BY <1>3 DEF CommitPrepare, Resumes, Return, taskVars
    <2>2. \A g \in Handlers : CarriesAgreed(calls[g])'
      BY <2>1 DEF TypeOK, AgreedInv, CarriesAgreed, NoCall
    <2>3. /\ intent'[nextCid] # NoIntent
          /\ \A s \in Sides : intent'[nextCid].signed[s] = intent'[nextCid].terms
      <3>1. calls[h].task \in Tasks /\
              \A s \in Sides : accepted[calls[h].task][s] = calls[h].terms
        BY <2>1, CallFields DEF AgreedInv, CarriesAgreed
      <3>2. PICK b \in BOOLEAN : intent'[nextCid] =
                 [task |-> calls[h].task, terms |-> calls[h].terms,
                  signed |-> accepted[calls[h].task], guaranteed |-> b]
        BY <2>1 DEF TypeOK
      <3> QED  BY <3>1, <3>2 DEF NoIntent
    <2>4. \A c \in Cids : c # nextCid => intent'[c] = intent[c]
      BY <2>1 DEF TypeOK
    <2>5. \A c \in Cids : c < nextCid' => c < nextCid \/ c = nextCid
      BY <2>1 DEF Cids
    <2>6. \A c \in Cids :
             /\ c < nextCid' => intent'[c] # NoIntent
             /\ intent'[c] # NoIntent =>
                   \A s \in Sides : intent'[c].signed[s] = intent'[c].terms
      BY <2>3, <2>4, <2>5 DEF AgreedInv
    <2>7. \A t \in Tasks : FullyAccepted(t)' => FullyAccepted(t)
      BY <2>1 DEF FullyAccepted
    <2> QED  BY <2>1, <2>2, <2>6, <2>7 DEF AgreedInv
  <1> QED  BY <1>1, <1>2, <1>3 DEF Resume

LEMMA AgreedStart == ASSUME TypeOK, AgreedInv, Start PROVE AgreedInv'
  <1>1. ASSUME NEW t \in Tasks, NEW o \in Offers, NEW h \in Handlers,
               Tender(t, o, h)
        PROVE  AgreedInv'
    BY <1>1, AgreedFrame DEF TypeOK, Tender, Park, taskVars, logVars
  <1>2. ASSUME NEW t \in Tasks, NEW s \in Sides,
               NEW kind \in {"COUNTER", "ACCEPT", "REJECT"},
               NEW o \in Terms, NEW h \in Handlers, Message(t, s, kind, o, h)
        PROVE  AgreedInv'
    <2>1. /\ kind = "REJECT" <=> o = NoOffer
          /\ UNCHANGED <<accepted, intent, nextCid>>
          /\ \A g \in Handlers : g # h => calls'[g] = calls[g]
          /\ calls'[h] = [kind |-> kind, task |-> t, by |-> s, terms |-> o]
      BY <1>2 DEF TypeOK, Message, Park, taskVars, logVars
    <2>2. CarriesAgreed(calls'[h]) \/ calls'[h].kind \notin {"ACCEPT", "COMMIT"}
      BY <2>1 DEF CarriesAgreed
    <2> QED  BY <2>1, <2>2, AgreedFrame
  <1>3. ASSUME NEW c \in Cids, NEW h \in Handlers, CheckStart(c, h)
        PROVE  AgreedInv'
    BY <1>3, AgreedFrame DEF TypeOK, CheckStart, Park, taskVars, logVars
  <1>4. CASE \/ \E t \in Tasks : Timeout(t)
             \/ \E c \in Cids, e \in Events : Lifecycle(c, e)
             \/ \E c \in Cids : ReleaseGuarantee(c)
             \/ \E c \in Cids : VoidNow(c)
    <2>1. UNCHANGED <<accepted, intent, nextCid, calls>>
      BY <1>4 DEF Timeout, Terminate, Lifecycle, ReleaseGuarantee, VoidNow,
                  taskVars, logVars, procVars
    <2> QED  BY <2>1, AgreedFrame
  <1> QED  BY <1>1, <1>2, <1>3, <1>4 DEF Start

LEMMA AgreedRest ==
    ASSUME TypeOK, AgreedInv, SectionStep \/ CrashStep \/ Recover
    PROVE  AgreedInv'
  <1>1. CASE SectionStep
    <2>1. UNCHANGED <<accepted, intent, nextCid, calls>>
      BY <1>1 DEF SectionStep, AppendEntry, ApplyGuarantee, ApplyExposure,
                  SnapshotCommit, SnapshotVoid, SnapshotLifecycle, Cleanup,
                  taskVars, logVars
    <2> QED  BY <2>1, AgreedFrame, SMTT(60)
  <1>2. CASE Crash
    BY <1>2, AgreedFrame DEF Crash, Die, NoCall, taskVars, logVars
  <1>3. ASSUME NEW h \in Handlers, CrashInAccept(h) PROVE AgreedInv'
    BY <1>3, AcceptAgrees
       DEF CrashInAccept, Die, NoCall, AgreedInv, CarriesAgreed, logVars
  <1>4. ASSUME NEW c \in Cids, RecoverJournal(c) PROVE AgreedInv'
    BY <1>4, AgreedFrame DEF RecoverJournal, taskVars
  <1>5. ASSUME NEW t \in Tasks, NEW h \in Handlers, RecoverRetry(t, h)
        PROVE  AgreedInv'
    <2>1. /\ UNCHANGED <<accepted, intent, nextCid>>
          /\ \A g \in Handlers : g # h => calls'[g] = calls[g]
          /\ calls'[h] = [kind |-> "COMMIT", task |-> t,
                          terms |-> accepted[t]["carrier"]]
          /\ FullyAccepted(t)
      BY <1>5 DEF TypeOK, RecoverRetry, Retried, Park, taskVars, logVars
    <2>2. CarriesAgreed(calls'[h])
      BY <2>1 DEF CarriesAgreed, AgreedInv, FullyAccepted, Sides
    <2> QED  BY <2>1, <2>2, AgreedFrame
  <1>6. CASE RecoverFinish
    BY <1>6, AgreedFrame DEF RecoverFinish, logVars
  <1> QED  BY <1>1, <1>2, <1>3, <1>4, <1>5, <1>6 DEF CrashStep, Recover

\* Parked handlers and journals carry what both parties accepted, always
LEMMA AgreedAlways == Spec => []AgreedInv
  <1>1. Init => AgreedInv
    BY DEF Init, AgreedInv, CarriesAgreed, FullyAccepted, NoCall, Sides, Cids
  <1>2. IInv /\ AgreedInv /\ [Next]_vars => AgreedInv'
    <2> SUFFICES ASSUME IInv, AgreedInv, [Next]_vars PROVE AgreedInv'
      OBVIOUS
    <2>1. CASE UNCHANGED vars
      BY <2>1, AgreedFrame DEF vars, taskVars, logVars, procVars
    <2> QED  BY <2>1, AgreedStart, AgreedResume, AgreedRest
             DEF IInv, Next, CrashStep
  <1> QED  BY <1>1, <1>2, Inductive, PTL DEF Spec

\* Whatever counters, stale acceptances, crashes and retries came before, an
\* artifact on the chain has the terms both embedded acceptances sign
\* (checkAcceptTerms, commit, recover)
THEOREM AgreedTerms == Spec => []CommittedOnAgreedTerms
  <1>1. IInv /\ AgreedInv => CommittedOnAgreedTerms
    <2> SUFFICES ASSUME IInv, AgreedInv, NEW c \in Cids, OnLedger("COMMITMENT", c)
                 PROVE  \A s \in Sides : intent[c].signed[s] = intent[c].terms
      BY DEF CommittedOnAgreedTerms
    <2>1. c < nextCid
      BY DEF IInv, TypeOK, FreshInv, BookInv, Settled, Cids
    <2> QED  BY <2>1 DEF AgreedInv
  <1> QED  BY <1>1, Inductive, AgreedAlways, PTL

----------------------------------------------------------------------------
(* VenueCommit implements CommitPoint: safety                              *)

\* With no journal open, or one whose entry is not written, nothing is owed
LEMMA NothingOwed ==
    ASSUME IInv, NEW c \in Cids, section.cid = c, section.step = "append",
           \/ section.kind = "COMMIT"
           \/ section.kind = "VOID" /\ ~OnLedger("VOID", c)
    PROVE  ~Point!Owed
  <1>1. ASSUME NEW d \in Cids
        PROVE  /\ OnLedger("COMMITMENT", d) <=> record[d] # "none"
               /\ OnLedger("VOID", d) <=> record[d] = "VOIDED"
    <2>1. CASE d # c
      BY <2>1, OnlyOwnJournal DEF IInv, BookInv, Settled
    <2>2. CASE d = c
      BY <2>2, AtWork DEF CommitOpen, VoidOpen, Doing
    <2> QED  BY <2>1, <2>2
  <1> QED  BY <1>1 DEF Point!Owed

\* A step after which CommitPoint sees what it saw before is a stutter of it
LEMMA PointStutters ==
    ASSUME \A c \in Cids : /\ OnLedger("COMMITMENT", c)' <=> OnLedger("COMMITMENT", c)
                           /\ record'[c] # "none" <=> record[c] # "none"
                           /\ OnLedger("VOID", c)' <=> OnLedger("VOID", c)
                           /\ record'[c] = "VOIDED" <=> record[c] = "VOIDED"
    PROVE  UNCHANGED Point!vars
  BY DEF Point!vars

\* The write that decides, and the snapshot that carries a decision out, are
\* steps of CommitPoint; every other step of a transaction is a stutter of it
LEMMA PointSection ==
    ASSUME IInv, SectionStep PROVE [Point!Next]_(Point!vars)
  <1> TypeOK
    BY SMTT(60) DEF IInv
  <1>0. section.step # "none"
    BY DEF SectionStep, AppendEntry, ApplyGuarantee, ApplyExposure, Sides,
           SnapshotCommit, SnapshotVoid, SnapshotLifecycle, Cleanup
  <1>1. PICK c \in Cids : c = section.cid
    BY <1>0, SectionFields
  <1>2. CASE AppendEntry
    <2> DEFINE k == section.kind
               e == [type |-> EntryType(k), cid |-> c]
    <2>1. /\ record' = record /\ section.step = "append"
          /\ ledger' = Append(ledger, e)
          /\ k \in {"COMMIT", "VOID"} \cup Events
      BY <1>0, <1>1, <1>2, SectionFields DEF AppendEntry, bookVars
    <2>2. e \in Entry
      BY <2>1 DEF EntryType, Entry, Events
    <2>3. \A type, d : e = [type |-> type, cid |-> d]
                         <=> type = EntryType(k) /\ d = c
      OBVIOUS
    <2> HIDE DEF e
    <2>4. \A type, d : OnLedger(type, d)' <=> OnLedger(type, d)
                                        \/ (type = EntryType(k) /\ d = c)
      BY <2>1, <2>2, <2>3, LedgerAppended
    <2>5. CASE k \in Events
      <3>1. k # "COMMITMENT" /\ k # "VOID" /\ EntryType(k) = k
        BY <2>5 DEF Events, EntryType
      <3> QED  BY <2>1, <2>4, <3>1, PointStutters
    <2>6. CASE k = "COMMIT"
      <3>1. ~Point!Owed
        BY <1>1, <2>1, <2>6, NothingOwed
      <3>2. ~OnLedger("COMMITMENT", c)
        BY <1>0, <1>1, <2>1, <2>6, AtWork DEF CommitOpen, Doing
      <3>3. \A d : /\ OnLedger("COMMITMENT", d)' <=> OnLedger("COMMITMENT", d) \/ d = c
                   /\ OnLedger("VOID", d)' <=> OnLedger("VOID", d)
        BY <2>4, <2>6 DEF EntryType
      <3>4. Point!Decide(c)
        BY <2>1, <3>1, <3>2, <3>3 DEF Point!Decide
      <3> QED  BY <3>4 DEF Point!Next
    <2>7. CASE k = "VOID"
      <3>1. \A d : /\ OnLedger("COMMITMENT", d)' <=> OnLedger("COMMITMENT", d)
                   /\ OnLedger("VOID", d)' <=> OnLedger("VOID", d) \/ d = c
        BY <2>4, <2>7 DEF EntryType
      <3>2. CASE OnLedger("VOID", c)
        BY <2>1, <3>1, <3>2, PointStutters
      <3>3. CASE ~OnLedger("VOID", c)
        <4>1. ~Point!Owed
          BY <1>1, <2>1, <2>7, <3>3, NothingOwed
        <4>2. record[c] # "none"
          BY <1>0, <1>1, <2>1, <2>7, AtWork DEF VoidOpen
        <4>3. Point!DecideVoid(c)
          BY <2>1, <3>1, <3>3, <4>1, <4>2 DEF Point!DecideVoid
        <4> QED  BY <4>3 DEF Point!Next
      <3> QED  BY <3>2, <3>3
    <2> QED  BY <2>1, <2>5, <2>6, <2>7
  <1>3. CASE \/ ApplyGuarantee \/ (\E s \in Sides : ApplyExposure(s)) \/ Cleanup
    <2>1. UNCHANGED <<record, ledger>>
      BY <1>3 DEF ApplyGuarantee, ApplyExposure, Cleanup, bookVars, logVars
    <2> QED  BY <2>1, LedgerKept, PointStutters
  <1>4. CASE SnapshotLifecycle
    <2>1. /\ \A d \in Cids : d # c => record'[d] = record[d]
          /\ record'[c] = To(section.kind) /\ record[c] = From(section.kind)
          /\ section.kind \in Events /\ ledger' = ledger
      BY <1>0, <1>1, <1>4, AtWork DEF SnapshotLifecycle, TypeOK, logVars
    <2>2. \A d \in Cids : /\ record'[d] # "none" <=> record[d] # "none"
                          /\ record'[d] = "VOIDED" <=> record[d] = "VOIDED"
      BY <2>1 DEF From, To, Events
    <2> QED  BY <2>1, <2>2, LedgerKept, PointStutters
  <1>5. CASE SnapshotCommit \/ SnapshotVoid
    <2>1. /\ ledger' = ledger /\ section.step = "snapshot"
          /\ \A d \in Cids : d # c => record'[d] = record[d]
          /\ \/ /\ section.kind = "COMMIT"
                /\ record'[c] = IF record[c] = "none" THEN "ACTIVE" ELSE record[c]
             \/ section.kind = "VOID" /\ record'[c] = "VOIDED"
      BY <1>1, <1>5 DEF SnapshotCommit, SnapshotVoid, TypeOK, logVars
    <2>2. \A type, d : OnLedger(type, d)' <=> OnLedger(type, d)
      BY <2>1, LedgerKept
    <2>3. \A d \in Cids : /\ record'[d] # "none" <=> OnLedger("COMMITMENT", d)
                          /\ record'[d] = "VOIDED" <=> OnLedger("VOID", d)
      <3> SUFFICES ASSUME NEW d \in Cids
                   PROVE  /\ record'[d] # "none" <=> OnLedger("COMMITMENT", d)
                          /\ record'[d] = "VOIDED" <=> OnLedger("VOID", d)
        OBVIOUS
      <3>1. CASE d # c
        BY <1>0, <1>1, <2>1, <3>1, OnlyOwnJournal DEF IInv, BookInv, Settled
      <3>2. CASE d = c
        BY <1>0, <1>1, <2>1, <3>2, AtWork DEF CommitOpen, VoidOpen, Doing
      <3> QED  BY <3>1, <3>2
    <2>4. CASE Point!Owed
      BY <2>2, <2>3, <2>4 DEF Point!Next, Point!Apply
    <2>5. CASE ~Point!Owed
      <3>1. \A d \in Cids : /\ OnLedger("COMMITMENT", d) <=> record[d] # "none"
                            /\ OnLedger("VOID", d) <=> record[d] = "VOIDED"
        BY <2>5 DEF Point!Owed
      <3> QED  BY <2>2, <2>3, <3>1, PointStutters
    <2> QED  BY <2>4, <2>5, SMTT(60)
  <1> QED  BY <1>2, <1>3, <1>4, <1>5 DEF SectionStep

\* Seen through the chain and the records every step of the venue is one of
\* CommitPoint or a stutter: one durable append decides, nothing is decided
\* while an earlier decision is not carried out, and no decision is undone
THEOREM RefinesCommitPoint == Spec => Point!Init /\ [][Point!Next]_(Point!vars)
  <1>1. Init => Point!Init
    BY DEF Init, Point!Init, OnLedger
  <1>2. IInv /\ [Next]_vars => [Point!Next]_(Point!vars)
    <2> SUFFICES ASSUME IInv, [Next]_vars PROVE [Point!Next]_(Point!vars)
      OBVIOUS
    <2>1. CASE SectionStep
      BY <2>1, PointSection
    <2>2. CASE \/ Start \/ (\E h \in Handlers : Resume(h))
               \/ CrashStep \/ Recover \/ UNCHANGED vars
      <3>1. UNCHANGED <<record, ledger>>
        <4>1. CASE Start
          BY <4>1 DEF Start, Tender, Message, Timeout, Lifecycle,
                      ReleaseGuarantee, VoidNow, CheckStart, bookVars, logVars
        <4>2. ASSUME NEW h \in Handlers, Resume(h)
              PROVE  UNCHANGED <<record, ledger>>
          BY <4>2 DEF Resume, TenderRefuse, TenderAdmit, AdvanceFail,
                      RejectResume, CounterResume, AcceptLost, AcceptResume,
                      CommitFail, CommitPrepare, CheckPass, CheckVoid,
                      bookVars, logVars
        <4>3. CASE CrashStep \/ Recover
          BY <4>3 DEF CrashStep, Crash, CrashInAccept, Recover, RecoverJournal,
                      RecoverRetry, RecoverFinish, bookVars, logVars
        <4>4. CASE UNCHANGED vars
          BY <4>4 DEF vars, bookVars, logVars
        <4> QED  BY <2>2, <4>1, <4>2, <4>3, <4>4
      <3> QED  BY <3>1, LedgerKept, PointStutters
    <2> QED  BY <2>1, <2>2 DEF Next, CrashStep
  <1> QED  BY <1>1, <1>2, Inductive, PTL DEF Spec

----------------------------------------------------------------------------
(* Which steps open, end, record and commit                                *)

\* An intent is written once: no step changes that of a commitment id drawn
LEMMA IntentKept ==
    ASSUME IInv, Next, NEW c \in Cids, intent[c] # NoIntent \/ record[c] # "none"
    PROVE  intent'[c] = intent[c]
  <1>1. UNCHANGED intent \/ \E h \in Handlers : CommitPrepare(h)
    <2>1. CASE Start
      BY <2>1 DEF Start, Tender, Message, Timeout, Lifecycle, ReleaseGuarantee,
                  VoidNow, CheckStart, logVars
    <2>2. ASSUME NEW h \in Handlers, Resume(h), ~CommitPrepare(h)
          PROVE  UNCHANGED intent
      BY <2>2 DEF Resume, TenderRefuse, TenderAdmit, AdvanceFail, RejectResume,
                  CounterResume, AcceptLost, AcceptResume, CommitFail, CheckPass,
                  CheckVoid, logVars
    <2>3. CASE SectionStep
      BY <2>3 DEF SectionStep, AppendEntry, ApplyGuarantee, ApplyExposure,
                  SnapshotCommit, SnapshotVoid, SnapshotLifecycle, Cleanup, logVars
    <2>4. CASE CrashStep \/ Recover
      BY <2>4 DEF CrashStep, Crash, CrashInAccept, Recover, RecoverJournal,
                  RecoverRetry, RecoverFinish, logVars
    <2> QED  BY <2>1, <2>2, <2>3, <2>4 DEF Next, CrashStep
  <1>2. ASSUME NEW h \in Handlers, CommitPrepare(h) PROVE intent'[c] = intent[c]
    <2>1. c # nextCid
      BY <1>2 DEF CommitPrepare, IInv, FreshInv, TypeOK
    <2> QED  BY <1>2, <2>1 DEF CommitPrepare, IInv, TypeOK
  <1> QED  BY <1>1, <1>2

\* Only a tender that is admitted opens a negotiation
LEMMA OpenedByTender ==
    ASSUME TypeOK, Next, NEW t \in Tasks, ~Open(t), Open(t)'
    PROVE  \E h \in Handlers : TenderAdmit(h) /\ calls[h].task = t
  <1>1. ~Start
    BY ZenonT(60) DEF Start, Tender, Message, Timeout, Terminate, Lifecycle, ReleaseGuarantee,
           VoidNow, CheckStart, taskVars, TypeOK, Open
  <1>2. ~SectionStep
    <2>1. ~SnapshotCommit
      BY DEF SnapshotCommit, Loses, TypeOK, Open
    <2> QED  BY <2>1 DEF SectionStep, AppendEntry, ApplyGuarantee, ApplyExposure,
                         SnapshotVoid, SnapshotLifecycle, Cleanup, taskVars, Open
  <1>3. ~CrashStep /\ ~Recover
    BY ZenonT(60) DEF CrashStep, Crash, CrashInAccept, Recover, RecoverJournal,
           RecoverRetry, RecoverFinish, taskVars, TypeOK, Open
  <1>4. PICK h \in Handlers : Resume(h)
    BY <1>1, <1>2, <1>3 DEF Next, CrashStep
  <1>5. CASE TenderAdmit(h)
    <2>1. calls[h].task = t
      BY <1>5 DEF TenderAdmit, TypeOK, Open
    <2> QED  BY <1>5, <2>1
  <1>6. CASE ~TenderAdmit(h)
    BY <1>4, <1>6 DEF Resume, TenderRefuse, AdvanceFail, RejectResume,
           CounterResume, AcceptLost, AcceptResume, CommitFail, CommitPrepare,
           CheckPass, CheckVoid, Fail, Terminate, taskVars, TypeOK, Open
  <1> QED  BY <1>5, <1>6

\* The steps that write a commitment record
RecordStep == SnapshotCommit \/ SnapshotVoid \/ SnapshotLifecycle

LEMMA RecordKept ==
    ASSUME Next, ~RecordStep
    PROVE  record' = record
  <1>1. CASE Start
    BY <1>1 DEF Start, Tender, Message, Timeout, Lifecycle, ReleaseGuarantee,
                VoidNow, CheckStart, bookVars
  <1>2. ASSUME NEW h \in Handlers, Resume(h) PROVE record' = record
    BY <1>2 DEF Resume, TenderRefuse, TenderAdmit, AdvanceFail, RejectResume,
                CounterResume, AcceptLost, AcceptResume, CommitFail,
                CommitPrepare, CheckPass, CheckVoid, bookVars
  <1>3. CASE SectionStep
    BY <1>3 DEF SectionStep, RecordStep, AppendEntry, ApplyGuarantee,
                ApplyExposure, Cleanup, bookVars
  <1>4. CASE CrashStep \/ Recover
    BY <1>4 DEF CrashStep, Crash, CrashInAccept, Recover, RecoverJournal,
                RecoverRetry, RecoverFinish, bookVars
  <1> QED  BY <1>1, <1>2, <1>3, <1>4 DEF Next, CrashStep

\* What a record step does to the records, and of which transaction it is
LEMMA RecordSteps ==
    ASSUME IInv, RecordStep
    PROVE  /\ section.cid \in Cids
           /\ \A d \in Cids : d # section.cid => record'[d] = record[d]
           /\ SnapshotCommit =>
                /\ journal[section.cid] = "COMMIT"
                /\ record[section.cid] \in {"none", "ACTIVE"}
                /\ record'[section.cid] = "ACTIVE"
           /\ SnapshotVoid =>
                /\ journal[section.cid] = "VOID"
                /\ record[section.cid] # "none"
                /\ record'[section.cid] = "VOIDED"
           /\ SnapshotLifecycle =>
                /\ journal[section.cid] = "none" /\ section.kind \in Events
                /\ record[section.cid] = From(section.kind)
                /\ record'[section.cid] = To(section.kind)
  <1> TypeOK
    BY SMTT(60) DEF IInv
  <1>1. section.step = "snapshot"
    BY DEF RecordStep, SnapshotCommit, SnapshotVoid, SnapshotLifecycle
  <1>2. PICK c \in Cids : c = section.cid
    BY <1>1, SectionFields
  <1>3. /\ section.kind = "COMMIT" => journal[c] = "COMMIT" /\ CommitOpen(c)
        /\ section.kind = "VOID" => journal[c] = "VOID" /\ VoidOpen(c)
        /\ section.kind \in Events => journal[c] = "none" /\ record[c] = From(section.kind)
    BY <1>1, <1>2, AtWork
  <1>4. CASE SnapshotCommit
    BY <1>2, <1>3, <1>4 DEF SnapshotCommit, SnapshotVoid, SnapshotLifecycle,
                            CommitOpen, TypeOK, Events
  <1>5. CASE SnapshotVoid
    BY <1>2, <1>3, <1>5, SMTT(60) DEF SnapshotCommit, SnapshotVoid, SnapshotLifecycle,
                            VoidOpen, TypeOK, Events
  <1>6. CASE SnapshotLifecycle
    BY <1>2, <1>3, <1>6 DEF SnapshotCommit, SnapshotVoid, SnapshotLifecycle,
                            TypeOK, Events
  <1> QED  BY <1>4, <1>5, <1>6 DEF RecordStep

\* A record is ACTIVE only after the snapshot of its commit
LEMMA ActivatedByCommit ==
    ASSUME IInv, Next, NEW c \in Cids, record'[c] = "ACTIVE", record[c] # "ACTIVE"
    PROVE  SnapshotCommit /\ c = section.cid
  <1>1. RecordStep
    BY RecordKept
  <1> QED  BY <1>1, RecordSteps DEF RecordStep, To, Events

----------------------------------------------------------------------------
(* The first commitment closes the load                                    *)

\* While a commitment is ACTIVE no other negotiation of its load is open, the
\* one whose tender was parked at its await when it was recorded included
\* (applyCommit, cancelSiblings, startNegotiation (b2))
THEOREM SiblingsClosed == Spec => []NoOpenSibling
  <1>1. Init => NoOpenSibling
    BY DEF Init, NoOpenSibling
  <1>2. ASSUME IInv, NoOpenSibling, Next, NEW c \in Cids, record'[c] = "ACTIVE",
               NEW u \in Tasks, Sibling(intent'[c].task, u), Open(u)'
        PROVE  FALSE
    <2>1. CASE record[c] = "ACTIVE"
      <3>1. intent'[c] = intent[c]
        BY <1>2, <2>1, IntentKept
      <3>2. ~Open(u)
        BY <1>2, <2>1, <3>1 DEF NoOpenSibling
      <3>3. PICK h \in Handlers : TenderAdmit(h) /\ calls[h].task = u
        BY <1>2, <3>2, OpenedByTender DEF IInv
      <3>4. ~Won(u)
        BY <3>3 DEF TenderAdmit, Admissible
      <3> QED  BY <1>2, <2>1, <3>1, <3>4 DEF Won, Sibling, SameLoad
    <2>2. CASE record[c] # "ACTIVE"
      <3>1. SnapshotCommit /\ c = section.cid
        BY <1>2, <2>2, ActivatedByCommit
      <3>2. intent' = intent
        BY <3>1 DEF SnapshotCommit, logVars
      <3> QED  BY <1>2, <3>1, <3>2
               DEF SnapshotCommit, Loses, Sibling, Open, IInv, TypeOK
    <2> QED  BY <2>1, <2>2
  <1>3. IInv /\ NoOpenSibling /\ [Next]_vars => NoOpenSibling'
    <2>1. CASE UNCHANGED vars
      BY <2>1 DEF NoOpenSibling, Open, vars, taskVars, bookVars, logVars
    <2> QED  BY <1>2, <2>1 DEF NoOpenSibling
  <1> QED  BY <1>1, <1>3, Inductive, PTL DEF Spec

----------------------------------------------------------------------------
(* An ended negotiation stays ended                                        *)

\* Ending a negotiation touches no other
LEMMA TerminateStates ==
    ASSUME TypeOK, NEW t \in Tasks, NEW st \in Terminal, NEW stat,
           Terminate(t, st, stat)
    PROVE  \A u \in Tasks : state'[u] = state[u] \/ (u = t /\ state'[u] \in Terminal)
  <1>1. state' = [state EXCEPT ![t] = st]
    BY DEF Terminate
  <1>2. state \in [Tasks -> States]
    BY DEF TypeOK
  <1> QED  BY <1>1, <1>2

LEMMA TaskInit == Init => TaskInv
  BY DEF Init, TaskInv, Carrying, NoCall

\* A step that answers no tender, takes none and moves no task back to "none"
LEMMA TaskFrame ==
    ASSUME TypeOK, TaskInv,
           \A u \in Tasks : \/ state'[u] = state[u]
                            \/ state[u] # "none" /\ state'[u] # "none",
           \A h \in Handlers :
              \/ calls'[h] = calls[h]
              \/ calls'[h].kind \in {"none", "CHECK"}
              \/ calls'[h].kind = "COMMIT" /\ calls'[h].task \in Tasks
                    /\ state[calls'[h].task] # "none",
           \A c \in Cids :
              \/ intent'[c] = intent[c]
              \/ intent'[c].task \in Tasks /\ state[intent'[c].task] # "none"
    PROVE  TaskInv'
  <1>1. \A u \in Tasks : state'[u] = "none" <=> state[u] = "none"
    OBVIOUS
  <1>2. \A h \in Handlers : Carrying(h, {"TENDER"})' =>
            Carrying(h, {"TENDER"}) /\ calls'[h] = calls[h] /\ calls[h].task \in Tasks
    BY CallFields DEF Carrying
  <1>3. ASSUME NEW h \in Handlers,
               Carrying(h, {"COUNTER", "ACCEPT", "REJECT", "COMMIT"})'
        PROVE  state'[calls'[h].task] # "none"
    <2>1. CASE calls'[h] = calls[h]
      <3>1. calls[h].task \in Tasks /\ state[calls[h].task] # "none"
        BY <1>3, <2>1, CallFields DEF Carrying, TaskInv
      <3> QED  BY <1>1, <2>1, <3>1
    <2>2. CASE calls'[h] # calls[h]
      BY <1>1, <1>3, <2>2 DEF Carrying
    <2> QED  BY <2>1, <2>2
  <1>4. ASSUME NEW c \in Cids, intent'[c] # NoIntent
        PROVE  state'[intent'[c].task] # "none"
    <2>1. CASE intent'[c] = intent[c]
      <3>1. intent[c].task \in Tasks /\ state[intent[c].task] # "none"
        BY <1>4, <2>1 DEF TaskInv, TypeOK, Intent
      <3> QED  BY <1>1, <2>1, <3>1
    <2>2. CASE intent'[c] # intent[c]
      BY <1>1, <2>2
    <2> QED  BY <2>1, <2>2
  <1> QED  BY <1>1, <1>2, <1>3, <1>4 DEF TaskInv, Carrying

LEMMA TaskStart == ASSUME TypeOK, TaskInv, Start PROVE TaskInv'
  <1>1. ASSUME NEW t \in Tasks, NEW o \in Offers, NEW h \in Handlers,
               Tender(t, o, h)
        PROVE  TaskInv'
    <2>1. /\ state' = state /\ intent' = intent /\ state[t] = "none"
          /\ \A g \in Handlers : ~(calls[g].kind = "TENDER" /\ calls[g].task = t)
          /\ \A g \in Handlers : g # h => calls'[g] = calls[g]
          /\ calls'[h] = [kind |-> "TENDER", task |-> t, terms |-> o]
      BY <1>1 DEF Tender, Park, TypeOK, taskVars, logVars
    <2>2. calls'[h].kind = "TENDER" /\ calls'[h].task = t
      BY <2>1
    <2> QED  BY <2>1, <2>2 DEF TaskInv, Carrying
  <1>2. ASSUME NEW t \in Tasks, NEW s \in Sides,
               NEW kind \in {"COUNTER", "ACCEPT", "REJECT"},
               NEW o \in Terms, NEW h \in Handlers, Message(t, s, kind, o, h)
        PROVE  TaskInv'
    <2>1. /\ state' = state /\ intent' = intent /\ state[t] = "working"
          /\ \A g \in Handlers : g # h => calls'[g] = calls[g]
          /\ calls'[h] = [kind |-> kind, task |-> t, by |-> s, terms |-> o]
      BY <1>2 DEF Message, Park, Open, TypeOK, taskVars, logVars
    <2>2. calls'[h].kind = kind /\ calls'[h].task = t
      BY <2>1
    <2> QED  BY <2>1, <2>2 DEF TaskInv, Carrying
  <1>3. ASSUME NEW t \in Tasks, Timeout(t) PROVE TaskInv'
    <2>1. \A u \in Tasks : \/ state'[u] = state[u]
                           \/ state[u] # "none" /\ state'[u] # "none"
      BY <1>3, TerminateStates DEF Timeout, Open, Terminal
    <2>2. UNCHANGED <<calls, intent>>
      BY <1>3 DEF Timeout, logVars, procVars
    <2> QED  BY <2>1, <2>2, TaskFrame
  <1>4. ASSUME NEW c \in Cids, NEW h \in Handlers, CheckStart(c, h)
        PROVE  TaskInv'
    <2>1. /\ UNCHANGED <<state, intent>>
          /\ \A g \in Handlers : g # h => calls'[g] = calls[g]
          /\ calls'[h].kind = "CHECK"
      BY <1>4 DEF CheckStart, Park, TypeOK, taskVars, logVars
    <2> QED  BY <2>1, TaskFrame
  <1>5. CASE \/ \E c \in Cids, e \in Events : Lifecycle(c, e)
             \/ \E c \in Cids : ReleaseGuarantee(c)
             \/ \E c \in Cids : VoidNow(c)
    <2>1. UNCHANGED <<state, intent, calls>>
      BY <1>5 DEF Lifecycle, ReleaseGuarantee, VoidNow, taskVars, logVars, procVars
    <2> QED  BY <2>1, TaskFrame
  <1> QED  BY <1>1, <1>2, <1>3, <1>4, <1>5 DEF Start

LEMMA TaskResume ==
    ASSUME TypeOK, TaskInv, NEW h \in Handlers, Resume(h) PROVE TaskInv'
  <1>1. CASE TenderRefuse(h) \/ TenderAdmit(h)
    <2>1. /\ calls[h].task \in Tasks /\ state[calls[h].task] = "none"
          /\ \A g \in Handlers : calls[g].kind = "TENDER" /\ g # h =>
                 calls[g].task # calls[h].task
          /\ \A g \in Handlers : g # h => calls'[g] = calls[g]
          /\ calls'[h] = NoCall /\ intent' = intent
          /\ \A u \in Tasks : u # calls[h].task => state'[u] = state[u]
          /\ state'[calls[h].task] # "none"
      BY <1>1, CallFields DEF TenderRefuse, TenderAdmit, Resumes, Return, TypeOK,
                  TaskInv, Carrying, logVars
    <2>2. \A g \in Handlers : calls[g].kind \in {"TENDER", "COUNTER", "ACCEPT",
             "REJECT", "COMMIT"} => calls[g].task \in Tasks
      BY CallFields
    <2>3. \A c \in Cids : intent[c] # NoIntent => intent[c].task \in Tasks
      BY DEF TypeOK, Intent
    <2> QED  BY <2>1, <2>2, <2>3 DEF TaskInv, Carrying, NoCall
  <1>2. CASE AdvanceFail(h) \/ RejectResume(h) \/ AcceptLost(h) \/ CommitFail(h)
    <2>1. /\ calls[h].task \in Tasks /\ state[calls[h].task] # "none"
          /\ \A u \in Tasks : \/ state'[u] = state[u]
                              \/ u = calls[h].task /\ state'[u] \in Terminal
      BY <1>2, CallFields, TerminateStates
         DEF AdvanceFail, RejectResume, AcceptLost, CommitFail, Fail, Terminal,
             Resumes, TaskInv, Carrying
    <2>2. /\ intent' = intent
          /\ \A g \in Handlers : calls'[g] \in {calls[g], NoCall}
      BY <1>2 DEF AdvanceFail, RejectResume, AcceptLost, CommitFail, Return,
                  TypeOK, logVars
    <2> QED  BY <2>1, <2>2, TaskFrame DEF Terminal, NoCall
  <1>3. CASE AcceptResume(h)
    <2>1. /\ calls[h].task \in Tasks /\ state[calls[h].task] # "none"
          /\ UNCHANGED <<state, intent>>
      BY <1>3, CallFields DEF AcceptResume, Accepts, Resumes, TaskInv, Carrying, logVars
    <2>2. \A g \in Handlers : \/ calls'[g] \in {calls[g], NoCall}
                              \/ calls'[g] = [kind |-> "COMMIT",
                                  task |-> calls[h].task, terms |-> calls[h].terms]
      BY <1>3 DEF AcceptResume, Return, TypeOK
    <2> QED  BY <2>1, <2>2, TaskFrame DEF NoCall
  <1>4. CASE CommitPrepare(h)
    <2>1. /\ calls[h].task \in Tasks /\ state[calls[h].task] # "none"
          /\ state' = state
          /\ \A g \in Handlers : calls'[g] \in {calls[g], NoCall}
      BY <1>4, CallFields, SMTT(60) DEF CommitPrepare, Resumes, Return, TypeOK, TaskInv,
                              Carrying, taskVars
    <2>2. \A c \in Cids : intent'[c] = intent[c] \/ intent'[c].task = calls[h].task
      BY <1>4 DEF CommitPrepare, TypeOK
    <2> QED  BY <2>1, <2>2, TaskFrame DEF NoCall
  <1>5. CASE CounterResume(h) \/ CheckPass(h) \/ CheckVoid(h)
    <2>1. /\ UNCHANGED <<state, intent>>
          /\ \A g \in Handlers : calls'[g] \in {calls[g], NoCall}
      BY <1>5 DEF CounterResume, CheckPass, CheckVoid, Return, TypeOK,
                  taskVars, logVars
    <2> QED  BY <2>1, TaskFrame DEF NoCall
  <1> QED  BY <1>1, <1>2, <1>3, <1>4, <1>5 DEF Resume

\* The task of a commitment that is recorded, or begun, has been tendered
LEMMA DrawnIsTendered ==
    ASSUME IInv, AgreedInv, TaskInv, NEW c \in Cids,
           record[c] # "none" \/ journal[c] # "none"
    PROVE  /\ intent[c] # NoIntent /\ intent[c] \in Intent
           /\ intent[c].task \in Tasks /\ state[intent[c].task] # "none"
  <1>1. c < nextCid
    BY DEF IInv, FreshInv, TypeOK, Cids
  <1>2. intent[c] # NoIntent /\ intent[c] \in Intent
    BY <1>1 DEF AgreedInv, IInv, TypeOK
  <1> QED  BY <1>2 DEF TaskInv, Intent

LEMMA TaskRest ==
    ASSUME IInv, AgreedInv, TaskInv, SectionStep \/ CrashStep \/ Recover
    PROVE  TaskInv'
  <1> TypeOK
    BY DEF IInv
  <1>1. CASE SnapshotCommit
    <2>1. /\ section.cid \in Cids /\ journal[section.cid] = "COMMIT"
      BY <1>1, RecordSteps DEF RecordStep
    <2>2. state[intent[section.cid].task] # "none"
      BY <2>1, DrawnIsTendered
    <2>3. \A u \in Tasks : \/ state'[u] = state[u]
                           \/ state[u] # "none" /\ state'[u] # "none"
      BY <1>1, <2>2 DEF SnapshotCommit, Loses, Open
    <2>4. UNCHANGED <<calls, intent>>
      BY <1>1 DEF SnapshotCommit, logVars
    <2> QED  BY <2>3, <2>4, TaskFrame
  <1>2. CASE SectionStep /\ ~SnapshotCommit
    <2>1. UNCHANGED <<state, calls, intent>>
      BY <1>2 DEF SectionStep, AppendEntry, ApplyGuarantee, ApplyExposure,
                  SnapshotVoid, SnapshotLifecycle, Cleanup, taskVars, logVars
    <2> QED  BY <2>1, TaskFrame, SMTT(60)
  <1>3. CASE CrashStep
    <2>1. UNCHANGED <<state, intent>> /\ \A h \in Handlers : calls'[h] = NoCall
      BY <1>3 DEF CrashStep, Crash, CrashInAccept, Die, taskVars, logVars
    <2> QED  BY <2>1, TaskFrame DEF NoCall
  <1>4. ASSUME NEW c \in Cids, RecoverJournal(c) PROVE TaskInv'
    BY <1>4, TaskFrame DEF RecoverJournal, taskVars
  <1>5. ASSUME NEW t \in Tasks, NEW h \in Handlers, RecoverRetry(t, h)
        PROVE  TaskInv'
    <2>1. /\ UNCHANGED <<state, intent>> /\ state[t] = "working"
          /\ \A g \in Handlers : g # h => calls'[g] = calls[g]
          /\ calls'[h] = [kind |-> "COMMIT", task |-> t,
                          terms |-> accepted[t]["carrier"]]
      BY <1>5 DEF TypeOK, RecoverRetry, Retried, Open, Park, taskVars, logVars
    <2> QED  BY <2>1, TaskFrame
  <1>6. CASE RecoverFinish
    <2>1. \A u \in Tasks : \/ state'[u] = state[u]
                           \/ state[u] # "none" /\ state'[u] # "none"
      BY <1>6 DEF RecoverFinish, Loses, Open
    <2>2. UNCHANGED <<calls, intent>>
      BY <1>6 DEF RecoverFinish, logVars
    <2> QED  BY <2>1, <2>2, TaskFrame
  <1> QED  BY <1>1, <1>2, <1>3, <1>4, <1>5, <1>6 DEF Recover

LEMMA TaskAlways == Spec => []TaskInv
  <1>1. IInv /\ AgreedInv /\ TaskInv /\ [Next]_vars => TaskInv'
    <2> SUFFICES ASSUME IInv, AgreedInv, TaskInv, [Next]_vars PROVE TaskInv'
      OBVIOUS
    <2>1. CASE UNCHANGED vars
      BY <2>1 DEF TaskInv, Carrying, vars, taskVars, logVars, procVars
    <2> QED  BY <2>1, TaskStart, TaskResume, TaskRest DEF IInv, Next, CrashStep
  <1> QED  BY <1>1, TaskInit, Inductive, AgreedAlways, PTL DEF Spec

\* A negotiation that is rejected, canceled, failed or committed is never open
\* again: not by a tender or an answer parked at its await meanwhile, nor by
\* what recovery retries (startNegotiation, advance, commit, recover)
THEOREM EndedStaysEnded == Spec => TerminalNeverReopens
  <1>1. ASSUME IInv, AgreedInv, TaskInv, Next, NEW t \in Tasks, state[t] \in Terminal
        PROVE  state'[t] \in Terminal
    <2> TypeOK /\ state[t] \notin {"none", "working"}
      BY <1>1 DEF IInv, Terminal
    <2>1. CASE Start
      BY <1>1, <2>1, TerminateStates
         DEF Start, Tender, Message, Timeout, Lifecycle, ReleaseGuarantee, VoidNow,
             CheckStart, taskVars, Terminal
    <2>2. ASSUME NEW h \in Handlers, Resume(h) PROVE state'[t] \in Terminal
      <3>1. CASE TenderRefuse(h) \/ TenderAdmit(h)
        <4>1. calls[h].task # t
          BY <3>1, <1>1 DEF TenderRefuse, TenderAdmit, Resumes, TaskInv, Carrying
        <4> QED  BY <1>1, <3>1, <4>1 DEF TenderRefuse, TenderAdmit, TypeOK
      <3>2. CASE AdvanceFail(h) \/ RejectResume(h) \/ AcceptLost(h) \/ CommitFail(h)
        <4>1. calls[h].task \in Tasks
          BY <3>2, CallFields DEF AdvanceFail, RejectResume, AcceptLost, CommitFail,
                                  Resumes
        <4> QED  BY <1>1, <3>2, <4>1, TerminateStates
                 DEF AdvanceFail, RejectResume, AcceptLost, CommitFail, Fail, Terminal
      <3> QED  BY <1>1, <2>2, <3>1, <3>2
               DEF Resume, CounterResume, AcceptResume, CommitPrepare, CheckPass,
                   CheckVoid, taskVars
    <2>3. CASE SnapshotCommit
      BY <1>1, <2>3, SMTT(60) DEF SnapshotCommit, Loses, Open, Terminal
    <2>4. CASE SectionStep /\ ~SnapshotCommit
      BY <1>1, <2>4 DEF SectionStep, AppendEntry, ApplyGuarantee, ApplyExposure,
                        SnapshotVoid, SnapshotLifecycle, Cleanup, taskVars
    <2>5. CASE CrashStep \/ Recover
      BY <1>1, <2>5 DEF CrashStep, Crash, CrashInAccept, Recover, RecoverJournal,
                        RecoverRetry, RecoverFinish, taskVars, Terminal
    <2> QED  BY <1>1, <2>1, <2>2, <2>3, <2>4, <2>5 DEF Next, CrashStep
  <1>2. IInv /\ AgreedInv /\ TaskInv /\ [Next]_vars =>
          [\A t \in Tasks : state[t] \in Terminal => state'[t] \in Terminal]_vars
    BY <1>1
  <1> QED  BY <1>2, Inductive, AgreedAlways, TaskAlways, PTL
           DEF Spec, TerminalNeverReopens

----------------------------------------------------------------------------
(* A commitment is decided once and told once                              *)

\* Two appends to the chain: what was there stays where it was
LEMMA PositionsKept ==
    ASSUME UNCHANGED ledger
    PROVE  \A type, c : Positions(type, c)' = Positions(type, c)
  BY DEF Positions

LEMMA PositionsAppended ==
    ASSUME TypeOK, NEW e \in Entry, ledger' = Append(ledger, e)
    PROVE  /\ Len(ledger) \in Nat
           /\ \A type, c : \A i :
                i \in Positions(type, c)' <=>
                  \/ i \in Positions(type, c)
                  \/ i = Len(ledger) + 1 /\ e = [type |-> type, cid |-> c]
           /\ \A type, c : \A i \in Positions(type, c) : i \in 1 .. Len(ledger)
  <1>1. /\ Len(ledger) \in Nat /\ Len(ledger') = Len(ledger) + 1
        /\ ledger'[Len(ledger) + 1] = e
        /\ \A i \in 1 .. Len(ledger) : ledger'[i] = ledger[i]
    BY DEF TypeOK
  <1>2. \A i : i \in 1 .. Len(ledger') <=> i \in 1 .. Len(ledger) \/ i = Len(ledger) + 1
    BY <1>1
  <1>3. ASSUME NEW type, NEW c, NEW i
        PROVE  i \in Positions(type, c)' <=>
                  \/ i \in Positions(type, c)
                  \/ i = Len(ledger) + 1 /\ e = [type |-> type, cid |-> c]
    <2>1. i \in Positions(type, c)' <=>
            i \in 1 .. Len(ledger') /\ ledger'[i] = [type |-> type, cid |-> c]
      BY DEF Positions
    <2>2. i \in Positions(type, c) <=>
            i \in 1 .. Len(ledger) /\ ledger[i] = [type |-> type, cid |-> c]
      BY DEF Positions
    <2>3. Len(ledger) + 1 \notin 1 .. Len(ledger)
      BY <1>1
    <2> QED  BY <1>1, <1>2, <2>1, <2>2, <2>3
  <1>4. \A type, c : \A i \in Positions(type, c) : i \in 1 .. Len(ledger)
    BY DEF Positions
  <1> QED  BY <1>1, <1>3, <1>4

LEMMA OnLedgerIsPosition ==
    \A type, c : OnLedger(type, c) <=> \E i : i \in Positions(type, c)
  BY DEF OnLedger, Positions

\* The write of a transaction to the chain, and of which commitment it tells
LEMMA Appends ==
    ASSUME IInv, AppendEntry
    PROVE  /\ section.cid \in Cids /\ section.step = "append"
           /\ section.kind \in {"COMMIT", "VOID"} \cup Events
           /\ [type |-> EntryType(section.kind), cid |-> section.cid] \in Entry
           /\ ledger' = Append(ledger, [type |-> EntryType(section.kind),
                                        cid |-> section.cid])
           /\ section.kind = "COMMIT" => ~OnLedger("COMMITMENT", section.cid)
           /\ section.kind # "COMMIT" => OnLedger("COMMITMENT", section.cid)
           /\ section.kind \in Events => record[section.cid] = From(section.kind)
  <1> TypeOK
    BY DEF IInv
  <1>1. section.step = "append"
    BY DEF AppendEntry
  <1>2. PICK c \in Cids : c = section.cid
    BY <1>1, SectionFields
  <1>3. /\ section.kind = "COMMIT" => CommitOpen(c)
        /\ section.kind = "VOID" => VoidOpen(c)
        /\ section.kind \in Events => Settled(c) /\ record[c] = From(section.kind)
    BY <1>1, <1>2, AtWork
  <1>4. section.kind \in {"COMMIT", "VOID"} \cup Events
    BY <1>1, SectionFields
  <1>5. section.kind \in Events => OnLedger("COMMITMENT", c)
    BY <1>3 DEF Settled, From, Events
  <1>6. section.kind = "VOID" => OnLedger("COMMITMENT", c)
    BY <1>3 DEF VoidOpen
  <1>7. section.kind = "COMMIT" => ~OnLedger("COMMITMENT", c)
    BY <1>1, <1>2, <1>3 DEF CommitOpen, Doing
  <1>8. [type |-> EntryType(section.kind), cid |-> c] \in Entry
    BY <1>4 DEF Entry, EntryType, Events
  <1> QED  BY <1>1, <1>2, <1>3, <1>4, <1>5, <1>6, <1>7, <1>8 DEF AppendEntry

LEMMA LedgerKeptUnlessAppended ==
    ASSUME Next, ~AppendEntry
    PROVE  ledger' = ledger
  <1>1. CASE Start
    BY <1>1 DEF Start, Tender, Message, Timeout, Lifecycle, ReleaseGuarantee,
                VoidNow, CheckStart, logVars
  <1>2. ASSUME NEW h \in Handlers, Resume(h) PROVE ledger' = ledger
    BY <1>2 DEF Resume, TenderRefuse, TenderAdmit, AdvanceFail, RejectResume,
                CounterResume, AcceptLost, AcceptResume, CommitFail,
                CommitPrepare, CheckPass, CheckVoid, logVars
  <1>3. CASE SectionStep
    BY <1>3 DEF SectionStep, ApplyGuarantee, ApplyExposure, SnapshotCommit,
                SnapshotVoid, SnapshotLifecycle, Cleanup, logVars
  <1>4. CASE CrashStep \/ Recover
    BY <1>4 DEF CrashStep, Crash, CrashInAccept, Recover, RecoverJournal,
                RecoverRetry, RecoverFinish, logVars
  <1> QED  BY <1>1, <1>2, <1>3, <1>4 DEF Next, CrashStep

LEMMA OnceAlways == Spec => []OnceInv
  <1>1. Init => OnceInv
    BY DEF Init, OnceInv, Positions
  <1>2. ASSUME IInv, OnceInv, AppendEntry PROVE OnceInv'
    <2> DEFINE n == Len(ledger) + 1
               e == [type |-> EntryType(section.kind), cid |-> section.cid]
    <2> TypeOK
      BY <1>2 DEF IInv
    <2>1. /\ e \in Entry /\ ledger' = Append(ledger, e)
          /\ section.kind = "COMMIT" => ~OnLedger("COMMITMENT", section.cid)
          /\ section.kind \in {"COMMIT", "VOID"} \cup Events
      BY <1>2, Appends
    <2>2. ASSUME NEW c \in Cids, NEW i \in Positions("COMMITMENT", c)',
                 NEW j \in Positions("COMMITMENT", c)'
          PROVE  i = j
      <3>1. CASE e = [type |-> "COMMITMENT", cid |-> c]
        <4>1. section.kind = "COMMIT" /\ section.cid = c
          BY <2>1, <3>1 DEF EntryType, Events
        <4>2. i \notin Positions("COMMITMENT", c) /\ j \notin Positions("COMMITMENT", c)
          BY <2>1, <4>1, OnLedgerIsPosition
        <4> HIDE DEF e
        <4> QED  BY <2>1, <2>2, <4>2, PositionsAppended
      <3>2. CASE e # [type |-> "COMMITMENT", cid |-> c]
        <4> HIDE DEF e
        <4>1. i \in Positions("COMMITMENT", c) /\ j \in Positions("COMMITMENT", c)
          BY <2>1, <2>2, <3>2, PositionsAppended
        <4> QED  BY <1>2, <4>1 DEF OnceInv
      <3> QED  BY <3>1, <3>2
    <2> QED  BY <2>2 DEF OnceInv
  <1>3. IInv /\ OnceInv /\ [Next]_vars => OnceInv'
    <2> SUFFICES ASSUME IInv, OnceInv, [Next]_vars, ~AppendEntry PROVE OnceInv'
      BY <1>2
    <2>1. ledger' = ledger
      BY LedgerKeptUnlessAppended DEF vars, logVars
    <2> QED  BY <2>1, PositionsKept DEF OnceInv
  <1> QED  BY <1>1, <1>3, Inductive, PTL DEF Spec

\* One notice more leaves those before it where they were
LEMMA AppendedNotice ==
    ASSUME NEW q \in Seq(Notice), NEW n \in Notice
    PROVE  /\ Append(q, n) \in Seq(Notice)
           /\ Len(q) \in Nat /\ Len(Append(q, n)) = Len(q) + 1
           /\ \A i \in 1 .. Len(q) : Append(q, n)[i] = q[i]
           /\ Append(q, n)[Len(q) + 1] = n
           /\ \A i : i \in 1 .. Len(Append(q, n)) <=>
                       i \in 1 .. Len(q) \/ i = Len(q) + 1
  <1>1. /\ Append(q, n) \in Seq(Notice)
        /\ Len(q) \in Nat /\ Len(Append(q, n)) = Len(q) + 1
        /\ \A i \in 1 .. Len(q) : Append(q, n)[i] = q[i]
        /\ Append(q, n)[Len(q) + 1] = n
    OBVIOUS
  <1> QED  BY <1>1

\* A step that tells of no commitment, begins no commit of an old id, and ends
\* no COMMITTED status that a commit journal relies on
LEMMA ToldFrame ==
    ASSUME TypeOK, ToldInv,
           \A t \in Tasks : \/ told'[t] = told[t]
                            \/ \E n \in Notice :
                                 n.type # "COMMITTED" /\ told'[t] = Append(told[t], n),
           \A c \in Cids : intent[c] # NoIntent =>
              /\ intent'[c] = intent[c]
              /\ journal'[c] = "COMMIT" =>
                   /\ journal[c] = "COMMIT"
                   /\ \/ status'[intent[c].task] = status[intent[c].task]
                      \/ status'[intent[c].task] = "COMMITTED"
    PROVE  ToldInv'
  <1> DEFINE T(t, i, c) == i \in 1 .. Len(told[t]) /\ Tells(told[t][i], "COMMITTED", c)
  <1>1. ASSUME NEW t \in Tasks, NEW i, NEW c
        PROVE  T(t, i, c)' <=> T(t, i, c)
    <2>1. CASE told'[t] = told[t]
      BY <2>1 DEF Tells
    <2>2. ASSUME NEW n \in Notice, n.type # "COMMITTED", told'[t] = Append(told[t], n)
          PROVE  T(t, i, c)' <=> T(t, i, c)
      <3>1. ~Tells(n, "COMMITTED", c)
        BY <2>2 DEF Tells
      <3>2. told[t] \in Seq(Notice)
        BY DEF TypeOK
      <3>3. /\ Len(told[t]) \in Nat
            /\ \A j \in 1 .. Len(told[t]) : told'[t][j] = told[t][j]
            /\ told'[t][Len(told[t]) + 1] = n
            /\ \A j : j \in 1 .. Len(told'[t]) <=>
                        j \in 1 .. Len(told[t]) \/ j = Len(told[t]) + 1
        BY <2>2, <3>2, AppendedNotice
      <3> QED  BY <3>1, <3>3 DEF Tells
    <2> QED  BY <2>1, <2>2
  <1>2. ASSUME NEW c \in Cids, NEW t \in Tasks, NEW i, T(t, i, c)'
        PROVE  /\ intent'[c] # NoIntent /\ intent'[c].task = t
               /\ journal'[c] = "COMMIT" => status'[t] = "COMMITTED"
               /\ \A j : T(t, j, c)' => i = j
    <2>1. T(t, i, c)
      BY <1>1, <1>2
    <2>2. /\ intent[c] # NoIntent /\ intent[c].task = t
          /\ journal[c] = "COMMIT" => status[t] = "COMMITTED"
          /\ \A j : T(t, j, c) => i = j
      BY <2>1 DEF ToldInv
    <2> QED  BY <1>1, <2>2
  <1> QED  BY <1>2, SMTT(60) DEF ToldInv

REFUSED == [type |-> "REFUSED", cid |-> 0]

LEMMA RefusedNotice == REFUSED \in Notice /\ REFUSED.type # "COMMITTED"
  BY Notices DEF REFUSED

\* Ending a negotiation tells its parties, once, that it is over
LEMMA TerminateTells ==
    ASSUME TypeOK, NEW t \in Tasks, NEW st, NEW stat, Terminate(t, st, stat)
    PROVE  \A u \in Tasks : told'[u] = IF u = t THEN Append(told[u], REFUSED) ELSE told[u]
  BY DEF Terminate, TypeOK, REFUSED

LEMMA ToldStart == ASSUME IInv, ToldInv, Start PROVE ToldInv'
  <1> TypeOK
    BY DEF IInv
  <1>1. \A c \in Cids : journal[c] = "none"
    <2>1. section = Idle /\ mode = "serving"
      BY DEF Start, Tender, Message, Timeout, Lifecycle, ReleaseGuarantee, VoidNow,
             CheckStart, CanStart
    <2> QED  BY <2>1, NoJournalAtRest DEF NoJournal
  <1>2. ASSUME NEW t \in Tasks, Timeout(t) PROVE ToldInv'
    <2>1. UNCHANGED <<intent, journal>>
      BY <1>2 DEF Timeout, logVars
    <2>2. \A u \in Tasks : told'[u] \in {told[u], Append(told[u], REFUSED)}
      BY <1>2, TerminateTells DEF Timeout
    <2> QED  BY <1>1, <2>1, <2>2, RefusedNotice, ToldFrame
  <1>3. ASSUME NEW c \in Cids, VoidNow(c) PROVE ToldInv'
    <2>1. /\ UNCHANGED <<intent, told>>
          /\ \A d \in Cids : journal'[d] # "COMMIT"
      BY <1>1, <1>3 DEF VoidNow, BeginVoid, TypeOK, taskVars
    <2> QED  BY <2>1, ToldFrame
  <1>4. CASE ~(\E t \in Tasks : Timeout(t)) /\ ~(\E c \in Cids : VoidNow(c))
    <2>1. UNCHANGED <<intent, told, journal>>
      BY <1>4 DEF Start, Tender, Message, Lifecycle, ReleaseGuarantee, CheckStart,
                  taskVars, logVars
    <2> QED  BY <1>1, <2>1, ToldFrame
  <1> QED  BY <1>2, <1>3, <1>4

LEMMA ToldResume ==
    ASSUME IInv, ToldInv, NEW h \in Handlers, Resume(h) PROVE ToldInv'
  <1> TypeOK
    BY DEF IInv
  <1>1. \A c \in Cids : journal[c] = "none"
    <2>1. section = Idle /\ calls[h] # NoCall
      BY DEF Resume, TenderRefuse, TenderAdmit, AdvanceFail, RejectResume,
             CounterResume, AcceptLost, AcceptResume, Accepts, CommitFail,
             CommitPrepare, CheckPass, CheckVoid, Resumes, NoCall
    <2> QED  BY <2>1, NoJournalAtRest DEF NoJournal, NoneInFlight
  <1>2. CASE AdvanceFail(h) \/ RejectResume(h) \/ AcceptLost(h) \/ CommitFail(h)
    <2>1. calls[h].task \in Tasks
      BY <1>2, CallFields DEF AdvanceFail, RejectResume, AcceptLost, CommitFail,
                              Resumes
    <2>2. UNCHANGED <<intent, journal>>
      BY <1>2 DEF AdvanceFail, RejectResume, AcceptLost, CommitFail, logVars
    <2>3. \A u \in Tasks : told'[u] \in {told[u], Append(told[u], REFUSED)}
      BY <1>2, <2>1, TerminateTells
         DEF AdvanceFail, RejectResume, AcceptLost, CommitFail, Fail
    <2> QED  BY <1>1, <2>2, <2>3, RefusedNotice, ToldFrame
  <1>3. CASE CommitPrepare(h)
    <2>1. /\ told' = told /\ nextCid \in Cids /\ intent[nextCid] = NoIntent
          /\ \A c \in Cids : c # nextCid => /\ intent'[c] = intent[c]
                                            /\ journal'[c] = "none"
      BY <1>1, <1>3 DEF CommitPrepare, TypeOK, IInv, FreshInv, Cids, taskVars
    <2> QED  BY <2>1, ToldFrame
  <1>4. CASE CheckVoid(h)
    <2>1. /\ UNCHANGED <<intent, told>>
          /\ \A d \in Cids : journal'[d] # "COMMIT"
      BY <1>1, <1>4 DEF CheckVoid, BeginVoid, TypeOK, taskVars
    <2> QED  BY <2>1, ToldFrame
  <1>5. CASE \/ TenderRefuse(h) \/ TenderAdmit(h) \/ CounterResume(h)
             \/ AcceptResume(h) \/ CheckPass(h)
    <2>1. UNCHANGED <<intent, told, journal>>
      BY <1>5 DEF TenderRefuse, TenderAdmit, CounterResume, AcceptResume, CheckPass,
                  taskVars, logVars
    <2> QED  BY <1>1, <2>1, ToldFrame
  <1> QED  BY <1>2, <1>3, <1>4, <1>5 DEF Resume

\* The snapshot of a commit tells of it unless it has been told
LEMMA ToldCommit ==
    ASSUME IInv, AgreedInv, TaskInv, ToldInv, SnapshotCommit PROVE ToldInv'
  <1> TypeOK
    BY DEF IInv
  <1>1. PICK c \in Cids : c = section.cid
    BY RecordSteps DEF RecordStep
  <1> DEFINE t == intent[c].task
             n == [type |-> "COMMITTED", cid |-> c]
             first == status[t] # "COMMITTED"
  <1>2. /\ journal[c] = "COMMIT" /\ intent[c] # NoIntent /\ t \in Tasks
        /\ UNCHANGED <<intent, journal>>
        /\ \A d \in Cids : d # c => journal[d] = "none"
    BY <1>1, RecordSteps, DrawnIsTendered
       DEF RecordStep, SnapshotCommit, logVars, IInv, JournalInv
  <1>3. /\ status'[t] = "COMMITTED"
        /\ told'[t] = IF first THEN Append(told[t], n) ELSE told[t]
        /\ \A u \in Tasks : u # t => told'[u] \in {told[u], Append(told[u], REFUSED)}
    BY <1>1, <1>2 DEF SnapshotCommit, Announce, Loses, Sibling, TypeOK, REFUSED
  <1> HIDE DEF t, n
  <1>4. CASE ~first
    <2>1. \A u \in Tasks : told'[u] \in {told[u], Append(told[u], REFUSED)}
      BY <1>3, <1>4
    <2>2. \A d \in Cids : journal'[d] = "COMMIT" => d = c
      BY <1>2
    <2> QED  BY <1>2, <1>3, <2>1, <2>2, RefusedNotice, ToldFrame DEF t
  <1>5. CASE first
    <2>1. ASSUME NEW u \in Tasks, NEW i \in 1 .. Len(told[u])
          PROVE  ~Tells(told[u][i], "COMMITTED", c)
      BY <1>2, <1>5 DEF ToldInv, t
    <2>2. ASSUME NEW u \in Tasks, NEW d, NEW i
          PROVE  i \in 1 .. Len(told'[u]) /\ Tells(told'[u][i], "COMMITTED", d) <=>
                    \/ i \in 1 .. Len(told[u]) /\ Tells(told[u][i], "COMMITTED", d)
                    \/ u = t /\ d = c /\ i = Len(told[u]) + 1
      <3>1. told[u] \in Seq(Notice) /\ n \in Notice /\ REFUSED \in Notice
        BY <1>1, Notices, RefusedNotice DEF TypeOK, n
      <3>2. ~Tells(REFUSED, "COMMITTED", d) /\ (Tells(n, "COMMITTED", d) <=> d = c)
        BY DEF Tells, REFUSED, n
      <3>3. Len(told[u]) \in Nat /\ Len(told[u]) + 1 \notin 1 .. Len(told[u])
        BY <3>1
      <3>4. CASE told'[u] = told[u] /\ u # t
        BY <3>4
      <3>5. CASE told'[u] = Append(told[u], REFUSED) /\ u # t
        <4>1. /\ \A j \in 1 .. Len(told[u]) : told'[u][j] = told[u][j]
              /\ told'[u][Len(told[u]) + 1] = REFUSED
              /\ \A j : j \in 1 .. Len(told'[u]) <=>
                          j \in 1 .. Len(told[u]) \/ j = Len(told[u]) + 1
          BY <3>1, <3>5, AppendedNotice
        <4> QED  BY <3>2, <3>3, <3>5, <4>1
      <3>6. CASE u = t
        <4>1. told'[u] = Append(told[u], n)
          BY <1>3, <1>5, <3>6
        <4>2. /\ \A j \in 1 .. Len(told[u]) : told'[u][j] = told[u][j]
              /\ told'[u][Len(told[u]) + 1] = n
              /\ \A j : j \in 1 .. Len(told'[u]) <=>
                          j \in 1 .. Len(told[u]) \/ j = Len(told[u]) + 1
          BY <3>1, <4>1, AppendedNotice
        <4> QED  BY <3>2, <3>3, <3>6, <4>2
      <3> QED  BY <1>3, <3>4, <3>5, <3>6
    <2>3. ASSUME NEW d \in Cids, NEW u \in Tasks, NEW i \in 1 .. Len(told'[u]),
                 Tells(told'[u][i], "COMMITTED", d)
          PROVE  /\ intent'[d] # NoIntent /\ intent'[d].task = u
                 /\ journal'[d] = "COMMIT" => status'[u] = "COMMITTED"
                 /\ \A j \in 1 .. Len(told'[u]) :
                      Tells(told'[u][j], "COMMITTED", d) => i = j
      <3>1. CASE u = t /\ d = c /\ i = Len(told[u]) + 1
        BY <1>2, <1>3, <2>1, <2>2, <3>1 DEF t
      <3>2. CASE i \in 1 .. Len(told[u]) /\ Tells(told[u][i], "COMMITTED", d)
        <4>1. d # c
          BY <2>1, <3>2
        <4>2. /\ intent[d] # NoIntent /\ intent[d].task = u
              /\ \A j \in 1 .. Len(told[u]) :
                   Tells(told[u][j], "COMMITTED", d) => i = j
          BY <3>2 DEF ToldInv
        <4>3. journal'[d] = "none" /\ intent'[d] = intent[d]
          BY <1>2, <4>1
        <4>4. \A j \in 1 .. Len(told'[u]) : Tells(told'[u][j], "COMMITTED", d) =>
                 j \in 1 .. Len(told[u]) /\ Tells(told[u][j], "COMMITTED", d)
          BY <2>2, <4>1
        <4> QED  BY <4>2, <4>3, <4>4
      <3> QED  BY <2>2, <2>3, <3>1, <3>2
    <2> QED  BY <2>3 DEF ToldInv
  <1> QED  BY <1>4, <1>5

LEMMA ToldRest ==
    ASSUME IInv, AgreedInv, TaskInv, ToldInv, SectionStep \/ CrashStep \/ Recover
    PROVE  ToldInv'
  <1> TypeOK
    BY DEF IInv
  <1>1. CASE SnapshotVoid
    <2>1. /\ UNCHANGED <<intent, journal, status>> /\ section.cid \in Cids
      BY <1>1, RecordSteps DEF RecordStep, SnapshotVoid, logVars
    <2> DEFINE n == [type |-> "VOIDED", cid |-> section.cid]
    <2>2. n \in Notice /\ n.type # "COMMITTED"
      BY <2>1, Notices
    <2>3. \A u \in Tasks : told'[u] \in {told[u], Append(told[u], n)}
      BY <1>1 DEF SnapshotVoid, TypeOK
    <2> HIDE DEF n
    <2> QED  BY <2>1, <2>2, <2>3, ToldFrame
  <1>2. CASE SectionStep /\ ~SnapshotCommit /\ ~SnapshotVoid
    <2>1. /\ UNCHANGED <<intent, told, status>>
          /\ \A c \in Cids : journal'[c] \in {journal[c], "none"}
      BY <1>2 DEF SectionStep, AppendEntry, ApplyGuarantee, ApplyExposure,
                  SnapshotLifecycle, Cleanup, TypeOK, taskVars, logVars
    <2> QED  BY <2>1, ToldFrame
  <1>3. CASE CrashStep
    <2>1. UNCHANGED <<intent, told, status, journal>>
      BY <1>3 DEF CrashStep, Crash, CrashInAccept, Die, taskVars, logVars
    <2> QED  BY <2>1, ToldFrame
  <1>4. CASE RecoverFinish
    <2>1. /\ UNCHANGED <<intent, journal>> /\ NoJournal
          /\ \A u \in Tasks : told'[u] \in {told[u], Append(told[u], REFUSED)}
      BY <1>4 DEF RecoverFinish, logVars, REFUSED
    <2> QED  BY <2>1, RefusedNotice, ToldFrame DEF NoJournal
  <1>5. CASE Recover /\ ~RecoverFinish
    <2>1. /\ UNCHANGED <<intent, told, status>>
          /\ \A c \in Cids : journal'[c] \in {journal[c], "none"}
      BY <1>5 DEF Recover, RecoverJournal, RecoverRetry, TypeOK, taskVars, logVars
    <2> QED  BY <2>1, ToldFrame
  <1> QED  BY <1>1, <1>2, <1>3, <1>4, <1>5, ToldCommit

LEMMA ToldAlways == Spec => []ToldInv
  <1>1. Init => ToldInv
    BY DEF Init, ToldInv
  <1>2. IInv /\ AgreedInv /\ TaskInv /\ ToldInv /\ [Next]_vars => ToldInv'
    <2> SUFFICES ASSUME IInv, AgreedInv, TaskInv, ToldInv, [Next]_vars PROVE ToldInv'
      OBVIOUS
    <2>1. CASE UNCHANGED vars
      BY <2>1 DEF ToldInv, vars, taskVars, logVars
    <2> QED  BY <2>1, ToldStart, ToldResume, ToldRest DEF Next, CrashStep
  <1> QED  BY <1>1, <1>2, Inductive, AgreedAlways, TaskAlways, PTL DEF Spec

\* However often the venue dies and recovers, and however its handlers overlap,
\* a commitment is on the chain once and its parties are told COMMITTED of it
\* once (commit, recover, and applyCommit, which both of them run)
THEOREM OnceEach == Spec => []CommittedOnce
  <1>1. OnceInv /\ ToldInv => CommittedOnce
    <2> SUFFICES ASSUME ToldInv, NEW c \in Cids, NEW t \in Tasks, NEW u \in Tasks,
                        NEW i \in 1 .. Len(told[t]), NEW j \in 1 .. Len(told[u]),
                        told[t][i] = [type |-> "COMMITTED", cid |-> c],
                        told[u][j] = [type |-> "COMMITTED", cid |-> c]
                 PROVE  t = u /\ i = j
      BY DEF CommittedOnce, OnceInv
    <2>1. t = u
      BY DEF ToldInv, Tells
    <2> QED  BY <2>1 DEF ToldInv, Tells
  <1> QED  BY <1>1, OnceAlways, ToldAlways, PTL

----------------------------------------------------------------------------
(* The order of the chain                                                  *)

\* Some entry of this type about c comes before position i
Before(type, c, i) == \E j \in Positions(type, c) : j < i

\* While a lifecycle event is being recorded the chain holds it already
LEMMA EntryFirstNext ==
    ASSUME IInv, EntryFirst, Next PROVE EntryFirst'
  <1> TypeOK /\ TypeOK'
    BY TypeStart, TypeResume, TypeSection, TypeCrashRecover DEF IInv, Next, CrashStep
  <1>1. CASE AppendEntry
    <2>1. /\ section'.kind = section.kind /\ section'.cid = section.cid
          /\ section.kind \in Events => EntryType(section.kind) = section.kind
      BY <1>1, Appends, SectionFields DEF AppendEntry, EntryType, Events, Section
    <2>2. \A type, c : type = EntryType(section.kind) /\ c = section.cid
                          => OnLedger(type, c)'
      BY <1>1, Appends, LedgerAppended
    <2> QED  BY <2>1, <2>2 DEF EntryFirst
  <1>2. CASE ApplyGuarantee
    <2>1. /\ section'.kind = section.kind /\ section'.cid = section.cid
          /\ section.step = "guarantee" /\ ledger' = ledger
      BY <1>2, SectionFields DEF ApplyGuarantee, Section, logVars
    <2> QED  BY <2>1, LedgerKept DEF EntryFirst
  <1>3. CASE ~AppendEntry /\ ~ApplyGuarantee
    <2>1. \/ section' = section
          \/ section'.step \notin {"guarantee", "snapshot"}
          \/ section'.kind \notin Events
      <3>1. CASE Start
        <4>1. \/ section' = section
              \/ \E c \in Cids, e \in Events : Lifecycle(c, e)
              \/ \E c \in Cids : VoidNow(c)
          BY <3>1 DEF Start, Tender, Message, Timeout, ReleaseGuarantee, CheckStart,
                      procVars
        <4> QED  BY <4>1 DEF Lifecycle, VoidNow, BeginVoid
      <3>2. ASSUME NEW h \in Handlers, Resume(h)
            PROVE  \/ section' = section
                   \/ section'.step \notin {"guarantee", "snapshot"}
        BY <3>2 DEF Resume, TenderRefuse, TenderAdmit, AdvanceFail, RejectResume,
                    CounterResume, AcceptLost, AcceptResume, CommitFail,
                    CommitPrepare, CheckPass, CheckVoid, BeginVoid
      <3>3. CASE SectionStep
        <4>1. ASSUME NEW s \in Sides, ApplyExposure(s) PROVE section'.kind \notin Events
          BY <4>1, SectionFields, SMTT(60) DEF ApplyExposure, Sides, Section, Events
        <4>2. CASE SnapshotCommit \/ SnapshotVoid \/ SnapshotLifecycle \/ Cleanup
          BY <4>2, SectionFields DEF SnapshotCommit, SnapshotVoid, SnapshotLifecycle,
                                     Cleanup, Idle, Section
        <4> QED  BY <1>3, <3>3, <4>1, <4>2 DEF SectionStep
      <3>4. CASE CrashStep
        BY <3>4 DEF CrashStep, Crash, CrashInAccept, Die, Idle
      <3>5. CASE Recover
        <4>1. ASSUME NEW c \in Cids, RecoverJournal(c)
              PROVE  section' = section \/ section'.kind \notin Events
          <5>1. journal[c] \in {"COMMIT", "VOID"}
            BY <4>1 DEF RecoverJournal, TypeOK
          <5> QED  BY <4>1, <5>1 DEF RecoverJournal, Events
        <4> QED  BY <3>5, <4>1 DEF Recover, RecoverRetry, RecoverFinish
      <3> QED  BY <3>1, <3>2, <3>3, <3>4, <3>5 DEF Next, CrashStep
    <2>2. ledger' = ledger
      BY <1>3, LedgerKeptUnlessAppended
    <2> QED  BY <2>1, <2>2, LedgerKept DEF EntryFirst
  <1> QED  BY <1>1, <1>2, <1>3

LEMMA EntryFirstAlways == Spec => []EntryFirst
  <1>1. Init => EntryFirst
    BY DEF Init, EntryFirst, Idle, Events
  <1>2. IInv /\ EntryFirst /\ [Next]_vars => EntryFirst'
    <2>1. CASE UNCHANGED vars
      BY <2>1, LedgerKept DEF EntryFirst, vars, logVars, procVars
    <2> QED  BY <2>1, EntryFirstNext
  <1> QED  BY <1>1, <1>2, Inductive, PTL DEF Spec

\* What the chain must already hold about c for an entry of type e
Precedes(e, c, i) ==
    /\ Before("COMMITMENT", c, i)
    /\ e = "DELIVERED" => Before("PICKED_UP", c, i)
    /\ e = "DELIVERY_ACCEPTED" => Before("DELIVERED", c, i)

LEMMA InOrderMeans ==
    LifecycleInOrder <=>
      \A c \in Cids :
        /\ \A e \in Events \cup {"VOID"} : \A i \in Positions(e, c) : Precedes(e, c, i)
        /\ \A e \in Events : record[c] = To(e) => OnLedger(e, c)
  BY DEF LifecycleInOrder, Precedes, Before

\* The chain tells of a load commitment first, then pickup, delivery and
\* acceptance, and the record is never ahead of it, crashes between the entry
\* and the snapshot included (recordLifecycle)
THEOREM ChainInOrder == Spec => []LifecycleInOrder
  <1>1. Init => LifecycleInOrder
    BY DEF Init, LifecycleInOrder, Positions, To, Events
  <1>2. ASSUME IInv, LifecycleInOrder, AppendEntry PROVE LifecycleInOrder'
    <2> DEFINE k == section.kind
               x == [type |-> EntryType(k), cid |-> section.cid]
    <2> TypeOK
      BY <1>2 DEF IInv
    <2>0. PICK n : n = Len(ledger) + 1
      OBVIOUS
    <2>1. /\ x \in Entry /\ ledger' = Append(ledger, x) /\ section.cid \in Cids
          /\ k \in {"COMMIT", "VOID"} \cup Events
          /\ k # "COMMIT" => OnLedger("COMMITMENT", section.cid)
          /\ k \in Events => record[section.cid] = From(k)
          /\ record' = record
      BY <1>2, Appends DEF AppendEntry, bookVars
    <2>2. \A type, c, i : Before(type, c, i) => Before(type, c, i)'
      BY <2>1, PositionsAppended DEF Before
    <2>3. \A type, c : OnLedger(type, c) => Before(type, c, n)'
      <3>1. \A i \in 1 .. Len(ledger) : i < n
        BY <2>0, <2>1, PositionsAppended
      <3> QED  BY <2>1, <3>1, PositionsAppended, OnLedgerIsPosition DEF Before
    <2>4. ASSUME NEW c \in Cids, NEW e \in Events \cup {"VOID"},
                 NEW i \in Positions(e, c)'
          PROVE  Precedes(e, c, i)'
      <3>1. CASE i \in Positions(e, c)
        BY <1>2, <2>2, <3>1, InOrderMeans DEF Precedes
      <3>2. CASE i = n /\ x = [type |-> e, cid |-> c]
        <4>1. k = e /\ section.cid = c
          BY <2>1, <3>2 DEF EntryType, Events
        <4>2. OnLedger("COMMITMENT", c)
          BY <2>1, <4>1 DEF Events
        <4>3. e = "DELIVERED" => OnLedger("PICKED_UP", c)
          BY <1>2, <2>1, <4>1 DEF LifecycleInOrder, From, To, Events
        <4>4. e = "DELIVERY_ACCEPTED" => OnLedger("DELIVERED", c)
          BY <1>2, <2>1, <4>1 DEF LifecycleInOrder, From, To, Events
        <4> QED  BY <2>3, <3>2, <4>2, <4>3, <4>4 DEF Precedes
      <3> HIDE DEF x
      <3> QED  BY <2>0, <2>1, <2>4, <3>1, <3>2, PositionsAppended
    <2>5. \A c \in Cids, e \in Events : record'[c] = To(e) => OnLedger(e, c)'
      <3> HIDE DEF x
      <3> QED  BY <1>2, <2>1, LedgerAppended DEF LifecycleInOrder
    <2>6. LifecycleInOrder' <=>
            \A c \in Cids :
              /\ \A e \in Events \cup {"VOID"} :
                   \A i \in Positions(e, c)' : Precedes(e, c, i)'
              /\ \A e \in Events : record'[c] = To(e) => OnLedger(e, c)'
      BY DEF LifecycleInOrder, Precedes, Before
    <2> QED  BY <2>4, <2>5, <2>6
  <1>3. ASSUME IInv, EntryFirst, LifecycleInOrder, Next, ~AppendEntry
        PROVE  LifecycleInOrder'
    <2>1. ledger' = ledger
      BY <1>3, LedgerKeptUnlessAppended
    <2>2. ASSUME NEW c \in Cids, NEW e \in Events, record'[c] = To(e)
          PROVE  OnLedger(e, c)
      <3>1. CASE record'[c] = record[c]
        BY <1>3, <2>2, <3>1 DEF LifecycleInOrder
      <3>2. CASE record'[c] # record[c]
        <4>1. SnapshotLifecycle /\ c = section.cid
          BY <1>3, <2>2, <3>2, RecordKept, RecordSteps DEF RecordStep, To, Events
        <4>2. section.kind \in Events /\ To(section.kind) = To(e)
          BY <1>3, <2>2, <4>1, RecordSteps DEF RecordStep
        <4>3. e = section.kind
          BY <4>2 DEF To, Events
        <4> QED  BY <1>3, <4>1, <4>3 DEF EntryFirst, SnapshotLifecycle
      <3> QED  BY <3>1, <3>2
    <2> QED  BY <1>3, <2>1, <2>2, PositionsKept, LedgerKept DEF LifecycleInOrder
  <1>4. IInv /\ EntryFirst /\ LifecycleInOrder /\ [Next]_vars => LifecycleInOrder'
    <2>1. CASE UNCHANGED vars
      BY <2>1, PositionsKept, LedgerKept DEF LifecycleInOrder, vars, bookVars, logVars
    <2> QED  BY <1>2, <1>3, <2>1
  <1> QED  BY <1>1, <1>4, Inductive, EntryFirstAlways, PTL DEF Spec

----------------------------------------------------------------------------
(* No double brokering                                                     *)

\* A carrier opens no negotiation of a load that the chain says it is to
\* perform, whichever of the two came first to the venue (startNegotiation (b))
THEOREM OpensOnlyUnowed == Spec => [][OpensUnowed]_vars
  <1>1. ASSUME IInv, LifecycleInOrder, Next, NEW t \in Tasks, ~Open(t), Open(t)'
        PROVE  ~OwedByItsBroker(t)
    <2> TypeOK
      BY <1>1 DEF IInv
    <2>1. PICK h \in Handlers : TenderAdmit(h) /\ calls[h].task = t
      BY <1>1, OpenedByTender
    <2>2. section = Idle /\ calls[h] # NoCall /\ ~DoubleBrokering(t)
      BY <2>1 DEF TenderAdmit, Admissible, Resumes, NoCall
    <2>3. NoJournal
      BY <1>1, <2>2, NoJournalAtRest DEF NoneInFlight
    <2>4. ASSUME NEW c \in Cids, OnLedger("COMMITMENT", c), ~OnLedger("VOID", c),
                 ~OnLedger("PICKED_UP", c)
          PROVE  record[c] = "ACTIVE"
      <3>1. record[c] # "none" /\ record[c] # "VOIDED"
        BY <1>1, <2>3, <2>4 DEF IInv, BookInv, NoJournal, Settled
      <3>2. \A e \in Events : record[c] # To(e)
        <4>1. \A e \in Events : record[c] = To(e) => OnLedger(e, c)
          BY <1>1 DEF LifecycleInOrder
        <4>2. OnLedger("DELIVERED", c) => OnLedger("PICKED_UP", c)
          BY <1>1, OnLedgerIsPosition DEF LifecycleInOrder, Events
        <4>3. OnLedger("DELIVERY_ACCEPTED", c) => OnLedger("DELIVERED", c)
          BY <1>1, OnLedgerIsPosition DEF LifecycleInOrder, Events
        <4> QED  BY <2>4, <4>1, <4>2, <4>3 DEF Events
      <3> QED  BY <3>1, <3>2 DEF TypeOK, Records, To, Events
    <2> QED  BY <2>2, <2>4 DEF OwedByItsBroker, DoubleBrokering
  <1>2. IInv /\ LifecycleInOrder /\ [Next]_vars => [OpensUnowed]_vars
    BY <1>1 DEF OpensUnowed
  <1> QED  BY <1>2, Inductive, ChainInOrder, PTL DEF Spec

----------------------------------------------------------------------------
(* While one handler runs at a time                                        *)

\* Only the snapshot of a commit wins a load
LEMMA WonKept ==
    ASSUME IInv, Next, ~SnapshotCommit, NEW t \in Tasks, Won(t)'
    PROVE  Won(t)
  <1>1. PICK c \in Cids : record'[c] = "ACTIVE" /\ SameLoad(t, intent'[c].task)
    BY DEF Won
  <1>2. record[c] = "ACTIVE"
    BY <1>1, ActivatedByCommit
  <1> QED  BY <1>1, <1>2, IntentKept DEF Won

LEMMA OneActiveKept ==
    ASSUME IInv, Next, ~SnapshotCommit, OneActivePerLoad
    PROVE  OneActivePerLoad'
  <1>1. \A c \in Cids : record'[c] = "ACTIVE" =>
                          record[c] = "ACTIVE" /\ intent'[c] = intent[c]
    BY ActivatedByCommit, IntentKept
  <1> QED  BY <1>1 DEF OneActivePerLoad

\* A step that records nothing, and at most ends open negotiations, telling their
\* parties, or answers a tender
LEMMA OutcomeFrame ==
    ASSUME TypeOK, OutcomeInv, record' = record,
           \A c \in Cids : record[c] # "none" => intent'[c] = intent[c],
           \A u \in Tasks :
              \/ /\ state'[u] = state[u] /\ told'[u] = told[u]
                 /\ status'[u] = status[u]
              \/ /\ state[u] \in {"none", "working"} /\ told'[u] = told[u]
                 /\ state'[u] \in {"working", "rejected"}
                 /\ status'[u] = status[u] \/ status'[u] # "COMMITTED"
              \/ /\ Open(u) /\ told'[u] = Append(told[u], REFUSED)
                 /\ state'[u] \in {"canceled", "failed"} /\ status'[u] # "COMMITTED"
    PROVE  OutcomeInv'
  <1>1. Append(<<>>, REFUSED) = <<REFUSED>>
    OBVIOUS
  <1>2. ASSUME NEW u \in Tasks
        PROVE  /\ status'[u] = "COMMITTED" <=> state'[u] = "completed"
               /\ state'[u] \in {"none", "working", "rejected"} => told'[u] = <<>>
               /\ state'[u] \in {"canceled", "failed"} => told'[u] = <<REFUSED>>
               /\ state'[u] = "completed" =>
                    state[u] = "completed" /\ told'[u] = told[u]
               /\ state[u] = "completed" =>
                    state'[u] = "completed" /\ told'[u] = told[u]
    BY <1>1 DEF OutcomeInv, Open, REFUSED
  <1>3. ASSUME NEW u \in Tasks, state'[u] = "completed"
        PROVE  \E c \in Cids : record'[c] # "none" /\ intent'[c].task = u
    BY <1>2, <1>3 DEF OutcomeInv
  <1>4. ASSUME NEW c \in Cids, record'[c] # "none"
        PROVE  /\ intent'[c] # NoIntent
               /\ state'[intent'[c].task] = "completed"
               /\ told'[intent'[c].task] = Outcome(c)'
    <2>1. /\ intent'[c] = intent[c] /\ intent[c] # NoIntent
          /\ state[intent[c].task] = "completed"
          /\ told[intent[c].task] = Outcome(c)
          /\ Outcome(c)' = Outcome(c)
      BY <1>4 DEF OutcomeInv, Outcome
    <2>2. intent[c].task \in Tasks
      BY <2>1 DEF TypeOK, Intent
    <2> QED  BY <1>2, <2>1, <2>2
  <1> QED  BY <1>2, <1>3, <1>4 DEF OutcomeInv, REFUSED

\* Nothing starts unless the venue is at rest, and nothing else is in flight
\* when a handler resumes
LEMMA StartsAtRest ==
    ASSUME IInv, Overlap = FALSE, Start
    PROVE  NoneInFlight /\ NoJournal /\ section = Idle
  <1>1. CanStart
    BY DEF Start, Tender, Message, Timeout, Lifecycle, ReleaseGuarantee,
           VoidNow, CheckStart
  <1> QED  BY <1>1, NoJournalAtRest DEF CanStart

LEMMA ResumesAlone ==
    ASSUME IInv, AloneInv, NEW h \in Handlers, Resume(h)
    PROVE  /\ calls[h] # NoCall /\ NoJournal /\ section = Idle
           /\ \A g \in Handlers : g # h => calls[g] = NoCall
  <1>1. section = Idle /\ calls[h] # NoCall
    BY DEF Resume, TenderRefuse, TenderAdmit, AdvanceFail, RejectResume,
           CounterResume, AcceptLost, AcceptResume, Accepts, CommitFail,
           CommitPrepare, CheckPass, CheckVoid, Resumes, NoCall
  <1> QED  BY <1>1, NoJournalAtRest DEF AloneInv, NoneInFlight

LEMMA SerialStart ==
    ASSUME IInv, Overlap = FALSE, SerialInv, Start
    PROVE  AloneInv' /\ PendingInv' /\ OutcomeInv'
  <1> TypeOK /\ TypeOK'
    BY TypeStart DEF IInv
  <1> NoneInFlight /\ NoJournal /\ section = Idle
    BY StartsAtRest
  <1>1. ASSUME NEW t \in Tasks, NEW o \in Offers, NEW h \in Handlers,
               Tender(t, o, h)
        PROVE  AloneInv' /\ PendingInv' /\ OutcomeInv'
    <2>1. /\ UNCHANGED <<state, status, told, record, intent, journal, section>>
          /\ \A g \in Handlers : g # h => calls'[g] = NoCall
          /\ calls'[h] = [kind |-> "TENDER", task |-> t, terms |-> o]
      BY <1>1 DEF Tender, Park, NoneInFlight, TypeOK, taskVars, bookVars, logVars
    <2>2. calls'[h].kind = "TENDER"
      BY <2>1
    <2> QED  BY <2>1, <2>2, OutcomeFrame
             DEF SerialInv, AloneInv, PendingInv, Carrying, NoJournal, NoCall
  <1>2. ASSUME NEW t \in Tasks, NEW s \in Sides,
               NEW kind \in {"COUNTER", "ACCEPT", "REJECT"},
               NEW o \in Terms, NEW h \in Handlers, Message(t, s, kind, o, h)
        PROVE  AloneInv' /\ PendingInv' /\ OutcomeInv'
    <2>1. /\ UNCHANGED <<state, status, told, record, intent, journal, section>>
          /\ \A g \in Handlers : g # h => calls'[g] = NoCall
          /\ calls'[h] = [kind |-> kind, task |-> t, by |-> s, terms |-> o]
          /\ state[t] = "working"
      BY <1>2 DEF Message, Park, Open, NoneInFlight, TypeOK, taskVars, bookVars,
                  logVars
    <2>2. calls'[h].kind = kind /\ calls'[h].task = t
      BY <2>1
    <2> QED  BY <2>1, <2>2, OutcomeFrame
             DEF SerialInv, AloneInv, PendingInv, Carrying, NoJournal, NoCall, Open
  <1>3. ASSUME NEW t \in Tasks, Timeout(t)
        PROVE  AloneInv' /\ PendingInv' /\ OutcomeInv'
    <2>1. /\ Open(t) /\ UNCHANGED <<record, intent, journal, section, calls>>
          /\ state' = [state EXCEPT ![t] = "canceled"]
          /\ status' = [status EXCEPT ![t] = "CANCELED"]
          /\ \A u \in Tasks : told'[u] = IF u = t THEN Append(told[u], REFUSED)
                                         ELSE told[u]
      BY <1>3, TerminateTells
         DEF Timeout, Terminate, bookVars, logVars, procVars
    <2>2. \A u \in Tasks :
            IF u = t THEN state'[u] = "canceled" /\ status'[u] = "CANCELED"
            ELSE state'[u] = state[u] /\ status'[u] = status[u]
      BY <2>1 DEF TypeOK
    <2>3. AloneInv' /\ PendingInv'
      BY <2>1 DEF AloneInv, PendingInv, Carrying, NoJournal, NoCall, NoneInFlight
    <2>4. OutcomeInv'
      BY <2>1, <2>2, OutcomeFrame DEF SerialInv
    <2> QED  BY <2>3, <2>4
  <1>4. ASSUME NEW c \in Cids, NEW e \in Events, Lifecycle(c, e)
        PROVE  AloneInv' /\ PendingInv' /\ OutcomeInv'
    BY <1>4, OutcomeFrame
       DEF Lifecycle, SerialInv, AloneInv, PendingInv, Carrying, NoJournal, NoCall,
           NoneInFlight, taskVars, bookVars, logVars
  <1>5. ASSUME NEW c \in Cids, ReleaseGuarantee(c)
        PROVE  AloneInv' /\ PendingInv' /\ OutcomeInv'
    BY <1>5, OutcomeFrame
       DEF ReleaseGuarantee, SerialInv, AloneInv, PendingInv, Carrying, NoJournal,
           NoCall, NoneInFlight, taskVars, logVars, procVars
  <1>6. ASSUME NEW c \in Cids, VoidNow(c)
        PROVE  AloneInv' /\ PendingInv' /\ OutcomeInv'
    <2>1. /\ UNCHANGED <<state, status, told, record, intent, calls>>
          /\ record[c] = "ACTIVE"
          /\ \A d \in Cids : journal'[d] = IF d = c THEN "VOID" ELSE "none"
      BY <1>6 DEF VoidNow, BeginVoid, Voidable, NoJournal, TypeOK, taskVars, bookVars
    <2> QED  BY <2>1, OutcomeFrame
             DEF SerialInv, AloneInv, PendingInv, Carrying, NoCall, NoneInFlight
  <1>7. ASSUME NEW c \in Cids, NEW h \in Handlers, CheckStart(c, h)
        PROVE  AloneInv' /\ PendingInv' /\ OutcomeInv'
    <2>1. /\ UNCHANGED <<state, status, told, record, intent, journal, section>>
          /\ \A g \in Handlers : g # h => calls'[g] = NoCall
          /\ calls'[h] = [kind |-> "CHECK", cid |-> c]
          /\ record[c] = "ACTIVE"
      BY <1>7 DEF CheckStart, Park, Voidable, NoneInFlight, TypeOK, taskVars,
                  bookVars, logVars
    <2>2. calls'[h].kind = "CHECK" /\ calls'[h].cid = c
      BY <2>1
    <2> QED  BY <2>1, <2>2, OutcomeFrame
             DEF SerialInv, AloneInv, PendingInv, Carrying, NoJournal, NoCall
  <1> QED  BY <1>1, <1>2, <1>3, <1>4, <1>5, <1>6, <1>7 DEF Start

LEMMA SerialResume ==
    ASSUME IInv, TaskInv, SerialInv, NEW h \in Handlers, Resume(h)
    PROVE  AloneInv' /\ PendingInv' /\ OutcomeInv'
  <1> TypeOK /\ TypeOK'
    BY TypeResume DEF IInv
  <1> DEFINE t == calls[h].task
  <1>0. /\ calls[h] # NoCall /\ NoJournal /\ section = Idle
        /\ \A g \in Handlers : g # h => calls[g] = NoCall
    BY ResumesAlone DEF SerialInv
  <1>1. ASSUME Return(h), UNCHANGED <<record, intent, journal, section>>, t \in Tasks,
               \A u \in Tasks : u # t => /\ state'[u] = state[u] /\ told'[u] = told[u]
                                         /\ status'[u] = status[u]
        PROVE  AloneInv' /\ PendingInv'
    <2>1. \A g \in Handlers : calls'[g] = NoCall
      BY <1>0, <1>1 DEF Return, TypeOK
    <2> QED  BY <1>0, <1>1, <2>1 DEF AloneInv, PendingInv, Carrying, NoJournal, NoCall
  <1>2. CASE TenderRefuse(h) \/ TenderAdmit(h)
    <2>1. /\ t \in Tasks /\ state[t] = "none"
      BY <1>2, CallFields DEF TenderRefuse, TenderAdmit, Resumes, TaskInv, Carrying
    <2>2. /\ Return(h) /\ UNCHANGED <<record, intent, journal, section, told>>
          /\ state'[t] \in {"rejected", "working"}
          /\ status'[t] = status[t] \/ status'[t] # "COMMITTED"
          /\ \A u \in Tasks : u # t => state'[u] = state[u] /\ status'[u] = status[u]
      BY <1>2, <2>1 DEF TenderRefuse, TenderAdmit, TypeOK, bookVars, logVars
    <2> HIDE DEF t
    <2> QED  BY <1>1, <2>1, <2>2, OutcomeFrame DEF SerialInv
  <1>3. CASE AdvanceFail(h) \/ RejectResume(h) \/ AcceptLost(h) \/ CommitFail(h)
    <2>1. t \in Tasks /\ Open(t)
      BY <1>3, CallFields DEF AdvanceFail, RejectResume, AcceptLost, CommitFail,
                              Resumes, SerialInv, AloneInv, Carrying
    <2>2. /\ Return(h) /\ UNCHANGED <<record, intent, journal, section>>
          /\ \E st \in {"canceled", "failed"}, stat \in Statuses \ {"COMMITTED"} :
               Terminate(t, st, stat)
      BY <1>3 DEF AdvanceFail, RejectResume, AcceptLost, CommitFail, Fail, Statuses,
                  bookVars, logVars
    <2>3. PICK st \in {"canceled", "failed"}, stat \in Statuses \ {"COMMITTED"} :
               Terminate(t, st, stat)
      BY <2>2
    <2>4. /\ state' = [state EXCEPT ![t] = st]
          /\ status' = [status EXCEPT ![t] = stat]
      BY <2>3 DEF Terminate
    <2>5. \A u \in Tasks :
             IF u = t THEN state'[u] = st /\ status'[u] = stat
                           /\ told'[u] = Append(told[u], REFUSED)
             ELSE state'[u] = state[u] /\ status'[u] = status[u] /\ told'[u] = told[u]
      <3>1. \A u \in Tasks : told'[u] = IF u = t THEN Append(told[u], REFUSED) ELSE told[u]
        BY <2>1, <2>3, TerminateTells
      <3>2. state \in [Tasks -> States] /\ status \in [Tasks -> Statuses]
        BY DEF TypeOK
      <3> HIDE DEF t
      <3> QED  BY <2>4, <3>1, <3>2
    <2> HIDE DEF t
    <2>6. AloneInv' /\ PendingInv'
      <3>1. /\ Return(h) /\ UNCHANGED <<record, intent, journal, section>>
            /\ calls[h].task \in Tasks
        BY <2>1, <2>2 DEF t
      <3>2. \A u \in Tasks : u # calls[h].task =>
               state'[u] = state[u] /\ told'[u] = told[u] /\ status'[u] = status[u]
        BY <2>5 DEF t
      <3> QED  BY <1>1, <3>1, <3>2 DEF t
    <2>7. OutcomeInv'
      BY <2>1, <2>2, <2>5, OutcomeFrame DEF SerialInv
    <2> QED  BY <2>6, <2>7
  <1>4. CASE CounterResume(h)
    <2>1. t \in Tasks /\ Open(t)
      BY <1>4, CallFields DEF CounterResume, Resumes, SerialInv, AloneInv, Carrying
    <2>2. /\ Return(h) /\ UNCHANGED <<record, intent, journal, section, told, state>>
          /\ status' = [status EXCEPT ![t] = "NEGOTIATING"]
      BY <1>4 DEF CounterResume, bookVars, logVars
    <2>3. \A u \in Tasks : status'[u] = IF u = t THEN "NEGOTIATING" ELSE status[u]
      BY <2>2 DEF TypeOK
    <2> HIDE DEF t
    <2> QED  BY <1>1, <2>1, <2>2, <2>3, OutcomeFrame DEF SerialInv, Open
  <1>5. CASE AcceptResume(h)
    <2>1. t \in Tasks /\ Open(t) /\ ~Won(t)
      BY <1>5, CallFields DEF AcceptResume, Accepts, Resumes, SerialInv, AloneInv,
                              Carrying
    <2>2. UNCHANGED <<record, intent, journal, section, told, state>>
      BY <1>5 DEF AcceptResume, bookVars, logVars
    <2>3. \A u \in Tasks : \/ status'[u] = status[u]
                           \/ u = t /\ status'[u] = "COUNTERSIGN"
      BY <1>5 DEF AcceptResume, TypeOK
    <2>4. OutcomeInv'
      BY <2>1, <2>2, <2>3, OutcomeFrame DEF SerialInv, Open
    <2>5. PendingInv'
      BY <1>0, <2>2 DEF PendingInv, NoJournal
    <2>6. /\ \A g \in Handlers : g # h => calls'[g] = NoCall
          /\ \/ calls'[h] = NoCall
             \/ calls'[h] = [kind |-> "COMMIT", task |-> t, terms |-> calls[h].terms]
      BY <1>0, <1>5 DEF AcceptResume, Return, TypeOK
    <2>7. AloneInv'
      BY <1>0, <2>1, <2>2, <2>6 DEF AloneInv, Carrying, NoCall, Won, Open
    <2> QED  BY <2>4, <2>5, <2>7
  <1>6. CASE CommitPrepare(h)
    <2>1. PICK u \in Tasks : u = t /\ Open(u) /\ ~Won(u)
      BY <1>6, CallFields DEF CommitPrepare, Resumes, SerialInv, AloneInv, Carrying
    <2>2. PICK n \in Cids : n = nextCid
      BY <1>6 DEF CommitPrepare
    <2>3. /\ Return(h) /\ UNCHANGED <<record, told, state, status>>
          /\ intent'[n].task = u /\ record[n] = "none"
          /\ \A c \in Cids : c # n => intent'[c] = intent[c] /\ journal'[c] = "none"
          /\ journal'[n] = "COMMIT"
      BY <1>0, <1>6, <2>1, <2>2 DEF CommitPrepare, TypeOK, IInv, FreshInv, NoJournal, Cids,
                              taskVars, bookVars
    <2>4. OutcomeInv'
      BY <2>3, OutcomeFrame DEF SerialInv
    <2>5. AloneInv'
      <3>1. \A g \in Handlers : calls'[g] = NoCall
        BY <1>0, <2>3 DEF Return, TypeOK
      <3> QED  BY <3>1 DEF AloneInv, Carrying, NoCall, NoneInFlight
    <2>6. PendingInv'
      <3>1. Open(u)' /\ ~Won(u)'
        BY <2>1, <2>3 DEF Won, Open
      <3>2. PendingInv' <=> \A c \in Cids :
              /\ journal'[c] = "COMMIT" /\ record'[c] = "none" =>
                   \A v \in {intent'[c].task} : Open(v)' /\ ~Won(v)'
              /\ journal'[c] = "VOID" => record'[c] \in {"ACTIVE", "VOIDED"}
        BY DEF PendingInv, Open, Won
      <3> QED  BY <2>3, <3>1, <3>2
    <2> QED  BY <2>4, <2>5, <2>6
  <1>7. CASE CheckPass(h) \/ CheckVoid(h)
    <2>1. /\ calls[h].cid \in Cids /\ record[calls[h].cid] = "ACTIVE"
          /\ UNCHANGED <<record, intent, told, state, status>>
          /\ \A g \in Handlers : calls'[g] = NoCall
      <3>1. calls[h].cid \in Cids /\ record[calls[h].cid] = "ACTIVE"
        BY <1>7, CallFields DEF CheckPass, CheckVoid, Resumes, SerialInv, AloneInv,
                                Carrying
      <3>2. \A g \in Handlers : calls'[g] = NoCall
        <4>1. calls' = [calls EXCEPT ![h] = NoCall] /\ calls \in [Handlers -> Call \cup {NoCall}]
          BY <1>7 DEF CheckPass, CheckVoid, Return, TypeOK
        <4> QED  BY <1>0, <4>1
      <3> QED  BY <1>7, <3>1, <3>2
               DEF CheckPass, CheckVoid, taskVars, bookVars, logVars
    <2>2. \A c \in Cids : \/ journal'[c] = "none"
                          \/ journal'[c] = "VOID" /\ record[c] = "ACTIVE"
      BY <1>0, <1>7, <2>1 DEF CheckPass, CheckVoid, BeginVoid, NoJournal, TypeOK, logVars
    <2>3. OutcomeInv'
      BY <2>1, OutcomeFrame DEF SerialInv
    <2>4. AloneInv' /\ PendingInv'
      BY <2>1, <2>2 DEF AloneInv, PendingInv, Carrying, NoCall, NoneInFlight
    <2> QED  BY <2>3, <2>4
  <1> QED  BY <1>2, <1>3, <1>4, <1>5, <1>6, <1>7 DEF Resume

\* The snapshot of a commit completes the task that was open, or finds it all done
LEMMA SerialCommit ==
    ASSUME IInv, AgreedInv, TaskInv, NoOpenSibling, SerialInv, SnapshotCommit
    PROVE  OneActivePerLoad' /\ PendingInv' /\ OutcomeInv'
  <1> TypeOK
    BY DEF IInv
  <1>1. PICK c \in Cids : c = section.cid
    BY RecordSteps DEF RecordStep
  <1>2. /\ journal[c] = "COMMIT" /\ record[c] \in {"none", "ACTIVE"}
        /\ record'[c] = "ACTIVE" /\ UNCHANGED <<intent, journal>>
        /\ \A d \in Cids : d # c => record'[d] = record[d] /\ journal[d] = "none"
    BY <1>1, RecordSteps DEF RecordStep, SnapshotCommit, logVars, IInv, JournalInv
  <1>3. PICK t \in Tasks : t = intent[c].task
    BY <1>2, DrawnIsTendered
  <1>4. \A u \in Tasks :
          /\ state'[u] = IF u = t /\ status[t] # "COMMITTED" THEN "completed"
                         ELSE IF Loses(t, u) THEN "canceled" ELSE state[u]
          /\ status'[u] = IF u = t THEN "COMMITTED"
                          ELSE IF Loses(t, u) THEN "CANCELED" ELSE status[u]
          /\ told'[u] = IF u = t /\ status[t] # "COMMITTED"
                        THEN Append(told[u], [type |-> "COMMITTED", cid |-> c])
                        ELSE IF Loses(t, u) THEN Append(told[u], REFUSED)
                        ELSE told[u]
    BY <1>1, <1>3 DEF SnapshotCommit, Announce, REFUSED
  <1>5. PendingInv'
    BY <1>2 DEF PendingInv
  <1>6. CASE record[c] = "none"
    <2>1. Open(t) /\ ~Won(t) /\ status[t] # "COMMITTED" /\ told[t] = <<>>
      BY <1>2, <1>3, <1>6 DEF SerialInv, PendingInv, OutcomeInv, Open
    <2>2. OneActivePerLoad'
      BY <1>2, <1>3, <2>1 DEF SerialInv, OneActivePerLoad, Won, SameLoad
    <2>3. /\ state'[t] = "completed" /\ status'[t] = "COMMITTED"
          /\ told'[t] = <<[type |-> "COMMITTED", cid |-> c]>>
      <3>1. Append(<<>>, [type |-> "COMMITTED", cid |-> c])
              = <<[type |-> "COMMITTED", cid |-> c]>>
        OBVIOUS
      <3> QED  BY <1>4, <2>1, <3>1
    <2>4. ASSUME NEW u \in Tasks, u # t
          PROVE  \/ /\ state'[u] = state[u] /\ status'[u] = status[u]
                    /\ told'[u] = told[u]
                 \/ /\ Open(u) /\ state'[u] = "canceled" /\ status'[u] = "CANCELED"
                    /\ told'[u] = <<REFUSED>>
      <3>1. Append(<<>>, REFUSED) = <<REFUSED>>
        OBVIOUS
      <3>2. Loses(t, u) => Open(u) /\ told[u] = <<>>
        BY DEF Loses, SerialInv, OutcomeInv, Open
      <3> QED  BY <1>4, <2>4, <3>1, <3>2
    <2>5. ASSUME NEW d \in Cids, record[d] # "none"
          PROVE  /\ intent'[d] # NoIntent /\ state'[intent'[d].task] = "completed"
                 /\ told'[intent'[d].task] = Outcome(d)' /\ record'[d] # "none"
                 /\ intent'[d].task \in Tasks /\ intent'[d].task = intent[d].task
      <3>1. /\ intent[d] # NoIntent /\ state[intent[d].task] = "completed"
            /\ told[intent[d].task] = Outcome(d) /\ intent[d].task \in Tasks
        BY <2>5 DEF SerialInv, OutcomeInv, TypeOK, Intent
      <3>2. d # c /\ intent[d].task # t
        BY <1>6, <2>1, <2>5, <3>1 DEF Open
      <3>3. /\ state'[intent[d].task] = state[intent[d].task]
            /\ told'[intent[d].task] = told[intent[d].task]
        BY <2>4, <3>1, <3>2 DEF Open
      <3>4. Outcome(d)' = Outcome(d) /\ record'[d] # "none"
        BY <1>2, <2>5, <3>2 DEF Outcome
      <3> QED  BY <1>2, <3>1, <3>3, <3>4
    <2>6. /\ intent'[c] # NoIntent /\ state'[intent'[c].task] = "completed"
          /\ told'[intent'[c].task] = Outcome(c)'
      BY <1>2, <1>3, <2>3, DrawnIsTendered DEF Outcome
    <2>7. ASSUME NEW u \in Tasks, state'[u] = "completed"
          PROVE  \E d \in Cids : record'[d] # "none" /\ intent'[d].task = u
      <3>1. CASE u = t
        BY <1>2, <1>3, <3>1
      <3>2. CASE u # t
        <4>1. state[u] = "completed"
          BY <2>4, <2>7, <3>2
        <4>2. PICK d \in Cids : record[d] # "none" /\ intent[d].task = u
          BY <4>1 DEF SerialInv, OutcomeInv
        <4> QED  BY <2>5, <4>2
      <3> QED  BY <3>1, <3>2
    <2>8. ASSUME NEW u \in Tasks
          PROVE  /\ status'[u] = "COMMITTED" <=> state'[u] = "completed"
                 /\ state'[u] \in {"none", "working", "rejected"} => told'[u] = <<>>
                 /\ state'[u] \in {"canceled", "failed"} => told'[u] = <<REFUSED>>
      BY <2>3, <2>4 DEF SerialInv, OutcomeInv, REFUSED
    <2>9. OutcomeInv'
      <3>1. \A d \in Cids : record'[d] # "none" => d = c \/ record[d] # "none"
        BY <1>2
      <3> QED  BY <2>5, <2>6, <2>7, <2>8, <3>1 DEF OutcomeInv, REFUSED
    <2> QED  BY <1>5, <2>2, <2>9
  <1>7. CASE record[c] = "ACTIVE"
    <2>1. state[t] = "completed" /\ status[t] = "COMMITTED"
      BY <1>3, <1>7 DEF SerialInv, OutcomeInv
    <2>2. \A u \in Tasks : ~Loses(t, u)
      BY <1>3, <1>7 DEF NoOpenSibling, Loses
    <2>3. \A u \in Tasks : /\ state'[u] = state[u] /\ status'[u] = status[u]
                           /\ told'[u] = told[u]
      BY <1>4, <2>1, <2>2
    <2>4. record' = record
      BY <1>1, <1>7 DEF SnapshotCommit, TypeOK
    <2>5. OutcomeInv'
      BY <1>2, <2>3, <2>4, OutcomeFrame DEF SerialInv
    <2>6. OneActivePerLoad'
      BY <1>2, <2>4 DEF SerialInv, OneActivePerLoad
    <2> QED  BY <1>5, <2>5, <2>6
  <1> QED  BY <1>2, <1>6, <1>7

LEMMA SecondNotice ==
    ASSUME NEW x \in Notice, NEW y \in Notice
    PROVE  Append(<<x>>, y) = <<x, y>>
  <1> DEFINE s == Append(<<x>>, y)
             r == <<x, y>>
  <1>1. <<x>> \in Seq(Notice) /\ r \in Seq(Notice) /\ Len(<<x>>) = 1 /\ Len(r) = 2
    OBVIOUS
  <1>2. s \in Seq(Notice) /\ Len(s) = 2 /\ s[1] = x /\ s[2] = y
    BY <1>1, AppendProperties
  <1>3. \A i \in 1 .. Len(s) : s[i] = r[i]
    BY <1>1, <1>2
  <1> HIDE DEF s, r
  <1>4. s = r
    BY <1>1, <1>2, <1>3, SeqEqual
  <1> QED  BY <1>4 DEF s, r

\* The parties of a voided commitment are told so once, after COMMITTED
LEMMA SerialVoid ==
    ASSUME IInv, SerialInv, SnapshotVoid
    PROVE  PendingInv' /\ OutcomeInv'
  <1> TypeOK
    BY DEF IInv
  <1>1. PICK c \in Cids : c = section.cid
    BY RecordSteps DEF RecordStep
  <1>2. /\ journal[c] = "VOID" /\ record[c] \in {"ACTIVE", "VOIDED"}
        /\ record'[c] = "VOIDED" /\ UNCHANGED <<intent, journal, state, status>>
        /\ \A d \in Cids : d # c => record'[d] = record[d] /\ journal[d] = "none"
    BY <1>1, RecordSteps
       DEF RecordStep, SnapshotVoid, logVars, IInv, JournalInv, SerialInv, PendingInv
  <1>3. PendingInv'
    BY <1>2 DEF PendingInv
  <1>4. CASE record[c] = "VOIDED"
    <2>1. record' = record /\ told' = told
      BY <1>1, <1>4 DEF SnapshotVoid, TypeOK
    <2> QED  BY <1>2, <1>3, <2>1, OutcomeFrame DEF SerialInv
  <1>5. CASE record[c] = "ACTIVE"
    <2> DEFINE n == [type |-> "COMMITTED", cid |-> c]
               v == [type |-> "VOIDED", cid |-> c]
    <2>1. /\ intent[c] # NoIntent /\ intent[c].task \in Tasks
          /\ state[intent[c].task] = "completed" /\ told[intent[c].task] = <<n>>
      <3>1. /\ intent[c] # NoIntent
            /\ state[intent[c].task] = "completed"
            /\ told[intent[c].task] = Outcome(c)
        BY <1>5 DEF SerialInv, OutcomeInv
      <3>2. intent[c] \in Intent
        BY <3>1 DEF TypeOK
      <3> QED  BY <1>5, <3>1, <3>2 DEF Outcome, Intent
    <2>2. PICK t \in Tasks : t = intent[c].task
      BY <2>1, SMTT(60)
    <2>3. told'[t] = Append(told[t], v) /\ \A u \in Tasks : u # t => told'[u] = told[u]
      BY <1>1, <1>5, <2>2 DEF SnapshotVoid, TypeOK
    <2>4. told'[t] = <<n, v>>
      <3>1. n \in Notice /\ v \in Notice
        BY Notices
      <3> HIDE DEF n, v
      <3> QED  BY <2>1, <2>2, <2>3, <3>1, SecondNotice
    <2>5. ASSUME NEW d \in Cids, record'[d] # "none", d # c
          PROVE  /\ intent'[d] # NoIntent /\ state'[intent'[d].task] = "completed"
                 /\ told'[intent'[d].task] = Outcome(d)'
      <3>1. /\ record[d] # "none" /\ intent[d] # NoIntent /\ intent[d].task \in Tasks
            /\ state[intent[d].task] = "completed"
            /\ told[intent[d].task] = Outcome(d) /\ Outcome(d)' = Outcome(d)
        BY <1>2, <2>5 DEF SerialInv, OutcomeInv, TypeOK, Intent, Outcome
      <3>2. Outcome(d)[1].cid = d /\ <<n>>[1].cid = c
        BY DEF Outcome
      <3>3. intent[d].task # t
        BY <2>1, <2>2, <2>5, <3>1, <3>2
      <3> QED  BY <1>2, <2>3, <3>1, <3>3
    <2>6. /\ intent'[c] # NoIntent /\ state'[intent'[c].task] = "completed"
          /\ told'[intent'[c].task] = Outcome(c)'
      BY <1>2, <2>1, <2>2, <2>4 DEF Outcome
    <2>7. ASSUME NEW u \in Tasks
          PROVE  /\ status'[u] = "COMMITTED" <=> state'[u] = "completed"
                 /\ state'[u] \in {"none", "working", "rejected"} => told'[u] = <<>>
                 /\ state'[u] \in {"canceled", "failed"} => told'[u] = <<REFUSED>>
                 /\ state'[u] = "completed" =>
                      \E d \in Cids : record'[d] # "none" /\ intent'[d].task = u
      <3>1. told'[u] = told[u] \/ state[u] = "completed"
        BY <2>1, <2>2, <2>3
      <3>2. \A d \in Cids : record[d] # "none" => record'[d] # "none"
        BY <1>2
      <3> QED  BY <1>2, <3>1, <3>2 DEF SerialInv, OutcomeInv, REFUSED
    <2> HIDE DEF n, v
    <2> QED  BY <1>3, <2>5, <2>6, <2>7 DEF OutcomeInv, REFUSED
  <1> QED  BY <1>2, <1>4, <1>5

LEMMA SerialSection ==
    ASSUME IInv, AgreedInv, TaskInv, NoOpenSibling, SerialInv, SectionStep
    PROVE  SerialInv'
  <1> TypeOK
    BY DEF IInv
  <1>1. NoneInFlight /\ calls' = calls
    <2>1. section.step # "none" /\ calls' = calls
      BY SectionFields DEF SectionStep, AppendEntry, ApplyGuarantee, Sides, ApplyExposure,
                           SnapshotCommit, SnapshotVoid, SnapshotLifecycle, Cleanup
    <2>2. section # Idle
      BY <2>1 DEF Idle
    <2> QED  BY <2>1, <2>2, SMTT(60) DEF SerialInv, AloneInv
  <1>2. AloneInv'
    BY <1>1 DEF AloneInv, Carrying, NoneInFlight, NoCall
  <1>3. CASE SnapshotCommit
    BY <1>2, <1>3, SerialCommit DEF SerialInv
  <1>4. CASE ~SnapshotCommit
    <2>1. OneActivePerLoad'
      BY <1>4, OneActiveKept DEF Next, SerialInv
    <2>2. CASE SnapshotVoid
      BY <1>2, <2>1, <2>2, SerialVoid DEF SerialInv
    <2>3. CASE SnapshotLifecycle
      <3>1. PICK c \in Cids : c = section.cid
        BY <2>3, RecordSteps DEF RecordStep
      <3>2. /\ \A d \in Cids : d # c => record'[d] = record[d]
            /\ journal[c] = "none" /\ record[c] \notin {"none", "VOIDED"}
            /\ record'[c] \notin {"none", "VOIDED"}
            /\ UNCHANGED <<state, status, told, intent, journal>>
        BY <2>3, <3>1, RecordSteps
           DEF RecordStep, SnapshotLifecycle, From, To, Events, taskVars, logVars
      <3>3. PendingInv'
        <4>1. ASSUME NEW u \in Tasks, Won(u)' PROVE Won(u)
          BY <1>4, <4>1, WonKept DEF Next
        <4>2. ASSUME NEW d \in Cids, journal'[d] = "COMMIT", record'[d] = "none"
              PROVE  (Open(intent[d].task) /\ ~Won(intent[d].task))'
          <5>1. PICK u \in Tasks : u = intent[d].task
            BY <3>2, <4>2, DrawnIsTendered
          <5>2. Open(u) /\ ~Won(u)
            BY <3>2, <4>2, <5>1 DEF SerialInv, PendingInv
          <5>3. Open(u)' /\ ~Won(u)'
            BY <3>2, <4>1, <5>2 DEF Open
          <5> QED  BY <3>2, <5>1, <5>3 DEF Open, Won
        <4>3. \A d \in Cids : journal'[d] = "VOID" => record'[d] \in {"ACTIVE", "VOIDED"}
          BY <3>2 DEF SerialInv, PendingInv
        <4> QED  BY <4>2, <4>3 DEF PendingInv
      <3>4. OutcomeInv'
        <4>1. \A d \in Cids : /\ record'[d] = "none" <=> record[d] = "none"
                              /\ Outcome(d)' = Outcome(d)
          BY <3>2 DEF Outcome
        <4> QED  BY <3>2, <4>1 DEF SerialInv, OutcomeInv
      <3> QED  BY <1>2, <2>1, <3>3, <3>4 DEF SerialInv
    <2>4. CASE AppendEntry \/ ApplyGuarantee \/ (\E s \in Sides : ApplyExposure(s))
                 \/ Cleanup
      <3>1. /\ UNCHANGED <<state, status, told, record, intent>>
            /\ \A c \in Cids : journal'[c] \in {journal[c], "none"}
        BY <2>4 DEF AppendEntry, ApplyGuarantee, ApplyExposure, Cleanup, TypeOK,
                    taskVars, bookVars, logVars
      <3>2. OutcomeInv'
        BY <3>1, OutcomeFrame DEF SerialInv
      <3>3. PendingInv'
        BY <3>1 DEF SerialInv, PendingInv, Open, Won
      <3> QED  BY <1>2, <2>1, <3>2, <3>3 DEF SerialInv
    <2> QED  BY <1>4, <2>2, <2>3, <2>4 DEF SectionStep
  <1> QED  BY <1>3, <1>4

LEMMA SerialCrashRecover ==
    ASSUME IInv, NoOpenSibling, SerialInv, CrashStep \/ Recover
    PROVE  SerialInv'
  <1> TypeOK
    BY DEF IInv
  <1>1. OneActivePerLoad'
    <2>1. UNCHANGED <<record, intent>>
      BY DEF CrashStep, Crash, CrashInAccept, Recover, RecoverJournal, RecoverRetry,
             RecoverFinish, bookVars, logVars
    <2> QED  BY <2>1 DEF SerialInv, OneActivePerLoad
  <1>2. CASE CrashStep
    <2>1. /\ UNCHANGED <<state, status, told, record, intent, journal>>
          /\ \A h \in Handlers : calls'[h] = NoCall
      BY <1>2 DEF CrashStep, Crash, CrashInAccept, Die, taskVars, bookVars, logVars
    <2>2. AloneInv' /\ PendingInv'
      BY <2>1 DEF SerialInv, AloneInv, PendingInv, Carrying, NoneInFlight, NoCall,
                  Open, Won
    <2>3. OutcomeInv'
      BY <2>1, OutcomeFrame DEF SerialInv
    <2> QED  BY <1>1, <2>2, <2>3 DEF SerialInv
  <1>3. ASSUME NEW c \in Cids, RecoverJournal(c) PROVE SerialInv'
    <2>1. /\ UNCHANGED <<state, status, told, record, intent, calls>> /\ NoneInFlight
          /\ \A d \in Cids : journal'[d] \in {journal[d], "none"}
      BY <1>3 DEF RecoverJournal, Recovering, TypeOK, taskVars, bookVars
    <2>2. AloneInv' /\ PendingInv'
      BY <2>1 DEF SerialInv, AloneInv, PendingInv, Carrying, NoneInFlight, NoCall,
                  Open, Won
    <2>3. OutcomeInv'
      BY <2>1, OutcomeFrame DEF SerialInv
    <2> QED  BY <1>1, <2>2, <2>3 DEF SerialInv
  <1>4. ASSUME NEW t \in Tasks, NEW h \in Handlers, RecoverRetry(t, h)
        PROVE  SerialInv'
    <2>1. /\ UNCHANGED <<state, status, told, record, intent, journal, section>>
          /\ section = Idle /\ Open(t)
          /\ \A g \in Handlers : g # h => calls'[g] = NoCall
          /\ calls'[h] = [kind |-> "COMMIT", task |-> t,
                          terms |-> accepted[t]["carrier"]]
      BY <1>4 DEF RecoverRetry, Recovering, Retried, Park, NoneInFlight, TypeOK,
                  taskVars, bookVars, logVars
    <2>2. ~Won(t)
      <3> SUFFICES ASSUME NEW c \in Cids, record[c] = "ACTIVE",
                          SameLoad(t, intent[c].task)
                   PROVE  FALSE
        BY DEF Won
      <3>1. state[intent[c].task] = "completed"
        BY DEF SerialInv, OutcomeInv
      <3>2. Sibling(intent[c].task, t)
        BY <2>1, <3>1 DEF Sibling, SameLoad, Open
      <3> QED  BY <2>1, <3>2 DEF NoOpenSibling
    <2>3. calls'[h].kind = "COMMIT" /\ calls'[h].task = t /\ Open(t)' /\ ~Won(t)'
      BY <2>1, <2>2 DEF Open, Won
    <2>4. AloneInv'
      <3>1. \A g \in Handlers : calls'[g].kind \in {"none", "COMMIT"}
        BY <2>1, <2>3 DEF NoCall
      <3>2. \A g \in Handlers : Carrying(g, {"COMMIT"})' => g = h
        BY <2>1 DEF Carrying, NoCall
      <3>3. AloneInv' <=>
              /\ \A g, k \in Handlers : calls'[g] # NoCall /\ calls'[k] # NoCall => g = k
              /\ section' # Idle => \A g \in Handlers : calls'[g] = NoCall
              /\ \A k \in Handlers :
                   \A u \in {calls'[k].task} :
                     /\ calls'[k].kind \in {"COUNTER", "ACCEPT", "REJECT", "COMMIT"} =>
                          Open(u)'
                     /\ calls'[k].kind \in {"COMMIT"} => ~Won(u)'
              /\ \A k \in Handlers :
                   calls'[k].kind \in {"CHECK"} => record'[calls'[k].cid] = "ACTIVE"
        BY DEF AloneInv, Carrying, NoneInFlight, Open, Won
      <3> QED  BY <2>1, <2>3, <3>1, <3>2, <3>3 DEF Carrying
    <2>5. PendingInv'
      BY <2>1 DEF SerialInv, PendingInv, Open, Won
    <2>6. OutcomeInv'
      BY <2>1, OutcomeFrame DEF SerialInv
    <2> QED  BY <1>1, <2>4, <2>5, <2>6 DEF SerialInv
  <1>5. CASE RecoverFinish
    <2>1. /\ UNCHANGED <<record, intent, journal, calls>> /\ NoneInFlight /\ NoJournal
      BY <1>5 DEF RecoverFinish, Recovering, bookVars, logVars
    <2>2. \A u \in Tasks :
            \/ /\ state'[u] = state[u] /\ told'[u] = told[u] /\ status'[u] = status[u]
            \/ /\ Open(u) /\ told'[u] = Append(told[u], REFUSED)
               /\ state'[u] = "canceled" /\ status'[u] = "CANCELED"
      BY <1>5 DEF RecoverFinish, Loses, REFUSED
    <2>3. AloneInv' /\ PendingInv'
      BY <2>1 DEF AloneInv, PendingInv, Carrying, NoneInFlight, NoCall, NoJournal
    <2>4. OutcomeInv'
      BY <2>1, <2>2, OutcomeFrame DEF SerialInv
    <2> QED  BY <1>1, <2>3, <2>4 DEF SerialInv
  <1> QED  BY <1>2, <1>3, <1>4, <1>5 DEF Recover

\* While the venue runs one handler at a time, each finds the negotiation or the
\* commitment it awaited for as it left it
LEMMA SerialAlways == Overlap = FALSE => (Spec => []SerialInv)
  <1> SUFFICES ASSUME Overlap = FALSE PROVE Spec => []SerialInv
    OBVIOUS
  <1>1. Init => SerialInv
    BY DEF Init, SerialInv, AloneInv, PendingInv, OutcomeInv, OneActivePerLoad,
           Carrying, NoneInFlight, NoCall
  <1>2. IInv /\ AgreedInv /\ TaskInv /\ NoOpenSibling /\ SerialInv /\ [Next]_vars
          => SerialInv'
    <2> SUFFICES ASSUME IInv, AgreedInv, TaskInv, NoOpenSibling,
                        SerialInv, [Next]_vars
                 PROVE  SerialInv'
      OBVIOUS
    <2>1. CASE UNCHANGED vars
      <3>1. AloneInv' /\ PendingInv' /\ OneActivePerLoad'
        BY <2>1 DEF SerialInv, AloneInv, PendingInv, OneActivePerLoad, Carrying,
                    NoneInFlight, Open, Won, vars, taskVars, bookVars, logVars, procVars
      <3>2. OutcomeInv'
        BY <2>1 DEF SerialInv, OutcomeInv, Outcome, vars, taskVars, bookVars, logVars
      <3> QED  BY <3>1, <3>2 DEF SerialInv
    <2>2. CASE Start
      <3>1. section = Idle
        BY <2>2, StartsAtRest
      <3>2. ~SnapshotCommit
        BY <3>1 DEF SnapshotCommit, Idle
      <3> QED  BY <2>2, <3>2, SerialStart, OneActiveKept DEF Next, SerialInv
    <2>3. ASSUME NEW h \in Handlers, Resume(h) PROVE SerialInv'
      <3>1. ~SnapshotCommit
        BY <2>3, ResumesAlone DEF SnapshotCommit, Idle, SerialInv
      <3> QED  BY <2>3, <3>1, SerialResume, OneActiveKept DEF Next, SerialInv
    <2>4. CASE SectionStep
      BY <2>4, SerialSection
    <2>5. CASE CrashStep \/ Recover
      BY <2>5, SerialCrashRecover
    <2> QED  BY <2>1, <2>2, <2>3, <2>4, <2>5 DEF Next, CrashStep
  <1> QED  BY <1>1, <1>2, Inductive, AgreedAlways, TaskAlways, SiblingsClosed, PTL
           DEF Spec

\* "The first commitment recorded wins": while the venue runs one handler at a
\* time, a broker's load has one ACTIVE commitment, wherever the venue crashed
\* (checkCommit (b2), recover)
THEOREM FirstWinsInTurn == Overlap = FALSE => (Spec => []OneActivePerLoad)
  <1>1. SerialInv => OneActivePerLoad
    BY DEF SerialInv
  <1> QED  BY <1>1, SerialAlways, PTL

\* While the venue runs one handler at a time, the parties of a negotiation are
\* told its one outcome once, whatever recovery applied again (terminate,
\* applyCommit, applyVoid, recover)
THEOREM ToldOnceInTurn == Overlap = FALSE => (Spec => []OutcomeToldOnce)
  <1>1. SerialInv /\ TypeOK => OutcomeToldOnce
    <2> SUFFICES ASSUME SerialInv, TypeOK, NEW t \in Tasks
                 PROVE  CASE state[t] \in {"none", "working", "rejected"} ->
                               told[t] = <<>>
                          [] state[t] \in {"canceled", "failed"} -> told[t] = <<REFUSED>>
                          [] state[t] = "completed" ->
                               \E c \in Cids : intent[c].task = t /\ told[t] = Outcome(c)
      BY DEF OutcomeToldOnce, Outcome, REFUSED
    <2>1. state[t] \in States
      BY DEF TypeOK
    <2>2. state[t] = "completed" =>
            \E c \in Cids : intent[c].task = t /\ told[t] = Outcome(c)
      BY DEF SerialInv, OutcomeInv
    <2> QED  BY <2>1, <2>2 DEF SerialInv, OutcomeInv, States, REFUSED
  <1>2. IInv => TypeOK
    BY DEF IInv
  <1> QED  BY <1>1, <1>2, SerialAlways, Inductive, PTL

\* "VOIDED from ACTIVE only": while the venue runs one handler at a time, a load
\* that was picked up is not voided (voidCommitment)
THEOREM VoidsActiveInTurn == Overlap = FALSE => (Spec => [][VoidsActiveOnly]_vars)
  <1>1. ASSUME IInv, SerialInv, Next, NEW c \in Cids, record'[c] = "VOIDED"
        PROVE  record[c] \in {"ACTIVE", "VOIDED"}
    <2>1. CASE record'[c] = record[c]
      BY <1>1, <2>1
    <2>2. CASE SnapshotVoid /\ c = section.cid
      BY <1>1, <2>2, RecordSteps DEF RecordStep, SerialInv, PendingInv
    <2>3. CASE record'[c] # record[c] /\ ~(SnapshotVoid /\ c = section.cid)
      BY <1>1, <2>3, RecordKept, RecordSteps DEF RecordStep, To, Events
    <2> QED  BY <2>1, <2>2, <2>3
  <1>2. IInv /\ SerialInv /\ [Next]_vars => [VoidsActiveOnly]_vars
    BY <1>1 DEF VoidsActiveOnly
  <1> QED  BY <1>2, Inductive, SerialAlways, PTL DEF Spec

\* Where handlers run one at a time, beside loads that are brokered on: a load has one
\* ACTIVE commitment, and the parties of a negotiation hear the one outcome it has
\* (advance, commit, terminate, applyCommit, applyVoid)
THEOREM OneOutcomeInTurn ==
    ASSUME Overlap = FALSE
    PROVE  MCSpec => []OneOutcomePerLoad
  <1> DEFINE Serial == part = "serial"
  <1>1. MCInit => (Serial => Init)
    BY PartsAssumption DEF MCInit
  <1>2. Serial /\ [MCNext]_<<part, vars>> => [Next]_vars /\ Serial'
    BY PartsAssumption DEF MCNext
  <1>3. ~Serial /\ [MCNext]_<<part, vars>> => ~Serial'
    BY DEF MCNext
  <1>4. (Serial => OneActivePerLoad /\ OutcomeToldOnce) => OneOutcomePerLoad
    BY DEF OneOutcomePerLoad
  <1>5. Spec => []OneActivePerLoad
    BY FirstWinsInTurn
  <1>6. Spec => []OutcomeToldOnce
    BY ToldOnceInTurn
  <1> HIDE DEF Serial
  <1> QED  BY <1>1, <1>2, <1>3, <1>4, <1>5, <1>6, PTL DEF MCSpec, Spec
=============================================================================
