------------------------- MODULE StatusNotices_proofs -------------------------
(***************************************************************************)
(* What the venue promises is recorded, and what the issuer holds is on    *)
(* the ledger as long as every notice has met a live credential: for any   *)
(* credentials, notices and bounds, wherever the venue dies.               *)
(***************************************************************************)
EXTENDS StatusNotices, TLAPS

USE NoticesAssumption

Types ==
    /\ status \in [Credentials -> Nat] /\ clock \in Nat
    /\ ledger \in Seq(Entry)
    /\ job \in Job \cup {NoJob}
    /\ mode \in {"serving", "recovering", "down"}
    /\ mode = "down" => job = NoJob

\* Times are handed out in order: a status set now is on no entry yet
Fresh ==
    /\ \A i \in DOMAIN ledger : ledger[i].at <= clock
    /\ \A c \in Credentials : status[c] <= clock
    /\ job.kind \in {"notice", "revoke"} /\ job.current # NoCredential
         => ~Recorded(job.current)

\* A notice in work is on the ledger or has something left that will put it there
Owing ==
    job # NoJob /\ job.notice # NoNotice =>
       /\ job.kind = "notice"
       /\ Recordable(job.notice) =>
             /\ job.todo \subseteq Issued
             /\ OnLedger(job.notice) \/ job.current # NoCredential \/ job.todo # {}

\* A status that is not on the ledger is about to be looked for there
Covered ==
    AllMatched /\ mode # "down" =>
       \A c \in Issued : status[c] # 0 =>
          \/ Recorded(c)
          \/ job # NoJob /\ (job.current = c \/ (job.kind = "recover" /\ c \in job.todo))

IInv == Types /\ Fresh /\ Owing /\ Covered /\ PromisedIsRecorded

----------------------------------------------------------------------------
(* The ledger grows                                                        *)

\* What is on the ledger stays on it, and is followed by the entry appended
LEMMA Grows ==
    ASSUME Types, NEW e \in Entry, ledger' = Append(ledger, e)
    PROVE  /\ ledger' \in Seq(Entry)
           /\ DOMAIN ledger' = DOMAIN ledger \cup {Len(ledger) + 1}
           /\ \A i \in DOMAIN ledger : ledger'[i] = ledger[i]
           /\ ledger'[Len(ledger) + 1] = e
           /\ Len(ledger) + 1 \notin DOMAIN ledger
           /\ \A n : OnLedger(n) => OnLedger(n)'
           /\ AllMatched' => AllMatched
<1>1. /\ ledger' \in Seq(Entry)
      /\ DOMAIN ledger' = DOMAIN ledger \cup {Len(ledger) + 1}
      /\ \A i \in DOMAIN ledger : ledger'[i] = ledger[i]
      /\ ledger'[Len(ledger) + 1] = e
      /\ Len(ledger) + 1 \notin DOMAIN ledger
  BY DEF Types
<1> QED BY <1>1 DEF OnLedger, AllMatched

\* A notice with status null is an entry, and so is a credential's status
LEMMA EntryTypes ==
    /\ \A n \in Notices : StatusEntry(NoCredential, 0, n) \in Entry
    /\ \A c \in Issued, at \in Nat, n \in Notices \cup {NoNotice} :
          StatusEntry(c, at, n) \in Entry
  BY DEF StatusEntry, Entry

LEMMA Initially == Init => IInv
<1> SUFFICES ASSUME Init PROVE IInv
  OBVIOUS
<1>1. Genesis \in Entry
  BY DEF Genesis, Entry
<1>2. Types
  BY <1>1 DEF Init, Types
<1>3. Fresh
  BY DEF Init, Fresh, Genesis, NoJob
<1> QED BY <1>2, <1>3 DEF Init, IInv, Owing, Covered, PromisedIsRecorded, NoJob

----------------------------------------------------------------------------
(* Steps of the venue                                                      *)

\* An entry more takes nothing from what is recorded
LEMMA RecordedStays ==
    ASSUME Types, NEW e \in Entry, ledger' = Append(ledger, e),
           status' = status, NEW c, Recorded(c)
    PROVE  Recorded(c)'
  BY Grows DEF Recorded, Matches

\* A notice that is on the ledger, or is not promised, changes nothing
LEMMA AgainStep ==
    ASSUME IInv, NEW n \in Notices, SubmitAgain(n) PROVE IInv'
<1> USE DEF SubmitAgain
<1>1. Types'
  BY DEF IInv, Types
<1>2. Fresh'
  BY DEF IInv, Fresh, Recorded, Matches
<1>3. Owing'
  BY DEF IInv, Owing, OnLedger
<1>4. Covered'
  BY DEF IInv, Covered, AllMatched, Recorded, Matches
<1>5. PromisedIsRecorded'
  BY DEF IInv, PromisedIsRecorded, OnLedger
<1> QED BY <1>1, <1>2, <1>3, <1>4, <1>5 DEF IInv

\* A notice recorded with status null is on the ledger
LEMMA UnmatchedStep ==
    ASSUME IInv, NEW n \in Notices, SubmitUnmatched(n) PROVE IInv'
<1> DEFINE e == StatusEntry(NoCredential, 0, n)
<1>1. e \in Entry /\ ledger' = Append(ledger, e)
  BY EntryTypes DEF SubmitUnmatched
<1>2. e.at = 0 /\ e.notice = n /\ e.credential = NoCredential
      /\ e.type = "CREDENTIAL_STATUS"
  BY DEF StatusEntry
<1> HIDE DEF e
<1>3. Types
  BY DEF IInv
<1>4. Types'
  BY <1>1, <1>3, Grows DEF Types, SubmitUnmatched
<1>5. Fresh'
  BY <1>1, <1>2, <1>3, Grows DEF IInv, Fresh, SubmitUnmatched, Free, NoJob, Types
<1>6. Owing'
  BY DEF Owing, SubmitUnmatched, Free
<1>7. Covered'
  BY <1>1, <1>2, <1>3, Grows DEF Covered, AllMatched
<1>8. OnLedger(n)'
  BY <1>1, <1>2, <1>3, Grows DEF OnLedger
<1>9. PromisedIsRecorded'
  BY <1>1, <1>3, <1>8, Grows DEF IInv, PromisedIsRecorded, SubmitUnmatched, Recordable
<1> QED BY <1>4, <1>5, <1>6, <1>7, <1>9 DEF IInv

\* Work on a notice begins with a credential to set the status of
LEMMA SubmitStep ==
    ASSUME IInv, NEW n \in Notices, SubmitNotice(n) PROVE IInv'
<1>1. job' = [kind |-> "notice", notice |-> n, todo |-> Targets(n),
              current |-> NoCredential]
      /\ Targets(n) # {} /\ Free
  BY DEF SubmitNotice, Begin
<1>2. Targets(n) \subseteq Credentials /\ (Recordable(n) => Targets(n) \subseteq Issued)
  BY DEF Targets, Recordable
<1>3. UNCHANGED <<status, clock, ledger, promised, mode>>
  BY DEF SubmitNotice
<1>4. Types'
  BY <1>1, <1>2, <1>3 DEF IInv, Types, Job, Free
<1>5. Fresh'
  BY <1>1, <1>3 DEF IInv, Fresh
<1>6. Owing'
  BY <1>1, <1>2, <1>3 DEF Owing, Recordable
<1>7. Covered'
  BY <1>1, <1>3 DEF IInv, Covered, AllMatched, Recorded, Matches, Free
<1>8. PromisedIsRecorded'
  BY <1>3 DEF IInv, PromisedIsRecorded, OnLedger
<1> QED BY <1>4, <1>5, <1>6, <1>7, <1>8 DEF IInv

\* Neither a revocation nor a recovery is about a notice
LEMMA RevokeStep ==
    ASSUME IInv, NEW c \in Credentials, RevokeCredential(c) PROVE IInv'
<1>1. job' = [kind |-> "revoke", notice |-> NoNotice, todo |-> {c},
              current |-> NoCredential]
      /\ Free
  BY DEF RevokeCredential, Begin
<1>2. UNCHANGED <<status, clock, ledger, promised, mode>>
  BY DEF RevokeCredential
<1>3. Types'
  BY <1>1, <1>2 DEF IInv, Types, Job, Free
<1>4. Fresh'
  BY <1>1, <1>2 DEF IInv, Fresh
<1>5. Owing'
  BY <1>1 DEF Owing
<1>6. Covered'
  BY <1>1, <1>2 DEF IInv, Covered, AllMatched, Recorded, Matches, Free
<1>7. PromisedIsRecorded'
  BY <1>2 DEF IInv, PromisedIsRecorded, OnLedger
<1> QED BY <1>3, <1>4, <1>5, <1>6, <1>7 DEF IInv

\* Recovery looks for every status there is
LEMMA RecoverStep ==
    ASSUME IInv, Recover PROVE IInv'
<1>1. job' = [kind |-> "recover", notice |-> NoNotice, todo |-> Reconciles,
              current |-> NoCredential]
      /\ mode' = "recovering"
  BY DEF Recover, Begin
<1>2. UNCHANGED <<status, clock, ledger, promised>>
  BY DEF Recover
<1>3. Types'
  BY <1>1, <1>2 DEF IInv, Types, Job, Reconciles
<1>4. Fresh'
  BY <1>1, <1>2 DEF IInv, Fresh
<1>5. Owing'
  BY <1>1 DEF Owing
<1>6. Covered'
  BY <1>1, <1>2 DEF Covered, Reconciles, NoJob
<1>7. PromisedIsRecorded'
  BY <1>2 DEF IInv, PromisedIsRecorded, OnLedger
<1> QED BY <1>3, <1>4, <1>5, <1>6, <1>7 DEF IInv

\* The time of a status set is later than every entry
LEMMA TakeStep ==
    ASSUME IInv, NEW c \in Credentials, Take(c) PROVE IInv'
<1> DEFINE sets == job.kind # "recover" /\ c \in Issued
<1>1. /\ job # NoJob /\ c \in job.todo /\ job.current = NoCredential
      /\ job' = [job EXCEPT !.todo = @ \ {c}, !.current = Taken(c)]
      /\ UNCHANGED <<ledger, promised, mode>>
  BY DEF Take
<1>2. /\ ~sets => UNCHANGED <<status, clock>>
      /\ sets => clock' = clock + 1 /\ status' = [status EXCEPT ![c] = clock + 1]
  BY DEF Take
<1>3. Types
  BY DEF IInv
<1>4. job \in Job
  BY <1>1, <1>3 DEF Types
<1>5. /\ job' \in Job /\ job' # NoJob /\ job'.kind = job.kind /\ job'.notice = job.notice
      /\ job'.todo = job.todo \ {c}
      /\ job'.current = IF c \in Issued THEN c ELSE NoCredential
  BY <1>1, <1>4 DEF Job, NoJob, Taken
<1>6. clock' \in Nat /\ clock <= clock' /\ status' \in [Credentials -> Nat]
  BY <1>2, <1>3 DEF Types
<1>7. /\ \A d \in Credentials : d # c => status'[d] = status[d]
      /\ sets => status'[c] = clock + 1
  BY <1>2, <1>3 DEF Types
<1> HIDE DEF sets
<1>8. Types'
  BY <1>1, <1>3, <1>5, <1>6 DEF Types
<1>9. Fresh'
  <2>1. \A i \in DOMAIN ledger : ledger[i].at \in Nat /\ ledger[i].at <= clock
    <3>1. \A i \in DOMAIN ledger : ledger[i] \in Entry
      BY <1>3 DEF Types
    <3>2. \A i \in DOMAIN ledger : ledger[i].at <= clock
      BY DEF IInv, Fresh
    <3> QED BY <3>1, <3>2 DEF Entry
  <2>2. \A i \in DOMAIN ledger' : ledger'[i].at <= clock'
    BY <1>1, <1>2, <1>3, <2>1 DEF Types
  <2>3. \A d \in Credentials : status'[d] <= clock'
    BY <1>2, <1>3, <1>7 DEF IInv, Fresh, Types
  <2>4. sets => ~Recorded(c)'
    BY <1>1, <1>3, <1>7, <2>1 DEF Recorded, Matches, Types
  <2>5. job'.kind \in {"notice", "revoke"} /\ job'.current # NoCredential
          => sets /\ job'.current = c
    BY <1>5 DEF sets
  <2>6. job'.kind \in {"notice", "revoke"} /\ job'.current # NoCredential
          => ~Recorded(job.current)'
    BY <2>4, <2>5 DEF Recorded, Matches
  <2> QED BY <2>2, <2>3, <2>6 DEF Fresh
<1>10. Owing'
  BY <1>1, <1>5 DEF IInv, Owing, OnLedger, Recordable
<1>11. Covered'
  <2> SUFFICES ASSUME AllMatched', mode' # "down", NEW d \in Issued, status'[d] # 0
               PROVE  \/ Recorded(d)'
                      \/ job'.current = d
                      \/ job'.kind = "recover" /\ d \in job'.todo
    BY <1>5 DEF Covered
  <2>1. CASE d = c
    BY <1>5, <2>1
  <2>2. CASE d # c
    <3>1. status'[d] = status[d]
      BY <1>7, <2>2
    <3>2. Recorded(d) \/ (job.kind = "recover" /\ d \in job.todo)
      BY <1>1, <3>1 DEF IInv, Covered, AllMatched
    <3>3. Recorded(d) => Recorded(d)'
      BY <1>1, <3>1 DEF Recorded, Matches
    <3> QED BY <1>5, <2>2, <3>2, <3>3
  <2> QED BY <2>1, <2>2
<1>12. PromisedIsRecorded'
  BY <1>1 DEF IInv, PromisedIsRecorded, OnLedger
<1> QED BY <1>8, <1>9, <1>10, <1>11, <1>12 DEF IInv

\* The status recorded is on the ledger, and so is the notice it came with
LEMMA RecordStep ==
    ASSUME IInv, RecordStatus PROVE IInv'
<1> DEFINE c == job.current
           e == StatusEntry(c, status[c], job.notice)
<1>1. /\ job # NoJob /\ c # NoCredential
      /\ ledger' = IF Recorded(c) THEN ledger ELSE Append(ledger, e)
      /\ job' = [job EXCEPT !.current = NoCredential]
      /\ UNCHANGED <<status, clock, promised, mode>>
  BY DEF RecordStatus
<1>2. Types
  BY DEF IInv
<1>3. job \in Job /\ c \in Issued
  BY <1>1, <1>2 DEF Types, Job
<1>4. e \in Entry
  BY <1>2, <1>3, EntryTypes DEF Types, Job
<1>5. e.credential = c /\ e.at = status[c] /\ e.notice = job.notice
  BY DEF StatusEntry
<1>6. /\ job' \in Job /\ job' # NoJob /\ job'.current = NoCredential
      /\ job'.kind = job.kind /\ job'.notice = job.notice /\ job'.todo = job.todo
  BY <1>1, <1>3 DEF Job, NoJob
<1> HIDE DEF e
<1>7. /\ ledger' \in Seq(Entry)
      /\ \A n : OnLedger(n) => OnLedger(n)'
      /\ AllMatched' => AllMatched
      /\ \A d : Recorded(d) => Recorded(d)'
  <2>1. CASE Recorded(c)
    BY <1>1, <1>2, <2>1 DEF Types, OnLedger, AllMatched, Recorded, Matches
  <2>2. CASE ~Recorded(c)
    BY <1>1, <1>2, <1>4, <2>2, Grows, RecordedStays DEF Types
  <2> QED BY <2>1, <2>2
<1>8. Recorded(c) \/ (ledger' = Append(ledger, e) /\ Len(ledger) + 1 \in DOMAIN ledger'
                      /\ ledger'[Len(ledger) + 1] = e)
  BY <1>1, <1>2, <1>4, Grows
<1>9. \A d \in {c} : Recorded(d)'
  BY <1>1, <1>5, <1>7, <1>8, SMTT(60) DEF Recorded, Matches
<1>10. Types'
  BY <1>1, <1>2, <1>6, <1>7 DEF Types
<1>11. Fresh'
  <2>1. \A i \in DOMAIN ledger' : ledger'[i].at <= clock
    <3>1. CASE Recorded(c)
      BY <1>1, <3>1 DEF IInv, Fresh
    <3>2. CASE ~Recorded(c)
      <4>1. ledger' = Append(ledger, e)
        BY <1>1, <3>2
      <4>2. e.at <= clock
        BY <1>3, <1>5 DEF IInv, Fresh
      <4> QED BY <1>2, <1>4, <4>1, <4>2, Grows DEF IInv, Fresh
    <3> QED BY <3>1, <3>2
  <2> QED BY <1>1, <1>6, <2>1 DEF IInv, Fresh
<1>12. Owing'
  <2>1. ASSUME job.notice # NoNotice, Recordable(job.notice)
        PROVE  OnLedger(job.notice)'
    <3>1. job.kind = "notice"
      BY <1>1, <2>1 DEF IInv, Owing
    <3>2. ~Recorded(c)
      BY <1>1, <3>1 DEF IInv, Fresh
    <3> QED BY <1>1, <1>5, <1>6, <1>8, <3>2 DEF OnLedger
  <2> QED BY <1>1, <1>6, <2>1 DEF IInv, Owing, Recordable, OnLedger
<1>13. Covered'
  <2> SUFFICES ASSUME AllMatched', mode' # "down", NEW d \in Issued, status'[d] # 0
               PROVE  \/ Recorded(d)'
                      \/ job'.kind = "recover" /\ d \in job'.todo
    BY <1>6 DEF Covered
  <2>1. \/ Recorded(d) \/ c = d
        \/ job.kind = "recover" /\ d \in job.todo
    BY <1>1, <1>7 DEF IInv, Covered
  <2> QED BY <1>6, <1>7, <1>9, <2>1
<1>14. PromisedIsRecorded'
  BY <1>1, <1>7 DEF IInv, PromisedIsRecorded, Recordable
<1> QED BY <1>10, <1>11, <1>12, <1>13, <1>14 DEF IInv

\* Only a notice without a live credential makes the search throw
LEMMA ThrowsStep ==
    ASSUME IInv, RecordThrows PROVE IInv'
<1>1. /\ job' = NoJob /\ mode' \in {mode, "down"}
      /\ UNCHANGED <<status, clock, ledger, promised>>
  BY DEF RecordThrows
<1>2. ~AllMatched
  BY DEF RecordThrows, Throws, Unreadable, AllMatched
<1>3. Types'
  BY <1>1 DEF IInv, Types
<1>4. Fresh'
  BY <1>1 DEF IInv, Fresh, NoJob
<1>5. Owing'
  BY <1>1 DEF Owing
<1>6. Covered'
  BY <1>1, <1>2 DEF Covered, AllMatched
<1>7. PromisedIsRecorded'
  BY <1>1 DEF IInv, PromisedIsRecorded, OnLedger
<1> QED BY <1>3, <1>4, <1>5, <1>6, <1>7 DEF IInv

\* With nothing left to do the notice is on the ledger
LEMMA FinishStep ==
    ASSUME IInv, Finish PROVE IInv'
<1>1. /\ job # NoJob /\ job.todo = {} /\ job.current = NoCredential
      /\ promised' = promised \cup ({job.notice} \ {NoNotice})
      /\ job' = NoJob /\ mode' = "serving"
      /\ UNCHANGED <<status, clock, ledger>>
  BY DEF Finish
<1>2. Types'
  BY <1>1 DEF IInv, Types
<1>3. Fresh'
  BY <1>1 DEF IInv, Fresh, NoJob
<1>4. Owing'
  BY <1>1 DEF Owing
<1>5. Covered'
  <2>1. mode # "down"
    BY <1>1 DEF IInv, Types
  <2> QED BY <1>1, <2>1 DEF IInv, Covered, AllMatched, Recorded, Matches
<1>6. PromisedIsRecorded'
  BY <1>1 DEF IInv, PromisedIsRecorded, Owing, OnLedger, Recordable
<1> QED BY <1>2, <1>3, <1>4, <1>5, <1>6 DEF IInv

\* What is in work is lost; nothing that is recorded
LEMMA CrashStep ==
    ASSUME IInv, Crash PROVE IInv'
<1>1. /\ job' = NoJob /\ mode' = "down"
      /\ UNCHANGED <<status, clock, ledger, promised>>
  BY DEF Crash
<1>2. Types'
  BY <1>1 DEF IInv, Types
<1>3. Fresh'
  BY <1>1 DEF IInv, Fresh, NoJob
<1>4. Owing' /\ Covered'
  BY <1>1 DEF Owing, Covered
<1>5. PromisedIsRecorded'
  BY <1>1 DEF IInv, PromisedIsRecorded, OnLedger
<1> QED BY <1>2, <1>3, <1>4, <1>5 DEF IInv

\* The witness writes nothing of the venue's
LEMMA WitnessStep ==
    ASSUME IInv, UNCHANGED venueVars PROVE IInv'
<1>1. Types'
  BY DEF IInv, Types, venueVars
<1>2. Fresh'
  BY DEF IInv, Fresh, venueVars, Recorded, Matches
<1>3. Owing'
  BY DEF IInv, Owing, venueVars, OnLedger
<1>4. Covered'
  BY DEF IInv, Covered, venueVars, AllMatched, Recorded, Matches
<1>5. PromisedIsRecorded'
  BY DEF IInv, PromisedIsRecorded, OnLedger, venueVars
<1> QED BY <1>1, <1>2, <1>3, <1>4, <1>5 DEF IInv

LEMMA Inductive == IInv /\ [Next]_vars => IInv'
<1> SUFFICES ASSUME IInv, [Next]_vars PROVE IInv'
  OBVIOUS
<1>1. CASE UNCHANGED vars
  BY <1>1, WitnessStep DEF vars
<1>2. CASE \E n \in Notices :
          \/ SubmitAgain(n) \/ SubmitUnmatched(n) \/ SubmitNotice(n)
          \/ Watch(n) \/ Deadline(n)
  <2>1. \A n \in Notices : Watch(n) \/ Deadline(n) => UNCHANGED venueVars
    BY DEF Watch, Deadline
  <2> QED BY <1>2, <2>1, AgainStep, UnmatchedStep, SubmitStep, WitnessStep
<1>3. CASE \E c \in Credentials : RevokeCredential(c) \/ Take(c)
  BY <1>3, RevokeStep, TakeStep
<1>4. CASE RecordStatus \/ RecordThrows \/ Finish \/ Crash \/ Recover
  BY <1>4, RecordStep, ThrowsStep, FinishStep, CrashStep, RecoverStep
<1>5. CASE Cosign \/ \E position \in 1 .. verified : ReceiptFor(position)
  <2>1. Cosign => UNCHANGED venueVars
    BY DEF Cosign
  <2>2. \A position : ReceiptFor(position) => UNCHANGED venueVars
    BY DEF ReceiptFor
  <2> QED BY <1>5, <2>1, <2>2, WitnessStep
<1> QED BY <1>1, <1>2, <1>3, <1>4, <1>5 DEF Next

----------------------------------------------------------------------------

\* A source that holds a promise about credentials issued here finds its notice on
\* the ledger, wherever the venue has died (submitNotice, applyNotice)
THEOREM PromisesRecorded == Spec => []PromisedIsRecorded
<1>1. IInv => PromisedIsRecorded
  BY DEF IInv
<1> QED BY <1>1, Initially, Inductive, PTL DEF Spec

\* Unless a notice has met no live credential, issuer's file and ledger agree
\* whenever the venue lets a request in (recordCredentialStatus, recover)
THEOREM StatusesCovered == Spec => []MatchedOnLedger
<1>1. IInv => MatchedOnLedger
  BY DEF IInv, Covered, MatchedOnLedger, StatusesOnLedger, Free
<1> QED BY <1>1, Initially, Inductive, PTL DEF Spec

=============================================================================
