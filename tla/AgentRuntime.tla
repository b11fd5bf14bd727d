---------------------------- MODULE AgentRuntime ----------------------------
(***************************************************************************)
(* One agent at the venue (src/agentkit/runtime.ts, mandate/exposure.ts)   *)
(* and the venue's intake of its messages (ingest of venue/service.ts).    *)
(*                                                                         *)
(* The agent learns what the venue decided in three ways: from the answer  *)
(* to its own message, by pulling the task, from a pushed notice.  Each    *)
(* handler runs to its next await; what it keeps on disk are the tasks     *)
(* (written when a handler ends), the ids of notices seen, the artifacts   *)
(* and the exposure book (written as it goes).  The negotiation itself is  *)
(* that of VenueCommit, seen from one side.                                *)
(***************************************************************************)
EXTENDS Naturals, Sequences, FiniteSets

CONSTANTS
    Tasks,
    Outbound,    \* the tasks this agent tenders; it is tendered the others
    Limit,       \* the mandate's exposure limit, in loads
    MaxAttempts, \* attempts of sendRaw()
    MaxRounds,   \* [Tasks -> Nat], bound: rounds of a negotiation
    MaxFaults    \* bound: lost answers and acks, pushes overtaken, deaths

ASSUME AgentAssumption ==
    /\ IsFiniteSet(Tasks) /\ "none" \notin Tasks /\ Outbound \subseteq Tasks
    /\ Limit \in Nat /\ MaxRounds \in [Tasks -> Nat]

VARIABLES
    venue,     \* [Tasks -> what the venue keeps of the task]
    nonces,    \* messages whose nonce the venue has on disk
    parked,    \* messages the venue is handling
    done,      \* history: messages the venue has handled
    outbox,    \* notices the venue pushes to the agent
    wire,      \* attempts on their way to the venue
    answers,   \* answers on their way to the agent
    local,     \* [Tasks -> status of the local task], in memory
    saved,     \* tasks.json
    seen,      \* inbox-seen.json
    artifacts, \* commitments/: tasks with the artifact on disk
    book,      \* exposure.json
    queue,     \* notices acknowledged, to be processed in this order
    jobs,      \* handlers waiting for the strategy or for an answer
    faults,    \* faults so far
    torn,      \* history: tasks with a notice seen and not acted on: the agent
               \* died, or did not know the task yet
    overtaken, \* history: a notice was pushed before an earlier one
    racing     \* history: it accepted while another acceptance was unresolved

venueVars == <<venue, nonces, parked, done, outbox>>
netVars   == <<wire, answers>>
fileVars  == <<saved, seen, artifacts, book>>
agentVars == <<queue, jobs>>
history   == <<torn, overtaken, racing>>
vars == <<venueVars, netVars, local, fileVars, agentVars, faults, history>>

Requests == {"TENDER", "COUNTER", "ACCEPT"}   \* forwarded, to be answered
Outcomes == {"COMMITTED", "REFUSED", "VOIDED"}
\* copy 1: the redacted copy of a refusal, another message than the task holds
Notice(t, type, r, copy) == [task |-> t, type |-> type, round |-> r, copy |-> copy]
Message(t, type, r) == [task |-> t, type |-> type, round |-> r]
Nothing == [task |-> "none"]

Init ==
    /\ venue = [t \in Tasks |-> [state |-> "none", turn |-> "other", round |-> 1,
                                 accepted |-> {}, voided |-> FALSE]]
    /\ nonces = {} /\ parked = {} /\ done = {} /\ outbox = <<>>
    /\ wire = {} /\ answers = {}
    /\ local = [t \in Tasks |-> "none"] /\ saved = local
    /\ seen = {} /\ artifacts = {}
    /\ book = [added |-> {}, released |-> {}, outstanding |-> 0]
    /\ queue = <<>> /\ jobs = {} /\ faults = 0
    /\ torn = {} /\ overtaken = FALSE /\ racing = FALSE

----------------------------------------------------------------------------
(* The venue                                                               *)

Terminal(t) == venue[t].state \in {"completed", "canceled", "rejected"}

\* What a terminal task carries in status.message
StatusMessage(t) ==
    CASE venue[t].state = "completed" -> Notice(t, "COMMITTED", 0, 0)
      [] venue[t].state \in {"canceled", "rejected"} -> Notice(t, "REFUSED", 0, 0)
      [] OTHER -> Nothing

\* The venue decides: the task is terminal and the notice is owed to the agent,
\* a refusal about the other party as a redacted copy
Cancel(t) ==
    /\ venue' = [venue EXCEPT ![t].state = "canceled"]
    /\ \E copy \in {0, 1} : outbox' = Append(outbox, Notice(t, "REFUSED", 0, copy))
Complete(t, by) ==
    /\ venue' = [venue EXCEPT ![t].state = "completed", ![t].accepted = @ \cup {by}]
    /\ outbox' = Append(outbox, Notice(t, "COMMITTED", 0, 0))

Accept(t, by) ==
    IF venue[t].accepted \ {by} # {} THEN Complete(t, by) \/ Cancel(t)
    ELSE \/ Cancel(t)
         \/ /\ venue' = [venue EXCEPT ![t].accepted = {by},
                            ![t].turn = IF by = "me" THEN "other" ELSE "me"]
            /\ outbox' = IF by = "me" THEN outbox
                         ELSE Append(outbox, Notice(t, "ACCEPT", venue[t].round, 0))

Counter(t, by) ==
    /\ venue[t].round < MaxRounds[t]
    /\ venue' = [venue EXCEPT ![t].round = @ + 1, ![t].accepted = {},
                    ![t].turn = IF by = "me" THEN "other" ELSE "me"]
    /\ outbox' = IF by = "me" THEN outbox
                 ELSE Append(outbox, Notice(t, "COUNTER", venue[t].round + 1, 0))

\* The other party acts, or the venue does: a tender, an answer, a timeout
OtherActs(t) ==
    /\ \/ /\ venue[t].state = "none" /\ t \notin Outbound
          /\ venue' = [venue EXCEPT ![t].state = "open", ![t].turn = "me"]
          /\ outbox' = Append(outbox, Notice(t, "TENDER", 1, 0))
       \/ /\ venue[t].state = "open" /\ venue[t].turn = "other"
          /\ Accept(t, "other") \/ Counter(t, "other")
       \/ /\ venue[t].state = "completed" /\ ~venue[t].voided
          /\ venue' = [venue EXCEPT ![t].voided = TRUE]
          /\ outbox' = Append(outbox, Notice(t, "VOIDED", 0, 0))
    /\ UNCHANGED <<nonces, parked, done, netVars, local, fileVars, agentVars, faults, history>>

Timeout(t) ==
    /\ venue[t].state = "open"
    /\ Cancel(t)
    /\ UNCHANGED <<nonces, parked, done, netVars, local, fileVars, agentVars, faults, history>>

\* Nobody hears the answer to an attempt that was given up
Answer(a, kind, notice) ==
    {[m |-> a.m, attempt |-> a.attempt, kind |-> kind, notice |-> notice] :
        j \in {j \in jobs : j.m = a.m /\ j.attempt = a.attempt}}

\* Mutant: the nonce is remembered once the message has been handled
ArriveUnmarked(a) ==
    /\ a \in wire
    /\ wire' = wire \ {a}
    /\ IF a.m \in nonces
       THEN answers' = answers \cup Answer(a, "reused", Nothing) /\ UNCHANGED parked
       ELSE parked' = parked \cup {a} /\ UNCHANGED answers
    /\ UNCHANGED <<venue, nonces, done, outbox, local, fileVars, agentVars, faults, history>>

\* ingest(): the nonce is on disk before anything is done with the message,
\* which the handler then parks at its await of the registry
Arrive(a) ==
    /\ a \in wire
    /\ wire' = wire \ {a}
    /\ IF a.m \in nonces
       THEN /\ answers' = answers \cup Answer(a, "reused", Nothing)
            /\ UNCHANGED <<nonces, parked>>
       ELSE /\ nonces' = nonces \cup {a.m}
            /\ parked' = parked \cup {a}
            /\ UNCHANGED answers
    /\ UNCHANGED <<venue, done, outbox, local, fileVars, agentVars, faults, history>>

\* startNegotiation() and advance(), after the await
Handle(a) ==
    LET t == a.m.task
        mine == venue[t].state = "open" /\ venue[t].turn = "me"
    IN  /\ a \in parked
        /\ parked' = parked \ {a}
        /\ done' = done \cup {a.m}
        /\ \/ /\ a.m.type = "TENDER"
              /\ \E s \in {"open", "rejected"} : venue' = [venue EXCEPT ![t].state = s]
              /\ UNCHANGED outbox
           \/ a.m.type = "COUNTER" /\ mine /\ (Counter(t, "me") \/ Cancel(t))
           \/ a.m.type = "ACCEPT" /\ mine /\ Accept(t, "me")
           \/ a.m.type = "REJECT" /\ mine /\ Cancel(t)
           \/ a.m.type # "TENDER" /\ ~mine /\ UNCHANGED <<venue, outbox>>
        /\ answers' = answers \cup
              Answer(a, IF a.m.type = "TENDER" \/ mine THEN "task" ELSE "refused",
                     StatusMessage(t)')
        /\ UNCHANGED <<nonces, wire, local, fileVars, agentVars, faults, history>>

\* The venue dies: what it was handling is gone, the nonces are not
VenueDies ==
    /\ parked # {} /\ faults < MaxFaults
    /\ faults' = faults + 1
    /\ parked' = {} /\ answers' = {}
    /\ UNCHANGED <<venue, nonces, done, outbox, wire, local, fileVars, agentVars, history>>

----------------------------------------------------------------------------
(* What the agent does with an outcome                                     *)

\* Each id is added once and released once, whatever comes again
Add(b, t) == IF t \in b.added THEN b
             ELSE [b EXCEPT !.added = @ \cup {t}, !.outstanding = @ + 1]
Release(b, t) ==
    IF t \in b.released THEN b
    ELSE [b EXCEPT !.released = @ \cup {t},
                   !.outstanding = IF @ = 0 THEN 0 ELSE @ - 1]

Applies(n) == n # Nothing /\ local[n.task] # "none"

\* process() of an outcome: the local task after it
Heard(n) ==
    IF ~Applies(n) THEN local
    ELSE [local EXCEPT ![n.task] = IF n.type = "REFUSED" THEN "CANCELED" ELSE n.type]

\* Mutant: exposure is added and never released
BookKeeping(n) == IF Applies(n) /\ n.type = "COMMITTED" THEN Add(book, n.task) ELSE book
\* The exposure book after it: released if the artifact is there to say how much
BookAfter(n) ==
    CASE Applies(n) /\ n.type = "COMMITTED" -> Add(book, n.task)
      [] Applies(n) /\ n.type = "VOIDED" /\ n.task \in artifacts -> Release(book, n.task)
      [] OTHER -> book

Record(n) ==
    /\ artifacts' = artifacts \cup
          (IF Applies(n) /\ n.type = "COMMITTED" THEN {n.task} ELSE {})
    /\ book' = BookAfter(n)

\* The tasks are written after the rest
Process(n) ==
    /\ local' = Heard(n)
    /\ saved' = IF Applies(n) THEN local' ELSE saved
    /\ Record(n)

\* reconcile(), ingestTask(): pull a task that is OPEN here; a terminal one's
\* notice is processed on the spot, unless seen before
Reconcile(t) ==
    /\ local[t] = "OPEN" /\ Terminal(t) /\ StatusMessage(t) \notin seen
    /\ seen' = seen \cup {StatusMessage(t)}
    /\ Process(StatusMessage(t))
    /\ UNCHANGED <<venueVars, netVars, agentVars, faults, history>>

Job(n, stage, m, attempt) == [notice |-> n, stage |-> stage, m |-> m, attempt |-> attempt]

Fault == faults < MaxFaults /\ faults' = faults + 1

\* handleRpc(): a pushed notice is marked seen and acknowledged, and processed
\* later.  One whose push fails is overtaken by the next; one whose
\* acknowledgement is lost is pushed again.
Push(i) ==
    LET n == outbox[i]
        rest == SubSeq(outbox, 1, i - 1) \o SubSeq(outbox, i + 1, Len(outbox))
    IN  /\ \/ i = 1 /\ outbox' = rest /\ UNCHANGED <<faults, overtaken>>
           \/ i = 1 /\ n \notin seen /\ Fault /\ UNCHANGED <<outbox, overtaken>>
           \/ i > 1 /\ outbox' = rest /\ Fault /\ overtaken' = TRUE
        /\ seen' = seen \cup {n}
        /\ queue' = IF n \in seen THEN queue ELSE Append(queue, n)
        /\ UNCHANGED <<venue, nonces, parked, done, netVars, local, saved, jobs,
                       artifacts, book, torn, racing>>

\* process() of an outcome
Learn ==
    /\ queue # <<>> /\ Head(queue).type \in Outcomes
    /\ Process(Head(queue))
    /\ queue' = Tail(queue)
    /\ torn' = IF Applies(Head(queue)) THEN torn ELSE torn \cup {Head(queue).task}
    /\ UNCHANGED <<venueVars, netVars, seen, jobs, faults, overtaken, racing>>

\* process() of a request, up to the strategy's decision
Consider ==
    LET n == Head(queue)
        known == n.type = "TENDER" \/ local[n.task] # "none"
    IN  /\ queue # <<>> /\ n.type \in Requests
        /\ local' = IF n.type = "TENDER" THEN [local EXCEPT ![n.task] = "OPEN"] ELSE local
        /\ jobs' = jobs \cup (IF known THEN {Job(n, "deciding", Nothing, 0)} ELSE {})
        /\ queue' = Tail(queue)
        /\ UNCHANGED <<venueVars, netVars, fileVars, faults, history>>

\* Mutant: one load more than the mandate allows
GuardLoose == book.outstanding <= Limit
\* guard(): the exposure book against the mandate
Guard == book.outstanding + 1 <= Limit

\* Tasks the agent has accepted without knowing the outcome
Unresolved ==
    {t \in Tasks :
        \/ venue[t].state # "canceled" /\ "me" \in venue[t].accepted /\ t \notin book.added
        \/ \E x \in jobs \cup wire \cup parked : x.m = Message(t, "ACCEPT", venue[t].round)}

\* sendRaw(): signed once; every attempt sends the same message
Send(j, n, m) ==
    /\ jobs' = (jobs \ {j}) \cup {Job(n, "sending", m, 1)}
    /\ wire' = wire \cup {[m |-> m, attempt |-> 1]}

\* act(), accept(): the strategy has decided, and the mandate with it
Decide(j) ==
    LET t == j.notice.task
        r == j.notice.round
    IN  /\ j \in jobs /\ j.stage = "deciding"
        /\ \/ Send(j, j.notice, Message(t, "REJECT", r)) /\ UNCHANGED racing
           \/ /\ j.notice.type # "ACCEPT" /\ r < MaxRounds[t]
              /\ Send(j, j.notice, Message(t, "COUNTER", r + 1)) /\ UNCHANGED racing
           \/ /\ Guard
              /\ Send(j, j.notice, Message(t, "ACCEPT", r))
              /\ racing' = (racing \/ Unresolved \ {t} # {})
        /\ UNCHANGED <<venueVars, answers, local, fileVars, queue, faults, torn, overtaken>>

\* tender(): there is a local task once the venue has answered
Tender(t) ==
    LET m == Message(t, "TENDER", 1)
    IN  /\ t \in Outbound /\ local[t] = "none"
        /\ m \notin nonces \cup {a.m : a \in wire} \cup {j.m : j \in jobs}
        /\ Send(Nothing, Nothing, m)
        /\ UNCHANGED <<venueVars, answers, local, fileVars, queue, faults, history>>

\* send(), to its end: the outcome in the answer, or pulled after a retry that
\* was answered NONCE_REUSED, is processed; a rejection is noted, whatever came;
\* the tasks are written
Ends(j, outcome) ==
    LET n == IF outcome \in seen THEN Nothing ELSE outcome
    IN  /\ jobs' = jobs \ {j}
        /\ seen' = seen \cup ({outcome} \ {Nothing})
        /\ local' = IF j.m.type = "REJECT" THEN [Heard(n) EXCEPT ![j.m.task] = "REJECTED"]
                    ELSE Heard(n)
        /\ saved' = local'
        /\ Record(n)

\* tender(), to its end: nothing is known of a task whose answer was lost
TenderEnds(j, a) ==
    /\ jobs' = jobs \ {j}
    /\ local' = IF a.kind # "task" THEN local
                ELSE [local EXCEPT ![j.m.task] = IF a.notice = Nothing THEN "OPEN" ELSE "REFUSED"]
    /\ saved' = IF a.kind = "task" THEN local' ELSE saved
    /\ UNCHANGED <<seen, artifacts, book>>

Answered(j, a) ==
    /\ j \in jobs /\ j.stage = "sending"
    /\ a \in answers /\ a.m = j.m /\ a.attempt = j.attempt
    /\ answers' = answers \ {a}
    /\ IF j.m.type = "TENDER" THEN TenderEnds(j, a)
       ELSE Ends(j, IF a.kind = "reused" THEN StatusMessage(j.m.task) ELSE a.notice)
    /\ UNCHANGED <<venueVars, wire, queue, faults, history>>

\* The connection drops, and the request is lost, or late, or its answer is; the
\* message is sent again, or given up on
Dropped(j) ==
    /\ j \in jobs /\ j.stage = "sending"
    /\ IF j.m \in {a.m : a \in wire \cup parked \cup answers} THEN Fault ELSE UNCHANGED faults
    /\ answers' = {a \in answers : a.m # j.m}
    /\ \E late \in SUBSET {a \in wire : a.m = j.m} :
          LET left == {a \in wire : a.m # j.m} \cup late
          IN  IF j.attempt < MaxAttempts
              THEN /\ wire' = left \cup {[m |-> j.m, attempt |-> j.attempt + 1]}
                   /\ jobs' = (jobs \ {j}) \cup {[j EXCEPT !.attempt = @ + 1]}
                   /\ UNCHANGED <<local, fileVars>>
              ELSE /\ wire' = left
                   /\ IF j.m.type = "TENDER"
                      THEN jobs' = jobs \ {j} /\ UNCHANGED <<local, fileVars>>
                      ELSE Ends(j, Nothing)
    /\ UNCHANGED <<venueVars, queue, history>>

UnderWay == {queue[i].task : i \in DOMAIN queue} \cup {j.m.task : j \in jobs}
              \cup {j.notice.task : j \in jobs}

\* The agent dies and is started again
Dies ==
    /\ Fault
    /\ torn' = torn \cup UnderWay
    /\ queue' = <<>> /\ jobs' = {} /\ answers' = {}
    /\ local' = saved
    /\ UNCHANGED <<venueVars, wire, saved, seen, artifacts, book, overtaken, racing>>

\* It dies between the files of process(): the artifact, the book, the tasks
DiesWithin ==
    /\ queue # <<>> /\ Head(queue).type = "COMMITTED" /\ Applies(Head(queue))
    /\ Fault
    /\ torn' = torn \cup UnderWay
    /\ queue' = <<>> /\ jobs' = {} /\ answers' = {}
    /\ local' = saved
    /\ artifacts' = artifacts \cup {Head(queue).task}
    /\ book' \in {book, BookAfter(Head(queue))}
    /\ UNCHANGED <<venueVars, wire, saved, seen, overtaken, racing>>

Next ==
    \/ \E t \in Tasks : OtherActs(t) \/ Timeout(t) \/ Tender(t) \/ Reconcile(t)
    \/ \E a \in wire : Arrive(a)
    \/ \E a \in parked : Handle(a)
    \/ \E i \in DOMAIN outbox : Push(i)
    \/ \E j \in jobs :
          Decide(j) \/ Dropped(j) \/ \E a \in answers : Answered(j, a)
    \/ Learn \/ Consider
    \/ VenueDies \/ Dies \/ DiesWithin

Spec == Init /\ [][Next]_vars

----------------------------------------------------------------------------
\* However often a message is sent, and whatever the venue does while the first
\* copy is being handled, the venue acts on it once (sendRaw, ingest)
HandledOnce == \A a \in parked : a.m \notin done

\* The book counts the loads the agent holds to be committed: neither pushes
\* repeated nor answers crossing them count one twice, and a VOIDED gives back
\* what its COMMITTED took, as long as notices come in order and are acted on
\* (process, ExposureBook)
BookFollowsStatus ==
    ~overtaken =>
        /\ {t \in Tasks \ torn : local[t] = "COMMITTED"} = (book.added \ book.released) \ torn
        /\ torn = {} => book.outstanding = Cardinality(book.added \ book.released)

\* The mandate's exposure limit holds at the venue, for loads not voided, when
\* the agent has one acceptance unresolved at a time (guard, accept)
CommittedWithinLimit ==
    torn = {} /\ ~overtaken /\ ~racing =>
        Cardinality({t \in Tasks : venue[t].state = "completed" /\ ~venue[t].voided}) <= Limit

\* What the agent takes for open and the venue has ended is still to be learnt,
\* by a pull or from the queue, even when the venue has forgotten a message and
\* answers are lost, unless a notice of that task was seen and not acted on
\* (ingestTask, reconcile, handleRpc)
StillToLearn ==
    \A t \in Tasks \ torn :
        local[t] = "OPEN" /\ Terminal(t) /\ ~overtaken
        => \/ StatusMessage(t) \notin seen
           \/ \E i \in DOMAIN queue : queue[i].task = t /\ queue[i].type \in Outcomes

\* Both: the agent's book follows the venue's status of each load, and what it has
\* yet to learn it can still learn (noteStatus, handleRpc)
BookIsTrue == BookFollowsStatus /\ StillToLearn

\* StillToLearn without its condition: the timer pulls every task that is open here
\* (README.md:174)
OpenIsPulled ==
    \A t \in Tasks :
        local[t] = "OPEN" /\ Terminal(t) /\ queue = <<>> /\ jobs = {} => StatusMessage(t) \notin seen
=============================================================================
