------------------------------- MODULE Outbox -------------------------------
(***************************************************************************)
(* The venue's outbox (src/venue/service.ts, over src/venue/db.ts) and the *)
(* dedupe at the receiving agent (src/agentkit/runtime.ts).                *)
(*                                                                         *)
(* A state change makes the venue owe notices to agents.  They wait in a   *)
(* list that is written to the store with everything else the venue keeps, *)
(* and one flush at a time pushes them.  A flush gives up control only     *)
(* while a push is being answered, so what runs from one answer to the     *)
(* next push is one action.                                                *)
(***************************************************************************)
EXTENDS Naturals, Sequences, FiniteSets

CONSTANTS
    Agents,
    Causes,      \* state changes that owe notices, each happening once
    Recipients,  \* [Causes -> Seq(Agents)]: whom a cause owes one, in order
    Enqueued,    \* [Causes -> when its notices are enqueued, see Kinds]
    MaxAttempts, \* config.outboxMaxAttempts
    Window,      \* message ids an agent remembers
    MaxLate,     \* bound: late pushes under way at a time
    MaxTurns     \* bound: times the venue dies or dead letters are put back

\* With the snapshot of the cause, in a snapshot of their own right after it,
\* or in memory only
Kinds == {"within", "after", "unsaved"}

Elements(s) == {s[i] : i \in 1 .. Len(s)}
Place(s, n) == CHOOSE i \in 1 .. Len(s) : s[i] = n
Without(s, n) == [i \in 1 .. Len(s) - 1 |->
                    IF i < Place(s, n) THEN s[i] ELSE s[i + 1]]

NoticesOf(c) == [i \in 1 .. Len(Recipients[c]) |-> <<c, Recipients[c][i]>>]
Notices == UNION {Elements(NoticesOf(c)) : c \in Causes}
Nothing == <<>>

\* A notice is named by its cause and the agent it is for, so a cause owes an
\* agent one at most
ASSUME OutboxAssumption ==
    /\ \A c \in Causes :
          /\ Recipients[c] \in Seq(Agents)
          /\ \A i, j \in 1 .. Len(Recipients[c]) :
                Recipients[c][i] = Recipients[c][j] => i = j
    /\ Enqueued \in [Causes -> Kinds]
    /\ MaxAttempts \in Nat \ {0} /\ Window \in Nat \ {0}
    /\ MaxLate \in Nat /\ MaxTurns \in Nat

VARIABLES
    owed,      \* causes on disk, in the order they happened
    outbox,    \* notices to push, in memory
    dead,      \* dead letters: notices given up on, in memory and on disk
    rows,      \* [Notices -> seq of its outbox row on disk]; 0: no row
    attempts,  \* [Notices -> failed pushes]
    waiting,   \* notices in the outbox whose next attempt is not due yet
    flushing,  \* is a flush running?
    pass,      \* what the running flush still has to visit
    blocked,   \* agents a push of this flush has failed for
    sending,   \* the notice being pushed
    late,      \* pushes the venue no longer waits for, still to be taken in
    inbox,     \* [Agents -> notices it took in, oldest first]
    failed,    \* history: notices a push of which has failed
    turns,     \* crashes and retries so far
    restarted  \* history: has the venue been restarted?

boxVars   == <<owed, outbox, dead, rows>>
flushVars == <<flushing, pass, blocked, sending>>
vars == <<boxVars, attempts, waiting, flushVars, late, inbox, failed, turns, restarted>>

TypeOK ==
    /\ owed \in Seq(Causes)
    /\ outbox \in Seq(Notices) /\ dead \subseteq Notices
    /\ rows \in [Notices -> Nat]
    /\ attempts \in [Notices -> 0 .. MaxAttempts]
    /\ waiting \subseteq Notices /\ failed \subseteq Notices
    /\ flushing \in BOOLEAN
    /\ pass \subseteq Notices /\ blocked \subseteq Agents
    /\ sending \in Notices \cup {Nothing} /\ late \subseteq Notices
    /\ inbox \in [Agents -> Seq(Notices)]
    /\ turns \in 0 .. MaxTurns /\ restarted \in BOOLEAN

Init ==
    /\ owed = <<>> /\ outbox = <<>> /\ dead = {}
    /\ rows = [n \in Notices |-> 0]
    /\ attempts = [n \in Notices |-> 0] /\ waiting = {} /\ failed = {}
    /\ flushing = FALSE /\ pass = {} /\ blocked = {}
    /\ sending = Nothing
    /\ late = {} /\ inbox = [a \in Agents |-> <<>>]
    /\ turns = 0 /\ restarted = FALSE

----------------------------------------------------------------------------
(* The store                                                               *)

\* A row is written with its place in the list if it is new or changed, deleted
\* if it left the list, and otherwise keeps the place it was written with
Persist(box, changed) ==
    rows' = [n \in Notices |->
                IF n \notin Elements(box) THEN 0
                ELSE IF rows[n] # 0 /\ n \notin changed THEN rows[n]
                ELSE Place(box, n)]

Arrangements(S) == {s \in [1 .. Cardinality(S) -> S] : Elements(s) = S}

\* ORDER BY seq, k: rows of equal seq come in the order of their random ids
Loads(table) ==
    {s \in Arrangements({n \in Notices : table[n] # 0}) :
        \A i, j \in DOMAIN s : i < j => table[s[i]] <= table[s[j]]}

----------------------------------------------------------------------------
(* Pushing                                                                 *)

Due(box) == {n \in Elements(box) : n \notin waiting}

First(box, some) ==
    CHOOSE n \in some : \A m \in some : Place(box, n) <= Place(box, m)

\* Mutant: the end of a flush is not noted down
PushNeverEnds(box, todo) ==
    \/ /\ todo = {}
       /\ flushing' = TRUE /\ pass' = {} /\ sending' = Nothing
    \/ /\ todo # {}
       /\ flushing' = TRUE
       /\ sending' = First(box, todo)
       /\ pass' = todo \ {sending'}

\* Push the next notice of the pass, in the order of the list, or end the flush
Push(box, todo) ==
    \/ /\ todo = {}
       /\ flushing' = FALSE /\ pass' = {} /\ sending' = Nothing
    \/ /\ todo # {}
       /\ flushing' = TRUE
       /\ sending' = First(box, todo)
       /\ pass' = todo \ {sending'}

\* flushOutbox(): one at a time; the pass is what is due when it starts
Flush(box) ==
    \/ flushing /\ UNCHANGED flushVars
    \/ ~flushing /\ blocked' = {} /\ Push(box, Due(box))

\* A state change is written and its notices are enqueued
Owe(c) ==
    /\ c \notin Elements(owed)
    /\ owed' = Append(owed, c)
    /\ outbox' = outbox \o NoticesOf(c)
    /\ Persist(IF Enqueued[c] = "unsaved" THEN outbox ELSE outbox', {})
    /\ Flush(outbox')
    /\ UNCHANGED <<dead, attempts, waiting, late, inbox, failed, turns, restarted>>

\* Any other snapshot: the heartbeat, a handler
Heartbeat ==
    /\ Persist(outbox, {})
    /\ UNCHANGED <<owed, outbox, dead, attempts, waiting, flushVars,
                   late, inbox, failed, turns, restarted>>

\* The scheduled flush, and the one of recover()
FlushJob ==
    /\ ~flushing
    /\ Flush(outbox)
    /\ UNCHANGED <<boxVars, attempts, waiting, late, inbox, failed, turns, restarted>>

BackoffEnds(n) ==
    /\ n \in waiting
    /\ waiting' = waiting \ {n}
    /\ UNCHANGED <<boxVars, attempts, flushVars, late, inbox, failed, turns, restarted>>

\* The agent remembers the last Window messages it took in
Seen(a, n) == \E i \in 1 .. Len(inbox[a]) :
                 inbox[a][i] = n /\ i > Len(inbox[a]) - Window

\* An agent handles a push: marked seen and handed on, unless seen before
TakeIn(n) ==
    \/ Seen(n[2], n) /\ UNCHANGED inbox
    \/ ~Seen(n[2], n) /\ inbox' = [inbox EXCEPT ![n[2]] = Append(@, n)]

ArriveLate(n) ==
    /\ n \in late
    /\ TakeIn(n)
    /\ late' = late \ {n}
    /\ UNCHANGED <<boxVars, attempts, waiting, flushVars, failed, turns, restarted>>

\* The agent takes the push in and acknowledges it: it is off the list
Delivered ==
    /\ sending # Nothing
    /\ TakeIn(sending)
    /\ outbox' = Without(outbox, sending)
    /\ Push(outbox', {m \in pass : m[2] \notin blocked})
    /\ Persist(outbox', {})
    /\ UNCHANGED <<owed, dead, attempts, waiting, blocked, late, failed,
                   turns, restarted>>

\* The venue stops waiting for the push: it was lost, or its agent takes it in
\* all the same, with the answer lost or too late
Unanswered ==
    IF sending # Nothing /\ Cardinality(late) < MaxLate
    THEN {late, late \cup {sending}} ELSE {late}

\* Mutant: a notice given up on is dropped
Abandon(n) == /\ outbox' = Without(outbox, n)
              /\ UNCHANGED dead

GiveUp(n) == /\ outbox' = Without(outbox, n)
             /\ dead' = dead \cup {n}

Exhausted(k) == k >= MaxAttempts

\* Refused, connection lost or no answer: try later, and let the agent's other
\* notices of this pass wait too
Undelivered ==
    LET n == sending
        b == blocked \cup {n[2]}
    IN  /\ sending # Nothing
        /\ attempts' = [attempts EXCEPT ![n] = @ + 1]
        /\ failed' = failed \cup {n}
        /\ blocked' = b
        /\ \/ /\ Exhausted(attempts'[n])
              /\ GiveUp(n)
              /\ UNCHANGED waiting
           \/ /\ ~Exhausted(attempts'[n])
              /\ waiting' = waiting \cup {n}
              /\ UNCHANGED <<outbox, dead>>
        /\ Push(outbox', {m \in pass : m[2] \notin b})
        /\ late' \in Unanswered
        /\ Persist(outbox', {n})
        /\ UNCHANGED <<owed, inbox, turns, restarted>>

\* Mutant: dead letters put back stay dead letters
RetryKeeps(letters) ==
    /\ letters # {} /\ turns < MaxTurns
    /\ turns' = turns + 1
    /\ \E s \in Arrangements(letters) : outbox' = outbox \o s
    /\ attempts' = [n \in Notices |-> IF n \in letters THEN 0 ELSE attempts[n]]
    /\ Persist(outbox', {})
    /\ UNCHANGED <<owed, dead, waiting, flushVars, late, inbox, failed, restarted>>

\* retryDeadLetter(): one dead letter, or all of them, back into the outbox
Retry(letters) ==
    /\ letters # {} /\ turns < MaxTurns
    /\ turns' = turns + 1
    /\ dead' = dead \ letters
    /\ \E s \in Arrangements(letters) : outbox' = outbox \o s
    /\ attempts' = [n \in Notices |-> IF n \in letters THEN 0 ELSE attempts[n]]
    /\ Persist(outbox', {})
    /\ UNCHANGED <<owed, waiting, flushVars, late, inbox, failed, restarted>>

----------------------------------------------------------------------------
(* The venue dies and is started again                                     *)

\* A push under way when it dies may still arrive
Restart(table) ==
    /\ turns < MaxTurns
    /\ turns' = turns + 1
    /\ restarted' = TRUE
    /\ outbox' \in Loads(table)
    /\ late' \in Unanswered
    /\ flushing' = FALSE /\ pass' = {} /\ blocked' = {}
    /\ sending' = Nothing

Crash ==
    /\ Restart(rows)
    /\ UNCHANGED <<owed, dead, rows, attempts, waiting, inbox, failed>>

\* Between the snapshot of the cause and that of its forwarded message
CrashBeforeForward(c) ==
    /\ c \notin Elements(owed) /\ Enqueued[c] = "after"
    /\ owed' = Append(owed, c)
    /\ Persist(outbox, {})
    /\ Restart(rows')
    /\ UNCHANGED <<dead, attempts, waiting, inbox, failed>>

Next ==
    \/ \E c \in Causes : Owe(c)
    \/ Heartbeat \/ FlushJob
    \/ Delivered \/ Undelivered
    \/ \E n \in Notices : BackoffEnds(n) \/ ArriveLate(n)
    \/ \E letters \in {dead} \cup {{n} : n \in dead} : Retry(letters)
    \/ Crash
    \/ \E c \in Causes : CrashBeforeForward(c)

Spec == Init /\ [][Next]_vars

\* The flush job runs every few seconds, every push is answered, refused or
\* times out, and backoffs are at most 30 seconds
Fairness ==
    /\ WF_vars(FlushJob)
    /\ WF_vars(Delivered \/ Undelivered)
    /\ \A n \in Notices : WF_vars(BackoffEnds(n))

FairSpec == Spec /\ Fairness

----------------------------------------------------------------------------
Received(n) == n \in Elements(inbox[n[2]])
OnDisk(n) == rows[n] # 0 \/ n \in dead

\* A notice written with its cause is never forgotten: it is on disk, to be
\* pushed or as a dead letter, until its agent took it in, whatever crashes,
\* lost answers and concurrent snapshots came in between (enqueue, flushOutbox)
NeverForgotten ==
    \A n \in Notices :
        n[1] \in Elements(owed) /\ Enqueued[n[1]] = "within"
        => OnDisk(n) \/ Received(n)

\* A notice is in one place, once: never both owed and given up on, and never
\* twice in a list (flushOutbox, retryDeadLetter)
OneCopy ==
    /\ Elements(outbox) \cap dead = {}
    /\ Cardinality(Elements(outbox)) = Len(outbox)

\* "At-least-once; this makes it effectively once": however often a notice is
\* pushed, its agent hands it on once (markSeen, handleRpc)
TakenInOnce ==
    \A a \in Agents : Cardinality(Elements(inbox[a])) = Len(inbox[a])

HappenedBefore(m, n) ==
    \E i, j \in 1 .. Len(owed) : i < j /\ owed[i] = m[1] /\ owed[j] = n[1]

\* An agent hears of things in the order they happened, except for notices a
\* push of which has failed, as long as the venue is not restarted
OnlyFailedOvertaken ==
    ~restarted =>
        \A a \in Agents : \A i, j \in 1 .. Len(inbox[a]) :
            i < j /\ HappenedBefore(inbox[a][j], inbox[a][i])
            => inbox[a][j] \in failed

\* Each notice is in one place, handed on once, and overtaken only after a push of
\* it has failed
OnceAndInOrder == OneCopy /\ TakenInOnce /\ OnlyFailedOvertaken

\* A notice on disk is taken in by its agent or given up on: no flush is stuck
\* and none of an agent's notices is starved by its others
Settles ==
    \A n \in Notices : rows[n] # 0 ~> Received(n) \/ n \in dead
============================================================================
