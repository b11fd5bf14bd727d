---------------------------- MODULE VenueServer -----------------------------
(***************************************************************************)
(* The venue's process: it recovers before it serves and then runs its jobs  *)
(* (venue/server.ts), each of them on a timer of its own (Scheduler,           *)
(* venue/jobs.ts), and admits callers at a rate (RateLimiter and startServer,  *)
(* protocol/rpc.ts).                                                         *)
(*                                                                         *)
(* A job's run waits for others, so that timers go off and requests come in    *)
(* meanwhile.  Time is counted in the ticks in which a token is refilled.       *)
(***************************************************************************)
EXTENDS Naturals, FiniteSets

CONSTANTS
    Jobs, Callers,
    Capacity,    \* tokens of a full bucket
    EvictAfter,  \* a bucket unused this long may be forgotten: longer than it takes to fill
    MaxBuckets,  \* buckets held before any is forgotten
    MaxTicks,    \* bound: the clock
    MaxEnds      \* bound: ends of the process

VARIABLES
    stage,     \* "down", "recovering" or "serving"
    running,  \* [Jobs -> is a run of it under way?]
    runs,     \* history: [Jobs -> runs of it under way]
    tick,
    bucket,   \* [Callers -> [tokens, at]]
    window,   \* history: of a caller, from when on, and requests admitted since
    ends

serverVars == <<stage, running, runs, tick, bucket, window, ends>>

NoBucket == [at |-> "none"]
NoWindow == [caller |-> "none"]
Fresh == [c \in Callers |-> NoBucket]

ServerInit ==
    /\ stage = "down" /\ tick = 0 /\ ends = 0
    /\ running = [j \in Jobs |-> FALSE] /\ runs = [j \in Jobs |-> 0]
    /\ bucket = Fresh /\ window = NoWindow

----------------------------------------------------------------------------
(* The process *)

Start ==
    /\ stage = "down" /\ stage' = "recovering"
    /\ UNCHANGED <<running, runs, tick, bucket, window, ends>>

Recovered ==
    /\ stage = "recovering" /\ stage' = "serving"
    /\ UNCHANGED <<running, runs, tick, bucket, window, ends>>

\* It dies, or recovery throws
Stop ==
    /\ stage # "down" /\ ends < MaxEnds /\ ends' = ends + 1
    /\ stage' = "down"
    /\ running' = [j \in Jobs |-> FALSE] /\ runs' = [j \in Jobs |-> 0]
    /\ bucket' = Fresh /\ window' = NoWindow
    /\ UNCHANGED tick

----------------------------------------------------------------------------
(* Jobs *)

Free(j) == ~running[j]

\* The timer goes off; a run under way is left alone
Due(j) ==
    /\ stage = "serving" /\ Free(j) /\ runs[j] < 2
    /\ running' = [running EXCEPT ![j] = TRUE]
    /\ runs' = [runs EXCEPT ![j] = @ + 1]
    /\ UNCHANGED <<stage, tick, bucket, window, ends>>

\* Mutant: a run that throws stays the one under way
EndedWell(j, ok) == [running EXCEPT ![j] = ~ok]

\* A run ends, with a result or an error
Ended(j, ok) == [running EXCEPT ![j] = FALSE]

End(j, ok) ==
    /\ runs[j] > 0
    /\ runs' = [runs EXCEPT ![j] = @ - 1]
    /\ running' = Ended(j, ok)
    /\ UNCHANGED <<stage, tick, bucket, window, ends>>

----------------------------------------------------------------------------
(* Callers *)

Held(buckets) == {c \in Callers : buckets[c] # NoBucket}
Lesser(a, b) == IF a < b THEN a ELSE b

Tokens(c) ==
    IF bucket[c] = NoBucket THEN Capacity
    ELSE Lesser(Capacity, bucket[c].tokens + (tick - bucket[c].at))

Stale(b) == b # NoBucket /\ tick - b.at > EvictAfter

\* allow: a token is taken, and with too many buckets the stale ones are forgotten
Admit(c) ==
    /\ stage = "serving" /\ Tokens(c) >= 1
    /\ LET taken == [bucket EXCEPT ![c] = [at |-> tick, tokens |-> Tokens(c) - 1]]
       IN  bucket' = IF Cardinality(Held(taken)) > MaxBuckets
                     THEN [d \in Callers |-> IF Stale(taken[d]) THEN NoBucket ELSE taken[d]]
                     ELSE taken
    /\ window' = IF window.caller = c THEN [window EXCEPT !.admitted = @ + 1] ELSE window
    /\ UNCHANGED <<stage, running, runs, tick, ends>>

Refuse(c) ==
    /\ stage = "serving" /\ Tokens(c) < 1
    /\ bucket' = [bucket EXCEPT ![c] = [at |-> tick, tokens |-> Tokens(c)]]
    /\ UNCHANGED <<stage, running, runs, tick, window, ends>>

\* A caller is watched from now on
Observe(c) ==
    /\ window = NoWindow
    /\ window' = [caller |-> c, from |-> tick, admitted |-> 0]
    /\ UNCHANGED <<stage, running, runs, tick, bucket, ends>>

Tick ==
    /\ tick < MaxTicks /\ tick' = tick + 1
    /\ UNCHANGED <<stage, running, runs, bucket, window, ends>>

ServerNext ==
    \/ Start \/ Recovered \/ Stop \/ Tick
    \/ \E j \in Jobs : Due(j) \/ \E ok \in BOOLEAN : End(j, ok)
    \/ \E c \in Callers : Admit(c) \/ Refuse(c) \/ Observe(c)

----------------------------------------------------------------------------
(* Properties *)

\* In no time is a caller admitted more often than a full bucket and the refill
\* of that time allow, with others' requests in between and buckets forgotten
\* (allow, RateLimiter).
AdmittedWithinRate ==
    window # NoWindow => window.admitted <= Capacity + (tick - window.from)

\* No job is run twice at once, and one that is taken to be running is: however its
\* runs end and whatever another job does, its next tick runs it again (runNow; "A
\* job that throws is logged and retried on its next tick; one job never blocks
\* another").
JobsRunAgain == \A j \in Jobs : runs[j] <= 1 /\ (running[j] => runs[j] > 0)
=============================================================================
