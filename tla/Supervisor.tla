----------------------------- MODULE Supervisor -----------------------------
(***************************************************************************)
(* One agent that the console runs for a client, as an OS process: the      *)
(* supervisor (app/supervisor.ts), the change of limits that stops the agent *)
(* and starts it anew (POST /mandate, app/server.ts; provisionAndStart,       *)
(* app/onboarding.ts), and the processes, which load what is on disk and then  *)
(* listen on the one port that the agent has.                                *)
(*                                                                         *)
(* The console runs one handler at a time, but it waits for signers and for  *)
(* health checks, and events of processes come in between.  A process that    *)
(* is sent SIGTERM takes a while to go; one that outlives the console goes on. *)
(***************************************************************************)
EXTENDS Naturals

CONSTANTS
    Processes,  \* slots for processes of this agent: numbers above 0
    Requests,   \* changes of limits under way at a time
    MaxLimits,  \* bound: limits signed
    MaxDeaths,  \* bound: processes that die by themselves
    MaxStops    \* bound: ends of the console, by a crash or in order

VARIABLES
    console,  \* "down", "recovering" or "up"
    procs,    \* procs: the process on record for the agent
    process,  \* [Processes -> [state, limits, ours, term]], term: sent SIGTERM
    status,   \* agents.status
    signed,   \* the limits last signed, by number
    written,  \* the limits in the agent's directory
    request,  \* [Requests -> change of limits under way]
    waiting,  \* start called by recover or by sweep waits for health
    said,     \* history: limits the client was last told to be running on
    deaths, stops

supervisorVars ==
    <<console, procs, process, status, signed, written, request, waiting, said, deaths, stops>>

None == 0
Gone == [state |-> "gone", limits |-> 0, ours |-> FALSE, term |-> FALSE]
Booting == [Gone EXCEPT !.state = "booting", !.ours = TRUE]
NoRequest == [at |-> "none"]

\* A client whose agent has been provisioned once and runs
SupervisorInit ==
    /\ console = "up" /\ status = "LIVE"
    /\ procs = CHOOSE p \in Processes : TRUE
    /\ process = [p \in Processes |->
                    IF p = procs THEN [Booting EXCEPT !.state = "serving", !.limits = 1] ELSE Gone]
    /\ signed = 1 /\ written = 1 /\ said = 1
    /\ request = [r \in Requests |-> NoRequest] /\ waiting = FALSE
    /\ deaths = 0 /\ stops = 0

Serving == {p \in Processes : process[p].state = "serving"}
Answered == Serving # {}

----------------------------------------------------------------------------
(* Processes *)

\* A process reads the configuration and the mandate that its directory holds
Load(p) ==
    /\ process[p].state = "booting"
    /\ process' = [process EXCEPT ![p].state = "loaded", ![p].limits = written]
    /\ UNCHANGED <<console, procs, status, signed, written, request, waiting, said, deaths, stops>>

\* It listens, or ends for the port being taken
Listen(p) ==
    /\ process[p].state = "loaded"
    /\ process' = [process EXCEPT ![p].state = IF Answered THEN "exited" ELSE "serving"]
    /\ UNCHANGED <<console, procs, status, signed, written, request, waiting, said, deaths, stops>>

\* SIGTERM, for which an agent has no handler, has come through
Alive(p) == process[p].state \in {"booting", "loaded", "serving"}
Ends(p) ==
    /\ Alive(p) /\ process[p].term
    /\ process' = [process EXCEPT ![p].state = "exited"]
    /\ UNCHANGED <<console, procs, status, signed, written, request, waiting, said, deaths, stops>>

Die(p) ==
    /\ Alive(p) /\ deaths < MaxDeaths
    /\ process' = [process EXCEPT ![p].state = "exited"] /\ deaths' = deaths + 1
    /\ UNCHANGED <<console, procs, status, signed, written, request, waiting, said, stops>>

\* Mutant: the entry of an agent that has ended is kept
EntryStays(p) == procs

\* The exit event at the console that spawned the process.  An agent never
\* ends with code 0, and the entry deleted is the agent's, whichever it is
Entry(p) == None
Exit(p) ==
    /\ process[p].state = "exited"
    /\ process' = [process EXCEPT ![p] = Gone]
    /\ IF process[p].ours
       THEN console # "down" /\ procs' = Entry(p) /\ status' = "FAILED"
       ELSE UNCHANGED <<procs, status>>
    /\ UNCHANGED <<console, signed, written, request, waiting, said, deaths, stops>>

----------------------------------------------------------------------------
(* start: nothing to do with a process on record; else spawn and wait for    *)
(* health, whoever answers on the port                                       *)

Spawns ==
    LET free == {p \in Processes : process[p] = Gone}
        p == CHOOSE q \in free : TRUE
    IN  /\ free # {}
        /\ process' = [process EXCEPT ![p] = Booting]
        /\ procs' = p /\ status' = "STARTING"

Healthy == status' = IF Answered THEN "LIVE" ELSE "FAILED"

\* stop
Killed == IF procs = None THEN process ELSE [process EXCEPT ![procs].term = TRUE]

----------------------------------------------------------------------------
(* A change of limits *)

Sign(r) ==
    /\ console = "up" /\ request[r] = NoRequest /\ signed < MaxLimits
    /\ signed' = signed + 1
    /\ request' = [request EXCEPT ![r] = [at |-> "signed"]]
    /\ UNCHANGED <<console, procs, process, status, written, waiting, said, deaths, stops>>

\* The agent stopped and the limits of record read, before the wait for a
\* signature on them
StopToChange(r) ==
    /\ request[r].at = "signed"
    /\ process' = Killed /\ procs' = None
    /\ request' = [request EXCEPT ![r] = [at |-> "signing", limits |-> signed]]
    /\ UNCHANGED <<console, status, signed, written, waiting, said, deaths, stops>>

\* provision and start
Provision(r) ==
    /\ request[r].at = "signing"
    /\ written' = request[r].limits
    /\ IF procs = None THEN Spawns ELSE UNCHANGED <<procs, process, status>>
    /\ request' = [request EXCEPT ![r].at = IF procs = None THEN "starting" ELSE "started"]
    /\ UNCHANGED <<console, signed, waiting, said, deaths, stops>>

\* Health, and onboard, which finds the credential; or 20 seconds without.
\* The client is told the same
Changed(r) ==
    /\ request[r].at \in {"starting", "started"}
    /\ IF request[r].at = "starting" \/ Answered THEN Healthy ELSE UNCHANGED status
    /\ said' = request[r].limits
    /\ request' = [request EXCEPT ![r] = NoRequest]
    /\ UNCHANGED <<console, procs, process, signed, written, waiting, deaths, stops>>

----------------------------------------------------------------------------
(* Sweeps, and the console's own end and start *)

\* sweep: an agent that answers is live, one that does not and has no process
\* on record is started.  No agent is ever STOPPED
Restart == procs = None /\ Spawns /\ waiting' = TRUE
Sweep ==
    /\ console = "up" /\ ~waiting
    /\ \/ Answered /\ status' = "LIVE" /\ UNCHANGED <<procs, process, waiting>>
       \/ ~Answered /\ Restart
    /\ UNCHANGED <<console, signed, written, request, said, deaths, stops>>

\* What recover or a sweep started has been waited for
Awaited ==
    /\ waiting /\ waiting' = FALSE /\ Healthy
    /\ console' = "up"
    /\ UNCHANGED <<procs, process, signed, written, request, said, deaths, stops>>

\* bye, which kills what is on record, or a crash, which leaves it running
Stop ==
    /\ console # "down" /\ stops < MaxStops /\ stops' = stops + 1
    /\ \E kills \in BOOLEAN :
        process' = [p \in Processes |-> [(IF kills THEN Killed ELSE process)[p] EXCEPT !.ours = FALSE]]
    /\ console' = "down" /\ procs' = None /\ waiting' = FALSE
    /\ request' = [r \in Requests |-> NoRequest]
    /\ UNCHANGED <<status, signed, written, said, deaths>>

\* main: recover, before the console listens or sweeps
Recover ==
    /\ console = "down" /\ Spawns
    /\ console' = "recovering" /\ waiting' = TRUE
    /\ UNCHANGED <<signed, written, request, said, deaths, stops>>

----------------------------------------------------------------------------
Runs(p) == Load(p) \/ Listen(p) \/ Ends(p) \/ Exit(p)
Serves(r) == StopToChange(r) \/ Provision(r) \/ Changed(r)

SupervisorNext ==
    \/ \E p \in Processes : Runs(p) \/ Die(p)
    \/ \E r \in Requests : Sign(r) \/ Serves(r)
    \/ Sweep \/ Awaited \/ Stop \/ Recover

\* Processes that are spawned boot, signals and events arrive, handlers that
\* wait are answered or give up, the sweep comes every 15 seconds, and a
\* console that is down is started again
SupervisorFairness ==
    /\ \A p \in Processes : WF_supervisorVars(Runs(p))
    /\ \A r \in Requests : WF_supervisorVars(Serves(r))
    /\ WF_supervisorVars(Sweep) /\ WF_supervisorVars(Awaited) /\ WF_supervisorVars(Recover)

----------------------------------------------------------------------------
(* Properties *)

\* "An agent is down: the supervisor restarts it every 15 seconds" (RUNBOOK):
\* whatever processes die and however the console ends, there is always again
\* a process that answers for the agent, and the agent's row says LIVE.
ComesBack == []<>(Answered /\ status = "LIVE")

\* "Signed. Your agent is running on the new limits" (server.ts): with no
\* change under way, no process about to start or to go, the process that
\* answers runs on the limits that the client was told, when they are the
\* last it signed.  It does not: exit events of the process before take the
\* new process off the record, and what is not on record is not stopped.
RunsOnNewLimits ==
    (/\ \A r \in Requests : request[r] = NoRequest
     /\ \A p \in Processes : process[p].state \in {"serving", "gone"} /\ ~process[p].term
     /\ said = signed)
        => \A p \in Serving : process[p].limits = said
=============================================================================
