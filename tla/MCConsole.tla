----------------------------- MODULE MCConsole -----------------------------
(***************************************************************************)
(* The console: a behaviour is one of its clients being set up (Onboarding)  *)
(* or one of the process of an agent (Supervisor), the other standing still.  *)
(***************************************************************************)
EXTENDS Onboarding

CONSTANTS oA, oB, uA, uB, Processes, Requests, MaxLimits, MaxDeaths, MaxStops
VARIABLES part, console, procs, process, status, signed, written, request, waiting, said, deaths, stops

Agent == INSTANCE Supervisor

agentVars ==
    <<console, procs, process, status, signed, written, request, waiting, said, deaths, stops>>

OwnerOnRecord == [u \in Usdots |-> IF u = uB THEN oB ELSE oA]

MCInit ==
    /\ OnboardingInit /\ Agent!SupervisorInit
    /\ part \in {"clients", "client", "agent"}

\* Two clients who sign once and whose agents go on running, or one who
\* proves once and signs anew
SignedOnce == \A o \in Orgs : org'[o].mandate.number <= 1
RunsOn == \A u \in Usdots : running[u] # NoProcess => running'[u] # NoProcess
ProvedOnce == \A p \in Proofs : p > 1 => challenge'[p] = "none"
Alone == \A o \in Orgs, h \in Handlers : o # oA => org'[o] = org[o] /\ handler'[h].org # o

MCNext ==
    \/ /\ part \in {"clients", "client"} /\ OnboardingNext
       /\ IF part = "client" THEN Alone /\ ProvedOnce ELSE SignedOnce /\ RunsOn
       /\ UNCHANGED <<part, agentVars>>
    \/ part = "agent" /\ Agent!SupervisorNext /\ UNCHANGED <<part, onboardingVars>>

\* Fairness is of the agent's part, where the other variables never change.
MCSpec ==
    /\ MCInit /\ [][MCNext]_<<part, onboardingVars, agentVars>>
    /\ part = "agent" => Agent!SupervisorFairness

\* As stated in Onboarding: a company is claimed by one client, and its credential
\* is issued under the principal who proved control (claimEntity, provisionAndStart)
ClientsOwn == OneClaimant /\ PrincipalsOwn

\* As stated in Supervisor: an agent is brought back, in whatever way it and
\* the console ended (sweep, recover, the exit event of supervisor.ts).
ComesBack == part = "agent" => Agent!ComesBack

\* As stated in Supervisor: "Your agent is running on the new limits" (server.ts:436).
RunsOnNewLimits == Agent!RunsOnNewLimits
=============================================================================
