---------------------------- MODULE MCLoadRules ----------------------------
(* Instances of VenueCommit for TLC: the rules about who may commit a load.  *)
(* Two behaviours side by side, told apart by `part'.  "serial": a broker    *)
(* tenders one load twice and no handler starts while another is parked.     *)
(* A task: it is tendered to a carrier, which tenders the load on by the     *)
(* other task, with handlers that overlap.                                   *)
EXTENDS VenueCommit, TLC

CONSTANTS load1, b1, c1, c2      \* a load, its broker, two carriers

\* The part that runs alone is not the name of a task
ASSUME PartsAssumption == "serial" \notin Tasks

VARIABLE part

OneLoad == [t \in Tasks |-> load1]
OneBroker == [t \in Tasks |-> b1]
CarriersAlike == [t \in Tasks |-> c1]

\* Task `first' goes from the broker to c1, the other one from c1 to c2
Rebroker(first) == INSTANCE VenueCommit WITH
    BrokerOf <- [t \in Tasks |-> IF t = first THEN b1 ELSE c1],
    CarrierOf <- [t \in Tasks |-> IF t = first THEN c1 ELSE c2],
    Overlap <- TRUE,
    Reported <- {},
    MaxRounds <- 1,
    MaxCommits <- 1,
    MaxCrashes <- 1

Symmetry == Permutations(Tasks) \cup Permutations(Handlers)

MCInit ==
    \/ part = "serial" /\ Init
    \/ \E t \in Tasks : part = t /\ Rebroker(t)!Init

MCNext ==
    /\ UNCHANGED part
    /\ \/ part = "serial" /\ Next
       \/ \E t \in Tasks : part = t /\ Rebroker(t)!Next

MCSpec == MCInit /\ [][MCNext]_<<part, vars>>

\* One handler at a time: the load has one ACTIVE commitment, and the parties of
\* a negotiation hear one outcome of it, the one it has (advance, commit,
\* terminate, applyCommit, applyVoid)
OneOutcomePerLoad ==
    part = "serial" => OneActivePerLoad /\ OutcomeToldOnce

\* One handler at a time: "VOIDED from ACTIVE only".  Handlers that overlap: no
\* carrier opens a negotiation of a load it is committed to perform
\* (voidCommitment after its check; startNegotiation (b))
VoidsAndTendersInTurn ==
    [][IF part = "serial" THEN VoidsActiveOnly
       ELSE \A t \in Tasks : part = t => Rebroker(t)!OpensUnowed]_<<part, vars>>
============================================================================
