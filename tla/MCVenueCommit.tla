--------------------------- MODULE MCVenueCommit ---------------------------
(* Instances of VenueCommit for TLC: a broker and the carriers it tenders to. *)
EXTENDS VenueCommit, TLC

CONSTANTS load1, b1, c1      \* a load, its broker, the carriers' side

\* The broker tenders one load several times, to carriers alike
OneLoad == [t \in Tasks |-> load1]
OneBroker == [t \in Tasks |-> b1]
CarriersAlike == [t \in Tasks |-> c1]

Symmetry == Permutations(Tasks) \cup Permutations(Handlers)
              \cup Permutations(Offers)
============================================================================
