----------------------------- MODULE CommitPoint -----------------------------
(***************************************************************************)
(* What the venue promises of a commitment, without journals, snapshots or *)
(* crashes: a commitment is decided in one indivisible step, its effects   *)
(* follow, and the same for its VOID.  No decision is taken while the      *)
(* effects of an earlier one are owed, a decision is never undone, and     *)
(* what is decided is eventually carried out.                              *)
(***************************************************************************)
CONSTANT Commitments

VARIABLES
    decided,   \* commitments decided
    applied,   \* those of them carried out
    voided,    \* commitments decided void
    released   \* those of them given back

vars == <<decided, applied, voided, released>>

Owed == decided # applied \/ voided # released

Init == decided = {} /\ applied = {} /\ voided = {} /\ released = {}

Decide(c) ==
    /\ ~Owed
    /\ c \notin decided
    /\ decided' = decided \cup {c}
    /\ UNCHANGED <<applied, voided, released>>

DecideVoid(c) ==
    /\ ~Owed
    /\ c \in applied \ voided
    /\ voided' = voided \cup {c}
    /\ UNCHANGED <<decided, applied, released>>

\* Carry out whatever is decided
Apply ==
    /\ Owed
    /\ applied' = decided
    /\ released' = voided
    /\ UNCHANGED <<decided, voided>>

Next == Apply \/ \E c \in Commitments : Decide(c) \/ DecideVoid(c)

Spec == Init /\ [][Next]_vars /\ WF_vars(Apply)
=============================================================================
