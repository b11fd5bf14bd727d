--------------------------- MODULE MCStatusNotices ---------------------------
(* Instances of StatusNotices for TLC: a credential issued here and one that *)
(* was not; a notice about the one, about its entity, and about the other.   *)
EXTENDS StatusNotices, TLC

CONSTANTS c1, c2, byInsurer, byRegistry, elsewhere

AboutEach == byInsurer :> {c1} @@ byRegistry :> {c1} @@ elsewhere :> {c2}
==============================================================================
