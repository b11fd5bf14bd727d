--------------------------- MODULE MCUnderwriting ---------------------------
(* Instances of Underwriting for TLC: guarantees of one carrier or of two.   *)
EXTENDS Underwriting, TLC

CONSTANTS g1, g2, c1, c2

Alike == [g \in Guarantees |-> 2]
OneCarrier == [g \in Guarantees |-> c1]
CarrierEach == [g \in Guarantees |-> IF g = g1 THEN c1 ELSE c2]

Symmetry == Permutations(Guarantees)
============================================================================
