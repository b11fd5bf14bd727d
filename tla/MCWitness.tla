------------------------------ MODULE MCWitness ------------------------------
(* Instances of Witness for TLC: two witnesses of one venue.                 *)
EXTENDS Witness

CONSTANTS w1, w2, p1
============================================================================
