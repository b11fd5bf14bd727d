------------------------------ MODULE MCOutbox ------------------------------
(* Instances of Outbox for TLC: a tender forwarded to the carrier, the       *)
(* commitment of another load told to it, and a pickup told to the broker.   *)
EXTENDS Outbox, TLC

CONSTANTS broker, carrier, tender, commitment, pickup

EachHears == [c \in Causes |-> <<IF c = pickup THEN broker ELSE carrier>>]

AsInService == [c \in Causes |->
    CASE c = tender -> "after"
      [] c = commitment -> "within"
      [] c = pickup -> "unsaved"]
============================
