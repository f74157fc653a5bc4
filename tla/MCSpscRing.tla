----------------------------- MODULE MCSpscRing -----------------------------
(* A small instance of SpscRing for TLC: three slots, so that the indices  *)
(* wrap and the ring is full with two items, and two values, so that a     *)
(* stale or repeated item shows in the history.                            *)
EXTENDS SpscRing
=============================================================================
