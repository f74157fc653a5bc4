----------------------------- MODULE MCSpmcRing -----------------------------
(* A small instance of SpmcRing: two consumers, three slots, and a number  *)
(* of rounds that two consumers do not divide.                             *)
EXTENDS SpmcRing
=============================================================================
