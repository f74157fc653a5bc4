------------------------ MODULE MCSharedMemPingPong -------------------------
(* A small instance of SharedMemPingPong: two runs of each program, three  *)
(* counters, and a bound that both processes reach in turn.                *)
EXTENDS SharedMemPingPong
=============================================================================
