---------------------------- MODULE MCAtomicRing ----------------------------
(* A small instance of AtomicRing for TLC: three slots and seven rounds,   *)
(* so that both indices pass BUFF_MAX twice, and two values.               *)
EXTENDS AtomicRing
=============================================================================
