---------------------------- MODULE MCPairedRings ---------------------------
(* A small instance of PairedRings: two pairs over rings of two slots, in  *)
(* which one item makes the ring full and every slot is used twice; the    *)
(* buffers that never wrap have a slot more than the rounds need.          *)
EXTENDS PairedRings
=============================================================================
