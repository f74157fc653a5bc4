--------------------------- MODULE MCLockedChain ---------------------------
(* A small instance of LockedChain: three threads over buffers of two      *)
(* cells, and iterations that just fit, or that wrap them and overfill;    *)
(* six calls of the single-threaded program do the same.                   *)
EXTENDS LockedChain
=============================================================================
