----------------------------- MODULE MCPerfRing -----------------------------
(* All versions, over two cores whose buffers hold three records.          *)
EXTENDS PerfRing

MCPrograms == Versions
=============================================================================
