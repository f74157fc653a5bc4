----------------------------- MODULE MCPingPong -----------------------------
(* Small instances of PingPong: counters up to four, so that each parity   *)
(* comes twice and the bound is met in the middle of a round.              *)
EXTENDS PingPong
=============================================================================
