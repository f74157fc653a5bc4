-------------------------- MODULE MCSignalSampler --------------------------
(* Two samples on each core: signals coincide, repeat and come late.       *)
EXTENDS SignalSampler
=============================================================================
