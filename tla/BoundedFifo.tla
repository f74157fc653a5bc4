---------------------------- MODULE BoundedFifo ----------------------------
(***************************************************************************)
(* What every producer/consumer program of the repository promises: a      *)
(* first-in first-out queue that never holds more than Capacity items.     *)
(* Nothing here models code: the module is the abstract specification that *)
(* the ring and chain modules are shown to implement.                      *)
(***************************************************************************)
EXTENDS Naturals, Sequences

CONSTANTS Items,     (* the values a producer may put                       *)
          Capacity   (* the most items the queue ever holds, a natural      *)

VARIABLES queue,     (* items accepted and not yet delivered, oldest first  *)
          delivered  (* every item delivered so far, in order               *)

vars == <<queue, delivered>>

Init == queue = << >> /\ delivered = << >>

Put(item) ==
  /\ Len(queue) < Capacity
  /\ queue' = Append(queue, item)
  /\ UNCHANGED delivered

Take ==
  /\ queue # << >>
  /\ queue' = Tail(queue)
  /\ delivered' = Append(delivered, Head(queue))

Next == (\E item \in Items : Put(item)) \/ Take

Spec == Init /\ [][Next]_vars
=============================================================================
