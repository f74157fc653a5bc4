------------------------- MODULE SharedMemPingPong --------------------------
(***************************************************************************)
(* The two processes of bench/NewProcess1.c (P1) and bench/NewProcess2.c   *)
(* (P2), which ping-pong the counters of a System V shared memory segment. *)
(* They are started by hand, in any order, one process of each program at  *)
(* a time, and may be killed; nobody removes the segment, so it keeps its  *)
(* contents from one run to the next.  P1 clears it, P2 does not.          *)
(*                                                                         *)
(* Each action is one access to the segment.  There is no lock: a process  *)
(* increments ar[1] to ar[LAST] first and ar[0], whose parity says whose   *)
(* turn it is, last.                                                       *)
(***************************************************************************)
EXTENDS Integers, Sequences

CONSTANTS
  ITER,   (* 100000000 in the programs                                      *)
  LAST,   (* index of the last counter; 3 in the programs                   *)
  RUNS    (* bound: how often each program is started                       *)

ASSUME SegmentAssumption ==
  ITER \in Nat \ {0} /\ ITER % 2 = 0 /\ LAST \in Nat \ {0} /\ RUNS \in Nat \ {0}

Procs == {"P1", "P2"}
Cells == 0 .. LAST

Parity(p) == IF p = "P1" THEN 0 ELSE 1

(* Mutation: the turn is handed over before the other counters are done.   *)
OrderTurnFirst(k) == k - 1

(* The cell incremented k-th in a turn: ar[1], ..., ar[LAST], ar[0].       *)
Order(k) == IF k <= LAST THEN k ELSE 0

VARIABLES
  pc,      (* control point of each process, "down" when it does not run    *)
  k,       (* which cell a process has come to                              *)
  tmp,     (* the value loaded for an increment                             *)
  ar,      (* the segment                                                   *)
  starts,  (* bound: starts so far                                          *)
  orderly, (* history: nobody was killed or failed, P1 was started only     *)
           (* while P2 did not run, and P2 entered its loop only beside a   *)
           (* P1 that had cleared the segment                               *)
  torn     (* history: since the segment was last cleared a process died    *)
           (* within its turn or while clearing, or P2 was in its turn then *)

vars == <<pc, k, tmp, ar, starts, orderly, torn>>

(* A segment that shmget creates is zero.                                  *)
Init ==
  /\ pc = [p \in Procs |-> "down"]
  /\ k = [p \in Procs |-> 0] /\ tmp = [p \in Procs |-> 0]
  /\ ar = [c \in Cells |-> 0]
  /\ starts = [p \in Procs |-> 0]
  /\ orderly = TRUE /\ torn = FALSE

Goto(p, to, n) == pc' = [pc EXCEPT ![p] = to] /\ k' = [k EXCEPT ![p] = n]

(* In its turn: past the test of the parity.                               *)
InTurn(p) == pc[p] \in {"load", "store"}

(* Part of the counters of a turn is incremented, part is not.             *)
HalfDone(p) == InTurn(p) /\ k[p] > 1

(* Part of the segment is cleared, part is not.                            *)
Clearing == pc["P1"] = "clear" /\ k["P1"] > 0

-----------------------------------------------------------------------------
(* The user *)

Start(p) ==
  /\ pc[p] = "down" /\ starts[p] < RUNS
  /\ Goto(p, "attach", 0)
  /\ starts' = [starts EXCEPT ![p] = @ + 1]
  /\ orderly' = (orderly /\ (p = "P1" => pc["P2"] = "down"))
  /\ UNCHANGED <<tmp, ar, torn>>

Kill(p) ==
  /\ pc[p] # "down"
  /\ Goto(p, "down", 0)
  /\ orderly' = FALSE
  /\ torn' = (torn \/ HalfDone(p) \/ (p = "P1" /\ Clearing))
  /\ UNCHANGED <<tmp, ar, starts>>

-----------------------------------------------------------------------------
(* main *)

(* pin_this_thread_to_core has no effect when it fails.  A failure of      *)
(* shmget ends the process.                                                *)
Attach(p) ==
  /\ pc[p] = "attach"
  /\ \/ Goto(p, IF p = "P1" THEN "clear" ELSE "translate", 0) /\ UNCHANGED orderly
     \/ Goto(p, "down", 0) /\ orderly' = FALSE
  /\ UNCHANGED <<tmp, ar, starts, torn>>

(* P1 clears ar[0] first, then the others.                                 *)
Clear ==
  /\ pc["P1"] = "clear"
  /\ ar' = [ar EXCEPT ![k["P1"]] = 0]
  /\ torn' = IF k["P1"] = 0 THEN InTurn("P2") ELSE torn
  /\ IF k["P1"] < LAST THEN Goto("P1", "clear", k["P1"] + 1) ELSE Goto("P1", "translate", 0)
  /\ UNCHANGED <<tmp, starts, orderly>>

(* Every address is translated by virt_to_phys_user; a failure ends the    *)
(* process with EXIT_FAILURE.                                              *)
Translate(p) ==
  /\ pc[p] = "translate"
  /\ \/ /\ Goto(p, "while", 0)
        /\ orderly' = (orderly /\ (p = "P2" => pc["P1"] \in {"translate", "while", "test", "load", "store"}))
     \/ Goto(p, "down", 0) /\ orderly' = FALSE
  /\ UNCHANGED <<tmp, ar, starts, torn>>

While(p) ==
  /\ pc[p] = "while"
  /\ IF ar[0] < ITER THEN Goto(p, "test", 0) ELSE Goto(p, "down", 0)
  /\ UNCHANGED <<tmp, ar, starts, orderly, torn>>

(* Mutation: both processes play even counts.                              *)
TestSameParity(p) ==
  /\ pc[p] = "test"
  /\ IF ar[0] % 2 = 0 THEN Goto(p, "load", 1) ELSE Goto(p, "while", 0)
  /\ UNCHANGED <<tmp, ar, starts, orderly, torn>>

Test(p) ==
  /\ pc[p] = "test"
  /\ IF ar[0] % 2 = Parity(p) THEN Goto(p, "load", 1) ELSE Goto(p, "while", 0)
  /\ UNCHANGED <<tmp, ar, starts, orderly, torn>>

Load(p) ==
  /\ pc[p] = "load"
  /\ tmp' = [tmp EXCEPT ![p] = ar[Order(k[p])]]
  /\ Goto(p, "store", k[p])
  /\ UNCHANGED <<ar, starts, orderly, torn>>

Store(p) ==
  /\ pc[p] = "store"
  /\ ar' = [ar EXCEPT ![Order(k[p])] = tmp[p] + 1]
  /\ IF k[p] <= LAST THEN Goto(p, "load", k[p] + 1) ELSE Goto(p, "while", 0)
  /\ UNCHANGED <<tmp, starts, orderly, torn>>

Process(p) ==
  \/ Attach(p) \/ (p = "P1" /\ Clear) \/ Translate(p)
  \/ While(p) \/ Test(p) \/ Load(p) \/ Store(p)

Next == \E p \in Procs : Start(p) \/ Kill(p) \/ Process(p)

Spec == Init /\ [][Next]_vars

(* A running process is scheduled; starting and killing is up to the user. *)
FairSpec == Spec /\ \A p \in Procs : WF_vars(Process(p))

-----------------------------------------------------------------------------
(* Properties *)

(* At most one process is in its turn, although there is no lock and a     *)
(* process may be restarted while the other one runs, unless the segment   *)
(* is cleared during a turn of P2.                                         *)
OneTurn == ~torn => ~(InTurn("P1") /\ InTurn("P2"))

(* Between turns all counters of the segment are equal, also over restarts *)
(* and processes killed between their turns, and with whatever an earlier  *)
(* run left behind; not once a process was killed within a turn (torn),    *)
(* until P1 clears the segment.  It needs ar[0] incremented last and       *)
(* cleared first.                                                          *)
InStep ==
  ~torn /\ ~Clearing /\ ~HalfDone("P1") /\ ~HalfDone("P2") =>
    \A c \in Cells : ar[c] = ar[0]

Looping(p) == pc[p] \in {"while", "test", "load", "store"}

(* Once both are in their loops one of them gets to its end or is killed,  *)
(* and both do when they were started in the right order.  Without it P2   *)
(* may find an earlier run's final count and end at once, and P1 then      *)
(* waits for ever.                                                         *)
RunsEnd ==
  LET both == Looping("P1") /\ Looping("P2") IN
  /\ both ~> (\E p \in Procs : pc[p] = "down")
  /\ (both /\ orderly) ~> (~orderly \/ \A p \in Procs : pc[p] = "down")
=============================================================================
