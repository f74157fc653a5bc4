------------------------------ MODULE SpscRing ------------------------------
(***************************************************************************)
(* The single-producer single-consumer ring of                             *)
(* PCB/ProducerConsumer2_bufferRUN.cpp: two threads, an array of slots and *)
(* two plain int indices, "in" written by the producer only and "out" by   *)
(* the consumer only.  No lock and no atomic: each action below is one     *)
(* access to a variable the other thread also touches, in program order.   *)
(*                                                                         *)
(* main is modelled too: it opens two perf counters (and exits when either *)
(* fails), creates the two threads (a failure is only printed) and joins   *)
(* both.  sent and received are history variables.                         *)
(***************************************************************************)
EXTENDS Integers, Sequences

CONSTANTS
  BUFF_MAX,   (* number of slots; 500 in the program                        *)
  ITER,       (* rounds of each thread; 10000000 in the program             *)
  Items,      (* what rand()%100 may return                                 *)
  Unwritten   (* the content of a slot nobody has written yet               *)

ASSUME SpscAssumption ==
  /\ BUFF_MAX \in Nat \ {0}
  /\ ITER \in Nat
  /\ Unwritten \notin Items

Threads == {"P", "C"}
Slots   == 0 .. BUFF_MAX - 1

VARIABLES
  main,       (* control point of main                                      *)
  pc,         (* control point of each thread                               *)
  in, out,    (* in[0] and out[0]                                           *)
  buff,       (* buff[slot][0]                                              *)
  item,       (* local of Producer                                          *)
  w,          (* local of Consumer                                          *)
  count,      (* the local loop counter of each thread                      *)
  sent,       (* history: items published by the store to in                *)
  received    (* history: items released by the store to out                *)

vars == <<main, pc, in, out, buff, item, w, count, sent, received>>

MainPoints == {"open", "createP", "createC", "joinP", "joinC",
               "done", "exited", "crashed"}
ProducerPoints == {"unborn", "failed", "pin", "produce", "full", "write", "publish", "done"}
ConsumerPoints == {"unborn", "failed", "pin", "empty", "read", "release", "done"}

(* The process still runs: main has neither returned, exited nor crashed. *)
Alive == main \notin {"done", "exited", "crashed"}

(* Mutation: the index is incremented and not wrapped. *)
Next1NoWrap(i) == i + 1

(* (i + 1) % BUFF_MAX, the only arithmetic done on an index. *)
Next1(i) == (i + 1) % BUFF_MAX

Init ==
  /\ main = "open"
  /\ pc = [t \in Threads |-> "unborn"]
  /\ in = 0 /\ out = 0
  /\ buff = [s \in Slots |-> Unwritten]
  /\ item = Unwritten /\ w = Unwritten
  /\ count = [t \in Threads |-> 0]
  /\ sent = << >> /\ received = << >>

-----------------------------------------------------------------------------
(* main *)

(* Both counters open, or the program exits before any thread exists. *)
OpenPerf ==
  /\ main = "open"
  /\ main' \in {"createP", "exited"}
  /\ UNCHANGED <<pc, in, out, buff, item, w, count, sent, received>>

(* pthread_create: on an error only a message is printed. *)
Create(t, at, next) ==
  /\ main = at
  /\ main' = next
  /\ \E p \in {"pin", "failed"} : pc' = [pc EXCEPT ![t] = p]
  /\ UNCHANGED <<in, out, buff, item, w, count, sent, received>>

CreateProducer == Create("P", "createP", "createC")
CreateConsumer == Create("C", "createC", "joinP")

(* pthread_join waits for a finished thread; joining an id that            *)
(* pthread_create never filled in is undefined: it returns or it crashes.  *)
Join(t, at, next) ==
  /\ main = at
  /\ \/ pc[t] = "done" /\ main' = next
     \/ pc[t] = "failed" /\ main' \in {next, "crashed"}
  /\ UNCHANGED <<pc, in, out, buff, item, w, count, sent, received>>

JoinProducer == Join("P", "joinP", "joinC")

(* Mutation: main does not join the consumer. *)
JoinConsumerSkipped ==
  /\ main = "joinC"
  /\ main' = "done"
  /\ UNCHANGED <<pc, in, out, buff, item, w, count, sent, received>>

JoinConsumer == Join("C", "joinC", "done")

(* pin_this_thread_to_core: a core that went offline ends the process,     *)
(* whatever the other thread is doing; a refused affinity is only printed. *)
Pin(t, first) ==
  /\ Alive /\ pc[t] = "pin"
  /\ \/ pc' = [pc EXCEPT ![t] = first] /\ UNCHANGED main
     \/ main' = "exited" /\ UNCHANGED pc
  /\ UNCHANGED <<in, out, buff, item, w, count, sent, received>>

-----------------------------------------------------------------------------
(* Producer.  A spin that finds the ring full is a stuttering step. *)

Goto(t, from, to) == Alive /\ pc[t] = from /\ pc' = [pc EXCEPT ![t] = to]

ProduceItem ==
  /\ count["P"] < ITER
  /\ Goto("P", "produce", "full")
  /\ item' \in Items
  /\ UNCHANGED <<main, in, out, buff, w, count, sent, received>>

(* Mutation: the producer never tests for a full ring. *)
SeeSpaceUntested ==
  /\ Goto("P", "full", "write")
  /\ UNCHANGED <<main, in, out, buff, item, w, count, sent, received>>

(* Full is re-evaluated until it is false: the load of out. *)
SeeSpace ==
  /\ Next1(in) # out
  /\ Goto("P", "full", "write")
  /\ UNCHANGED <<main, in, out, buff, item, w, count, sent, received>>

WriteSlot ==
  /\ Goto("P", "write", "publish")
  /\ buff' = [buff EXCEPT ![in] = item]
  /\ UNCHANGED <<main, in, out, item, w, count, sent, received>>

PublishIn ==
  /\ Goto("P", "publish", "produce")
  /\ in' = Next1(in)
  /\ count' = [count EXCEPT !["P"] = @ + 1]
  /\ sent' = Append(sent, item)
  /\ UNCHANGED <<main, out, buff, item, w, received>>

ProducerReturns ==
  /\ count["P"] >= ITER
  /\ Goto("P", "produce", "done")
  /\ UNCHANGED <<main, in, out, buff, item, w, count, sent, received>>

-----------------------------------------------------------------------------
(* Consumer *)

(* Mutation: the consumer never tests for an empty ring. *)
SeeItemUntested ==
  /\ count["C"] < ITER
  /\ Goto("C", "empty", "read")
  /\ UNCHANGED <<main, in, out, buff, item, w, count, sent, received>>

(* The load of in, repeated while in = out. *)
SeeItem ==
  /\ count["C"] < ITER
  /\ in # out
  /\ Goto("C", "empty", "read")
  /\ UNCHANGED <<main, in, out, buff, item, w, count, sent, received>>

ReadSlot ==
  /\ Goto("C", "read", "release")
  /\ w' = buff[out]
  /\ UNCHANGED <<main, in, out, buff, item, count, sent, received>>

ReleaseOut ==
  /\ Goto("C", "release", "empty")
  /\ out' = Next1(out)
  /\ count' = [count EXCEPT !["C"] = @ + 1]
  /\ received' = Append(received, w)
  /\ UNCHANGED <<main, in, buff, item, w, sent>>

(* Mutation: the consumer loops while count <= ITER. *)
ConsumerReturnsLate ==
  /\ count["C"] > ITER
  /\ Goto("C", "empty", "done")
  /\ UNCHANGED <<main, in, out, buff, item, w, count, sent, received>>

ConsumerReturns ==
  /\ count["C"] >= ITER
  /\ Goto("C", "empty", "done")
  /\ UNCHANGED <<main, in, out, buff, item, w, count, sent, received>>

-----------------------------------------------------------------------------
Main     == OpenPerf \/ CreateProducer \/ CreateConsumer \/ JoinProducer \/ JoinConsumer
Producer == Pin("P", "produce") \/ ProduceItem \/ SeeSpace \/ WriteSlot \/ PublishIn
              \/ ProducerReturns
Consumer == Pin("C", "empty") \/ SeeItem \/ ReadSlot \/ ReleaseOut \/ ConsumerReturns

Next == Main \/ Producer \/ Consumer

Spec == Init /\ [][Next]_vars

(* Each thread is pinned to a core of its own and the spins re-read memory: *)
(* a thread that can take its next step eventually does.                    *)
FairSpec == Spec /\ WF_vars(Main) /\ WF_vars(Producer) /\ WF_vars(Consumer)

-----------------------------------------------------------------------------
(* The ring read as a queue: the occupied slots, oldest first. *)

Occupancy == IF in >= out THEN in - out ELSE in - out + BUFF_MAX
SlotOf(k) == IF out + k - 1 < BUFF_MAX THEN out + k - 1 ELSE out + k - 1 - BUFF_MAX
Contents  == [k \in 1 .. Occupancy |-> buff[SlotOf(k)]]

Fifo == INSTANCE BoundedFifo WITH
          Capacity <- BUFF_MAX - 1, queue <- Contents, delivered <- received

-----------------------------------------------------------------------------
(* Properties *)

(* Every variable has its type; in particular the indices never leave the  *)
(* array they index.                                                        *)
TypeOK ==
  /\ main \in MainPoints
  /\ pc \in [Threads -> ProducerPoints \cup ConsumerPoints]
  /\ pc["P"] \in ProducerPoints /\ pc["C"] \in ConsumerPoints
  /\ in \in Slots /\ out \in Slots
  /\ buff \in [Slots -> Items \cup {Unwritten}]
  /\ item \in Items \cup {Unwritten} /\ w \in Items \cup {Unwritten}
  /\ count \in [Threads -> 0 .. ITER]
  /\ sent \in Seq(Items) /\ received \in Seq(Items \cup {Unwritten})

(* While the producer is about to write a slot, or has written it and not  *)
(* yet published it, the consumer is at another slot: although buff is not *)
(* atomic and no lock is held, no slot is accessed by both threads at once. *)
SlotRaceFree ==
  (pc["P"] \in {"write", "publish"} /\ pc["C"] \in {"read", "release"}) => in # out

(* What the consumer has received is what the producer sent: same values,  *)
(* same order, none lost, repeated, invented or read before it was written. *)
FifoDelivery ==
  /\ Len(received) <= Len(sent)
  /\ \A k \in 1 .. Len(received) : received[k] = sent[k]

(* The slots between out and in hold exactly the items sent and not yet    *)
(* received: the producer never overwrites one of them.                    *)
UnreadItemsKept ==
  /\ Len(sent) - Len(received) = Occupancy
  /\ \A k \in 1 .. Occupancy : buff[SlotOf(k)] = sent[Len(received) + k]

(* What each control point has established, and keeps although the other   *)
(* thread moves: past its spin the producer has a free slot, past its own  *)
(* the consumer has an unread one, and neither test can become stale.      *)
TestsStayTrue ==
  /\ pc["P"] \in {"write", "publish"} => Next1(in) # out
  /\ pc["P"] = "publish" => buff[in] = item
  /\ pc["C"] \in {"read", "release"} => in # out
  /\ pc["C"] = "release" => w = buff[out]

(* The loop counters agree with the histories and with the loop tests. *)
CountersAgree ==
  /\ count["P"] = Len(sent) /\ count["C"] = Len(received)
  /\ pc["P"] \in {"full", "write", "publish"} => count["P"] < ITER /\ item \in Items
  /\ pc["P"] = "done" => count["P"] = ITER
  /\ pc["C"] \in {"read", "release"} => count["C"] < ITER
  /\ pc["C"] = "done" => count["C"] = ITER
  /\ main = "done" => pc["P"] \in {"done", "failed"} /\ pc["C"] \in {"done", "failed"}
  /\ main = "joinC" => pc["P"] \in {"done", "failed"}
  /\ main \in {"open", "createP"} => pc["P"] = "unborn"
  /\ main \in {"open", "createP", "createC"} => pc["C"] = "unborn"
  /\ \A t \in Threads : pc[t] \in {"unborn", "failed", "pin"} => count[t] = 0

(* The inductive invariant of the proofs. *)
IInv == TypeOK /\ TestsStayTrue /\ CountersAgree /\ FifoDelivery /\ UnreadItemsKept

(* main returns normally only when no thread is left waiting: a consumer   *)
(* that was created has received all ITER items, in order, and has         *)
(* returned; a producer that was created has sent them all.  So main never *)
(* returns over a consumer without a producer, nor over a producer without *)
(* a consumer whose items do not fit into the ring.                        *)
NothingLeftBehind ==
  main = "done" =>
    /\ pc["P"] # "failed" => Len(sent) = ITER
    /\ pc["C"] # "failed" => Len(sent) = ITER /\ received = sent
    /\ pc["P"] = "failed" => sent = << >>
    /\ pc["C"] = "failed" => received = << >> /\ Len(sent) < BUFF_MAX

(* The program ends unless perf or a thread creation failed: neither       *)
(* thread spins for ever on the other, and main's joins return.            *)
Completes == <>(main \in {"done", "exited", "crashed"} \/ "failed" \in {pc["P"], pc["C"]})

(* The ring implements a FIFO queue of capacity BUFF_MAX - 1. *)
ImplementsFifo == Fifo!Spec
=============================================================================
