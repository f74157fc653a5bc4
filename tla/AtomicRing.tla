----------------------------- MODULE AtomicRing -----------------------------
(***************************************************************************)
(* The ring of Microbench/ProducerConsumer.cpp and of                      *)
(* Microbench/ProducerConsumerCircular.c.  It differs from SpscRing in how *)
(* an index moves: an atomic fetch_add first, a modulo of the same         *)
(* variable second.  Between the two steps the index stands at BUFF_MAX    *)
(* whenever it is about to wrap, and the other thread may read it there.   *)
(*                                                                         *)
(* Each action is one access to a variable the other thread also touches.  *)
(* The loop counters are the lengths of the histories sent and received at *)
(* the points where the code tests them.                                   *)
(***************************************************************************)
EXTENDS Integers, Sequences

CONSTANTS
  BUFF_MAX,   (* number of slots; 1000 in the program                       *)
  ITER,       (* rounds of each thread; 50000 in the program                *)
  Items,      (* what rand()%100 may return                                 *)
  Unwritten   (* the content of a slot nobody has written yet               *)

ASSUME AtomicAssumption ==
  /\ BUFF_MAX \in Nat \ {0} /\ ITER \in Nat /\ Unwritten \notin Items

Threads == {"P", "C"}
Slots   == 0 .. BUFF_MAX - 1

VARIABLES
  prog,       (* the program that runs; never changes                       *)
  main,       (* control point of main                                      *)
  pc,         (* control point of each thread                               *)
  in, out,    (* the atomic indices                                         *)
  buff,       (* buff[slot][0]                                              *)
  item,       (* local of Producer                                          *)
  w,          (* local of Consumer                                          *)
  sent,       (* history: items published                                   *)
  received,   (* history: items released                                    *)
  raced       (* history: a spin was left because the other's index   *)
              (* stood at BUFF_MAX, where 0 would have held the thread      *)

shared == <<in, out, buff, sent, received, raced>>
vars   == <<prog, main, pc, item, w, shared>>

Alive == main \notin {"done", "exited", "crashed"}

Init ==
  /\ prog \in {"ProducerConsumer", "Circular"}
  /\ main = "createP"
  /\ pc = [t \in Threads |-> "unborn"]
  /\ in = 0 /\ out = 0
  /\ buff = [s \in Slots |-> Unwritten]
  /\ item = Unwritten /\ w = Unwritten
  /\ sent = << >> /\ received = << >> /\ raced = FALSE

-----------------------------------------------------------------------------
(* main: an error of pthread_create is printed only, and joining an id it  *)
(* never filled in is undefined: it returns or crashes.                    *)

Create(t, at, next) ==
  /\ main = at
  /\ main' = next
  /\ \E p \in {"pin", "failed"} : pc' = [pc EXCEPT ![t] = p]
  /\ UNCHANGED <<prog, item, w, shared>>

Join(t, at, next) ==
  /\ main = at
  /\ \/ pc[t] = "done" /\ main' = next
     \/ pc[t] = "failed" /\ main' \in {next, "crashed"}
  /\ UNCHANGED <<prog, pc, item, w, shared>>

Main ==
  \/ Create("P", "createP", "createC") \/ Create("C", "createC", "joinP")
  \/ Join("P", "joinP", "joinC") \/ Join("C", "joinC", "done")

(* pin_this_thread_to_core: when the core does not exist the whole process *)
(* exits, whatever the other thread is doing, or, in the C program, the    *)
(* function just returns; that setaffinity fails is only printed.          *)
Pin(t, first) ==
  /\ Alive /\ pc[t] = "pin"
  /\ \/ pc' = [pc EXCEPT ![t] = first] /\ UNCHANGED main
     \/ prog = "ProducerConsumer" /\ main' = "exited" /\ UNCHANGED pc
  /\ UNCHANGED <<prog, item, w, shared>>

Goto(t, from, to) == Alive /\ pc[t] = from /\ pc' = [pc EXCEPT ![t] = to] /\ UNCHANGED <<prog, main>>

-----------------------------------------------------------------------------
(* Producer *)

ProduceItem ==
  /\ Goto("P", "produce", "full")
  /\ Len(sent) < ITER
  /\ item' \in Items
  /\ UNCHANGED <<w, shared>>

(* Mutation: the producer never tests for a full ring. *)
SeeSpaceUntested ==
  /\ Goto("P", "full", "write")
  /\ raced' = (raced \/ (out = BUFF_MAX /\ (in + 1) % BUFF_MAX = 0))
  /\ UNCHANGED <<item, w, in, out, buff, sent, received>>

SeeSpace ==
  /\ Goto("P", "full", "write")
  /\ (in + 1) % BUFF_MAX # out
  /\ raced' = (raced \/ (out = BUFF_MAX /\ (in + 1) % BUFF_MAX = 0))
  /\ UNCHANGED <<item, w, in, out, buff, sent, received>>

WriteSlot ==
  /\ Goto("P", "write", "bump")
  /\ buff' = [buff EXCEPT ![in] = item]
  /\ UNCHANGED <<item, w, in, out, sent, received, raced>>

(* in.fetch_add(1): the item can be read from here on. *)
BumpIn ==
  /\ Goto("P", "bump", "wrap")
  /\ in' = in + 1
  /\ sent' = Append(sent, item)
  /\ UNCHANGED <<item, w, out, buff, received, raced>>

(* in = in % BUFF_MAX: only the producer writes in, so its load and its    *)
(* store are one step.                                                     *)
WrapIn ==
  /\ Goto("P", "wrap", "produce")
  /\ in' = in % BUFF_MAX
  /\ UNCHANGED <<item, w, out, buff, sent, received, raced>>

ProducerReturns ==
  /\ Goto("P", "produce", "done")
  /\ Len(sent) >= ITER
  /\ UNCHANGED <<item, w, shared>>

-----------------------------------------------------------------------------
(* Consumer *)

SeeItem ==
  /\ Goto("C", "empty", "read")
  /\ Len(received) < ITER
  /\ in # out
  /\ raced' = (raced \/ (in = BUFF_MAX /\ out = 0))
  /\ UNCHANGED <<item, w, in, out, buff, sent, received>>

ReadSlot ==
  /\ Goto("C", "read", "bump")
  /\ w' = buff[out]
  /\ UNCHANGED <<item, shared>>

BumpOut ==
  /\ Goto("C", "bump", "wrap")
  /\ out' = out + 1
  /\ received' = Append(received, w)
  /\ UNCHANGED <<item, w, in, buff, sent, raced>>

WrapOut ==
  /\ Goto("C", "wrap", "empty")
  /\ out' = out % BUFF_MAX
  /\ UNCHANGED <<item, w, in, buff, sent, received, raced>>

(* Mutation: the consumer runs one round more than the producer. *)
ConsumerReturnsLate ==
  /\ Goto("C", "empty", "done")
  /\ Len(received) > ITER
  /\ UNCHANGED <<item, w, shared>>

ConsumerReturns ==
  /\ Goto("C", "empty", "done")
  /\ Len(received) >= ITER
  /\ UNCHANGED <<item, w, shared>>

-----------------------------------------------------------------------------
Producer == Pin("P", "produce") \/ ProduceItem \/ SeeSpace \/ WriteSlot \/ BumpIn \/ WrapIn
              \/ ProducerReturns
Consumer == Pin("C", "empty") \/ SeeItem \/ ReadSlot \/ BumpOut \/ WrapOut \/ ConsumerReturns

Next == Main \/ Producer \/ Consumer

Spec == Init /\ [][Next]_vars

(* Each thread is pinned to a core of its own and spins on atomic loads.   *)
FairSpec == Spec /\ WF_vars(Main) /\ WF_vars(Producer) /\ WF_vars(Consumer)

-----------------------------------------------------------------------------
(* Properties *)

(* The slot of an index, once its owner has wrapped it.                    *)
Home(x) == IF x = BUFF_MAX THEN 0 ELSE x

(* The slots from out up to in, oldest first.                              *)
Occupancy == IF Home(in) >= Home(out) THEN Home(in) - Home(out)
                                      ELSE Home(in) - Home(out) + BUFF_MAX
SlotOf(k) == IF Home(out) + k - 1 < BUFF_MAX THEN Home(out) + k - 1
                                             ELSE Home(out) + k - 1 - BUFF_MAX

Prefix == Len(received) <= Len(sent)
            /\ \A k \in 1 .. Len(received) : received[k] = sent[k]

UnreadItemsKept ==
  /\ Len(sent) - Len(received) = Occupancy
  /\ \A k \in 1 .. Occupancy : buff[SlotOf(k)] = sent[Len(received) + k]

(* As long as no spin was left because an index was caught at BUFF_MAX the *)
(* ring is a queue: what is received was sent, in order, and the slots     *)
(* from out to in hold exactly the items still to be received.  Both       *)
(* tests, the order of write and fetch_add, and both wraps are needed.     *)
FifoUnlessRaced == ~raced => Prefix /\ UnreadItemsKept

(* Without a race the test a thread has left stays true while it acts.     *)
TestsStayTrue ==
  /\ pc["P"] \in {"write", "bump"} => Home(in + 1) # Home(out)
  /\ pc["P"] = "bump" => buff[in] = item
  /\ pc["C"] \in {"read", "bump"} => Home(in) # out
  /\ pc["C"] = "bump" => w = buff[out]

(* Raced or not, an index is BUFF_MAX at most, and then about to be        *)
(* wrapped: no thread writes or reads outside the array.                   *)
IndicesInArray ==
  /\ in \in 0 .. BUFF_MAX /\ out \in 0 .. BUFF_MAX
  /\ pc["P"] # "wrap" => in \in Slots
  /\ pc["C"] # "wrap" => out \in Slots

Points == {"unborn", "failed", "pin", "produce", "full", "write", "empty", "read", "bump",
           "wrap", "done"}

(* The variables of the two threads.                                       *)
LocalsOK ==
  /\ pc \in [Threads -> Points] /\ raced \in BOOLEAN
  /\ main = "createP" => pc["P"] = "unborn"
  /\ main \in {"createP", "createC"} => pc["C"] = "unborn"
  /\ buff \in [Slots -> Items \cup {Unwritten}]
  /\ item \in Items \cup {Unwritten} /\ w \in Items \cup {Unwritten}
  /\ pc["P"] \in {"full", "write", "bump"} => item \in Items
  /\ sent \in Seq(Items) /\ received \in Seq(Items \cup {Unwritten})

(* The inductive invariant of the proofs.                                  *)
IInv == LocalsOK /\ IndicesInArray /\ (~raced => TestsStayTrue /\ Prefix /\ UnreadItemsKept)

(* Neither thread spins for ever on the other, unless an index was caught  *)
(* at BUFF_MAX or a thread could not be created.                           *)
CompletesUnlessRaced ==
  <>(main \in {"done", "exited", "crashed"} \/ "failed" \in {pc["P"], pc["C"]} \/ raced)

(* "It works because the shared variables "in" and "out" each have only a  *)
(* single writer": the consumer receives what the producer sent, in order. *)
FifoDelivery == Prefix
=============================================================================
