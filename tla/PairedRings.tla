---------------------------- MODULE PairedRings -----------------------------
(***************************************************************************)
(* The relatives of the ring of SpscRing: programs that run one or several *)
(* pairs of a producer and a consumer, each pair over a buffer of its own. *)
(*   PCB/ProducerConsumer2.cpp, PCB/ProducerConsumer2_dryRUN.cpp,          *)
(*   Microbench/ProducerConsumer2.cpp   one pair, indices only             *)
(*   PCB/ParaPCB.cpp                    several pairs, indices only        *)
(*   PCB/ParaPCBBUFF.cpp                several pairs, with the items      *)
(*   Microbench/ProducerConsumerNewSemaphore.c                             *)
(*                                      one pair, three semaphores           *)
(*   Microbench/ProducerConsumerNew.c   one pair, a mutex and no test        *)
(* Thread 2i produces into buffer i and thread 2i+1 consumes from it.  The *)
(* last two programs never wrap their indices.                             *)
(*                                                                         *)
(* Each action is one access to a variable another thread also touches;    *)
(* the loop counters are lengths of the histories.                         *)
(***************************************************************************)
EXTENDS Integers, Sequences

CONSTANTS
  BUFF_MAX,   (* slots of a ring; 200 in the programs                       *)
  LINEAR,     (* slots of a buffer that never wraps; 102400                 *)
  ITER,       (* rounds of each thread; 100001 of the semaphores            *)
  PAIRS,      (* the argument of ParaPCB and ParaPCBBUFF                    *)
  Items,      (* what rand()%100 may return                                 *)
  Unwritten,  (* content of a slot nobody has written                       *)
  Programs    (* the programs checked, names of Script                      *)

(* kind: how a thread waits; items: the slots are used; perf: the programs *)
(* open one counter per core first and exit when that fails; gated: the    *)
(* threads wait for start; pinExits: a core that does not exist ends the   *)
(* process; mallocs: every pair's arguments are allocated.                 *)
Spinning(pairs, items, perf, mallocs) ==
  [kind |-> "ring", pairs |-> pairs, items |-> items, perf |-> perf,
   gated |-> FALSE, pinExits |-> TRUE, mallocs |-> mallocs]
Locking(kind) ==
  [kind |-> kind, pairs |-> 1, items |-> TRUE, perf |-> FALSE,
   gated |-> kind = "semaphores", pinExits |-> FALSE, mallocs |-> FALSE]

PC2         == Spinning(1, FALSE, FALSE, FALSE)      (* PCB/ *)
MicroPC2    == Spinning(1, FALSE, FALSE, FALSE)      (* Microbench/ *)
DryRun      == Spinning(1, FALSE, TRUE, FALSE)
ParaPCB     == Spinning(PAIRS, FALSE, TRUE, TRUE)
ParaPCBBUFF == Spinning(PAIRS, TRUE, TRUE, TRUE)
NewSemaphore == Locking("semaphores")
New          == Locking("mutex")

Script == [PC2 |-> PC2, MicroPC2 |-> MicroPC2, DryRun |-> DryRun, ParaPCB |-> ParaPCB,
           ParaPCBBUFF |-> ParaPCBBUFF, NewSemaphore |-> NewSemaphore, New |-> New]

ASSUME PairedAssumption ==
  /\ BUFF_MAX \in Nat \ {0} /\ ITER \in Nat \ {0} /\ PAIRS \in Nat \ {0}
  /\ LINEAR \in Nat \ {0} /\ ITER <= LINEAR
  /\ Unwritten \notin Items /\ Programs \subseteq DOMAIN Script

VARIABLES
  prog,           (* the program that runs; never changes                   *)
  main, i,        (* control point of main, its loop variable               *)
  pc,             (* control point of each thread                           *)
  in, out,        (* of each ring                                           *)
  B,              (* the slots of each ring                                 *)
  item,           (* local of each producer                                 *)
  w,              (* local of each consumer                                 *)
  mutex,          (* 1 when it is free                                      *)
  empty, full,    (* the counts of the semaphores                           *)
  sent, received, (* history: of each buffer                                *)
  overtaken       (* history: a slot was read before it was written         *)

rings  == <<in, out, B, sent, received, overtaken>>
sems   == <<mutex, empty, full>>
vars   == <<prog, main, i, pc, item, w, rings, sems>>

S       == Script[prog]
Pairs   == 0 .. S.pairs - 1
Threads == 0 .. 2 * S.pairs - 1
Size    == IF S.kind = "ring" THEN BUFF_MAX ELSE LINEAR
Slots   == 0 .. Size - 1
Rounds  == IF S.kind = "mutex" THEN LINEAR - 1 ELSE ITER
Prod(p) == 2 * p
Cons(p) == 2 * p + 1

(* initialize and initializeINOUT; sem_init                                *)
Init ==
  /\ prog \in Programs
  /\ main = IF S.perf THEN "perf" ELSE "create"
  /\ i = 0
  /\ pc = [t \in Threads |-> "unborn"]
  /\ in = [p \in Pairs |-> 0] /\ out = [p \in Pairs |-> 0]
  /\ B = [p \in Pairs |-> [s \in Slots |-> Unwritten]]
  /\ item = [p \in Pairs |-> Unwritten] /\ w = [p \in Pairs |-> Unwritten]
  /\ mutex = 1 /\ empty = Size /\ full = 0 /\ overtaken = FALSE
  /\ sent = [p \in Pairs |-> << >>] /\ received = [p \in Pairs |-> << >>]

-----------------------------------------------------------------------------
(* main *)

InitializePerf ==
  /\ main = "perf" /\ main' \in {"create", "exited"}
  /\ UNCHANGED <<prog, i, pc, item, w, rings, sems>>

(* The programs go on when a thread cannot be created.                     *)
Create ==
  /\ main = "create"
  /\ \E at \in {"pin", "failed"} : pc' = [pc EXCEPT ![i] = at]
  /\ IF i + 1 \in Threads THEN i' = i + 1 /\ UNCHANGED main ELSE i' = 0 /\ main' = "join"
  /\ UNCHANGED <<prog, item, w, rings, sems>>

(* The arguments of a pair are allocated before its threads are created: a *)
(* failure ends the process while earlier pairs run.                       *)
MallocFails ==
  /\ S.mallocs /\ main = "create" /\ i % 2 = 0
  /\ main' = "exited"
  /\ UNCHANGED <<prog, i, pc, item, w, rings, sems>>

(* Joining an id that was never filled in returns or crashes.              *)
Join ==
  /\ main = "join"
  /\ \/ /\ pc[i] \in {"done", "failed"}
        /\ IF i + 1 \in Threads THEN i' = i + 1 /\ UNCHANGED main ELSE i' = i /\ main' = "done"
     \/ pc[i] = "failed" /\ main' = "crashed" /\ UNCHANGED i
  /\ UNCHANGED <<prog, pc, item, w, rings, sems>>

Main == InitializePerf \/ Create \/ MallocFails \/ Join

Alive == main \notin {"done", "exited", "crashed"}

Goto(t, from, to) ==
  Alive /\ pc[t] = from /\ pc' = [pc EXCEPT ![t] = to] /\ UNCHANGED <<prog, main, i>>

(* while(start==0), then pin_this_thread_to_core: that core t does not     *)
(* exist ends the process, whatever the other threads are doing, or has no *)
(* effect.                                                                 *)
Pin(t) ==
  /\ S.gated => main = "join"
  /\ \/ Goto(t, "pin", IF t % 2 = 0 THEN "produce" ELSE "empty")
     \/ /\ S.pinExits /\ Alive /\ pc[t] = "pin"
        /\ main' = "exited" /\ UNCHANGED <<prog, i, pc>>
  /\ UNCHANGED <<item, w, rings, sems>>

(* sem_wait(&mutex) or pthread_mutex_lock, and its counterpart.            *)
Lock(t) ==
  /\ Goto(t, "lock", IF t % 2 = 0 THEN "write" ELSE "read")
  /\ mutex = 1 /\ mutex' = 0
  /\ UNCHANGED <<item, w, rings, empty, full>>

Again(t) == IF t % 2 = 0 THEN "produce" ELSE "empty"

Unlock(t) ==
  /\ Goto(t, "unlock", IF S.kind = "semaphores" THEN "post" ELSE Again(t))
  /\ mutex' = 1
  /\ UNCHANGED <<item, w, rings, empty, full>>

(* The producer posts full, the consumer empty.                            *)
Post(t) ==
  /\ Goto(t, "post", Again(t))
  /\ IF t % 2 = 0 THEN full' = full + 1 /\ UNCHANGED empty
                  ELSE empty' = empty + 1 /\ UNCHANGED full
  /\ UNCHANGED <<item, w, rings, mutex>>

(* An index moves with or without a modulo.                                *)
Moved(x) == IF S.kind = "ring" THEN (x + 1) % BUFF_MAX ELSE x + 1

-----------------------------------------------------------------------------
(* Producer of buffer p *)

(* Where the buffer is used the item is drawn at any point before it is    *)
(* written.                                                                *)
Produce(p) ==
  /\ Goto(Prod(p), "produce", "full")
  /\ Len(sent[p]) < Rounds
  /\ \E x \in Items : item' = [item EXCEPT ![p] = x]
  /\ UNCHANGED <<w, rings, sems>>

ToSlot(use) ==
  IF S.kind # "ring" THEN "lock" ELSE IF S.items THEN use
  ELSE IF use = "write" THEN "publish" ELSE "release"

(* Mutation: the producer never tests for a full ring.                     *)
SeeSpaceUntested(p) ==
  /\ Goto(Prod(p), "full", ToSlot("write"))
  /\ UNCHANGED <<item, w, rings, sems>>

(* The ring is not full, sem_wait(&empty), or nothing.                     *)
SeeSpace(p) ==
  /\ Goto(Prod(p), "full", ToSlot("write"))
  /\ \/ S.kind = "ring" /\ (in[p] + 1) % BUFF_MAX # out[p] /\ UNCHANGED sems
     \/ S.kind = "semaphores" /\ empty > 0 /\ empty' = empty - 1 /\ UNCHANGED <<mutex, full>>
     \/ S.kind = "mutex" /\ UNCHANGED sems
  /\ UNCHANGED <<item, w, rings>>

(* Mutation: every producer writes into ring 0.                            *)
WriteSlotShared(p) ==
  /\ Goto(Prod(p), "write", "publish")
  /\ B' = [B EXCEPT ![0][in[p]] = item[p]]
  /\ UNCHANGED <<item, w, in, out, sent, received, overtaken, sems>>

WriteSlot(p) ==
  /\ Goto(Prod(p), "write", "publish")
  /\ B' = [B EXCEPT ![p][in[p]] = item[p]]
  /\ UNCHANGED <<item, w, in, out, sent, received, overtaken, sems>>

Publish(p) ==
  /\ Goto(Prod(p), "publish", IF S.kind = "ring" THEN "produce" ELSE "unlock")
  /\ in' = [in EXCEPT ![p] = Moved(@)]
  /\ sent' = [sent EXCEPT ![p] = Append(@, item[p])]
  /\ UNCHANGED <<item, w, out, B, received, overtaken, sems>>

ProducerReturns(p) ==
  /\ Goto(Prod(p), "produce", "done")
  /\ Len(sent[p]) >= Rounds
  /\ UNCHANGED <<item, w, rings, sems>>

-----------------------------------------------------------------------------
(* Consumer of buffer p *)

(* The ring is not empty, sem_wait(&full), or nothing.                     *)
SeeItem(p) ==
  /\ Goto(Cons(p), "empty", ToSlot("read"))
  /\ Len(received[p]) < Rounds
  /\ \/ S.kind = "ring" /\ in[p] # out[p] /\ UNCHANGED sems
     \/ S.kind = "semaphores" /\ full > 0 /\ full' = full - 1 /\ UNCHANGED <<mutex, empty>>
     \/ S.kind = "mutex" /\ UNCHANGED sems
  /\ UNCHANGED <<item, w, rings>>

(* Without a test the consumer may be ahead of the producer: all that      *)
(* keeps it behind is that it is created two seconds later.                *)
ReadSlot(p) ==
  /\ Goto(Cons(p), "read", "release")
  /\ w' = [w EXCEPT ![p] = B[p][out[p]]]
  /\ overtaken' = (overtaken \/ (S.kind = "mutex" /\ out[p] >= in[p]))
  /\ UNCHANGED <<item, in, out, B, sent, received, sems>>

Release(p) ==
  /\ Goto(Cons(p), "release", IF S.kind = "ring" THEN "empty" ELSE "unlock")
  /\ out' = [out EXCEPT ![p] = Moved(@)]
  /\ received' = [received EXCEPT ![p] = Append(@, w[p])]
  /\ UNCHANGED <<item, w, in, B, sent, overtaken, sems>>

(* Mutation: the consumer runs one round more than the producer.           *)
ConsumerReturnsLate(p) ==
  /\ Goto(Cons(p), "empty", "done")
  /\ Len(received[p]) > Rounds
  /\ UNCHANGED <<item, w, rings, sems>>

ConsumerReturns(p) ==
  /\ Goto(Cons(p), "empty", "done")
  /\ Len(received[p]) >= Rounds
  /\ UNCHANGED <<item, w, rings, sems>>

-----------------------------------------------------------------------------
Producer(p) == \/ Pin(Prod(p)) \/ Produce(p) \/ SeeSpace(p) \/ Lock(Prod(p)) \/ WriteSlot(p)
               \/ Publish(p) \/ Unlock(Prod(p)) \/ Post(Prod(p)) \/ ProducerReturns(p)
Consumer(p) == \/ Pin(Cons(p)) \/ SeeItem(p) \/ Lock(Cons(p)) \/ ReadSlot(p)
               \/ Release(p) \/ Unlock(Cons(p)) \/ Post(Cons(p)) \/ ConsumerReturns(p)

Next == Main \/ \E p \in Pairs : Producer(p) \/ Consumer(p)

Spec == Init /\ [][Next]_vars

(* Every thread has a core of its own.  That a waiting thread gets a mutex *)
(* that is free again and again is not assumed: the other thread's rounds  *)
(* come to an end.                                                         *)
FairSpec ==
  /\ Spec /\ WF_vars(Main)
  /\ \A p \in 0 .. PAIRS - 1 :
       WF_vars(p \in Pairs /\ Producer(p)) /\ WF_vars(p \in Pairs /\ Consumer(p))

-----------------------------------------------------------------------------
(* Properties *)

(* The indices, read and written without a lock, always tell how many      *)
(* items are in the buffer, and there are never more than fit.  So do the  *)
(* semaphores once a thread has posted what it has done.                   *)
IndicesCount ==
  \A p \in Pairs :
    LET inside == Len(sent[p]) - Len(received[p]) IN
    \/ S.kind = "mutex" /\ overtaken
    \/ /\ inside >= 0
       /\ S.kind = "ring" => inside < BUFF_MAX /\ (in[p] - out[p]) % BUFF_MAX = inside
       /\ S.kind = "semaphores" =>
            /\ full <= inside /\ inside <= LINEAR - empty
            /\ pc[Prod(p)] = "produce" /\ pc[Cons(p)] = "empty" =>
                 full = inside /\ empty = LINEAR - inside

(* Where the slots are used each consumer receives what its own producer   *)
(* sent, in order, and the unread items are still in the buffer: the pairs *)
(* do not disturb each other and no slot is reused too early.  In          *)
(* ProducerConsumerNew.c only as long as the consumer stays behind.        *)
PairFifo ==
  S.items /\ ~overtaken => \A p \in Pairs :
    /\ \A k \in 1 .. Len(received[p]) : k <= Len(sent[p]) /\ received[p][k] = sent[p][k]
    /\ \A k \in Len(received[p]) + 1 .. Len(sent[p]) : B[p][(k - 1) % Size] = sent[p][k]

Failed == \E t \in Threads : pc[t] = "failed"

(* No thread spins or waits for ever, unless one was not created.          *)
Completes == <>(main \in {"done", "exited", "crashed"} \/ Failed)
=============================================================================
