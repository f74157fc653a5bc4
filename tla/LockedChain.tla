---------------------------- MODULE LockedChain ----------------------------
(***************************************************************************)
(* The chain of Microbench/ProducerConsumerBenchMark.c: thread 0 produces  *)
(* values into buffer 0, thread t moves values from buffer t-1 to buffer   *)
(* t, and nobody empties the last buffer.  A buffer is a circular array    *)
(* with a mutex, a front and a rear, both -1 while it is empty.            *)
(*                                                                         *)
(* insert_into_buffer and delete_from_buffer hold the mutex from their     *)
(* first to their last statement, so each call is one action; a call that  *)
(* finds the buffer full or empty changes nothing and is repeated by its   *)
(* caller, a stuttering step.                                              *)
(*                                                                         *)
(* Microbench/CircularBuffer.c has the same two functions without a mutex  *)
(* and drives them from main: it inserts or deletes at random.             *)
(***************************************************************************)
EXTENDS Integers, Sequences, SequencesExt

CONSTANTS
  N,         (* number of threads; the program's argument                   *)
  MAX,       (* length of a buffer; 100 in the program                      *)
  Counts,    (* the values of COUNT checked                                  *)
  CALLS,     (* rounds of CircularBuffer.c; 100 in the program              *)
  Items,     (* what rand()%100 may return                                  *)
  Unwritten  (* content of an array element never written                   *)

ASSUME ChainAssumption ==
  /\ N \in Nat \ {0} /\ MAX \in Nat \ {0, 1} /\ Counts \subseteq Nat /\ CALLS \in Nat
  /\ Unwritten \notin Items

Threads == 0 .. N - 1
Buffers == 0 .. N - 1   (* thread t inserts into buffer t *)
Cells   == 0 .. MAX - 1

VARIABLES
  prog,            (* "chain" or "circular"; never changes                  *)
  COUNT,           (* values moved by each thread, 100 in the program;     *)
                   (* never changes                                       *)
  main,            (* control point of main and create_threads              *)
  created,         (* threads created so far; in the other program, rounds  *)
  pc,              (* control point of each thread                          *)
  val,             (* produced_value or ret_val of each thread              *)
  front, rear,     (* of each buffer                                        *)
  buffer,          (* the array of each buffer                              *)
  inserted,        (* history: the values inserted into each buffer         *)
  deleted          (* history: the values deleted from each buffer          *)

locals == <<prog, COUNT, main, created>>
bufs   == <<front, rear, buffer, inserted, deleted>>
vars   == <<locals, pc, val, bufs>>

Init ==
  /\ prog \in {"chain", "circular"} /\ COUNT \in Counts
  /\ main = (IF prog = "chain" THEN "create" ELSE "loop") /\ created = 0
  /\ pc = [t \in Threads |-> "unborn"]
  /\ val = [t \in Threads |-> Unwritten]
  /\ front = [b \in Buffers |-> -1] /\ rear = [b \in Buffers |-> -1]
  /\ buffer = [b \in Buffers |-> [c \in Cells |-> Unwritten]]
  /\ inserted = [b \in Buffers |-> << >>]
  /\ deleted = [b \in Buffers |-> << >>]

-----------------------------------------------------------------------------
(* The buffer *)

Empty(b) == front[b] = -1 /\ rear[b] = -1

(* Mutation: a full buffer is recognised only when it is not wrapped. *)
FullUnwrapped(b) == rear[b] = MAX - 1 /\ front[b] = 0

(* Mutation: a full buffer is recognised only when it is wrapped. *)
FullWrapped(b) == rear[b] + 1 = front[b]

(* Mutation: one cell is kept free. *)
FullOneFree(b) == \/ rear[b] = MAX - 2 /\ front[b] = 0
                  \/ rear[b] = MAX - 1 /\ front[b] = 0
                  \/ rear[b] + 1 = front[b]

Full(b) == \/ rear[b] = MAX - 1 /\ front[b] = 0
           \/ rear[b] + 1 = front[b]

RearAfterInsert(b) == IF Empty(b) \/ rear[b] = MAX - 1 THEN 0 ELSE rear[b] + 1

(* insert_into_buffer(b, x), the call that returns 1. *)
InsertInto(b, x) ==
  /\ ~Full(b)
  /\ rear' = [rear EXCEPT ![b] = RearAfterInsert(b)]
  /\ front' = [front EXCEPT ![b] = IF Empty(b) THEN 0 ELSE @]
  /\ buffer' = [buffer EXCEPT ![b] = [buffer[b] EXCEPT ![RearAfterInsert(b)] = x]]
  /\ inserted' = [inserted EXCEPT ![b] = Append(@, x)]
  /\ UNCHANGED deleted

FrontAfterDelete(b) == IF front[b] = rear[b] THEN -1
                       ELSE IF front[b] = MAX - 1 THEN 0 ELSE front[b] + 1

(* delete_from_buffer(b), the call that returns a value. *)
DeleteFrom(b) ==
  /\ ~Empty(b)
  /\ front' = [front EXCEPT ![b] = FrontAfterDelete(b)]
  /\ rear' = [rear EXCEPT ![b] = IF front[b] = rear[b] THEN -1 ELSE @]
  /\ deleted' = [deleted EXCEPT ![b] = Append(@, buffer[b][front[b]])]
  /\ UNCHANGED <<buffer, inserted>>

-----------------------------------------------------------------------------
(* create_threads and main *)

(* The first thread that cannot be created makes create_threads return 0   *)
(* and main exit, with the others still waiting for start.                 *)
CreateThread ==
  /\ main = "create" /\ created < N
  /\ \/ pc' = [pc EXCEPT ![created] = "wait"] /\ created' = created + 1 /\ UNCHANGED main
     \/ main' = "exited" /\ UNCHANGED <<pc, created>>
  /\ UNCHANGED <<prog, COUNT, val, bufs>>

(* start=1 *)
Start ==
  /\ main = "create" /\ created = N
  /\ main' = "join"
  /\ UNCHANGED <<prog, COUNT, created, pc, val, bufs>>

JoinAll ==
  /\ main = "join"
  /\ \A t \in Threads : pc[t] = "done"
  /\ main' = "done"
  /\ UNCHANGED <<prog, COUNT, created, pc, val, bufs>>

-----------------------------------------------------------------------------
(* ProducerConsumer *)

Alive == main \notin {"done", "exited"}

Goto(t, from, to) == Alive /\ pc[t] = from /\ pc' = [pc EXCEPT ![t] = to]

(* Thread 0 starts the chain, the others have a buffer to take from. *)
First(t) == IF t = 0 THEN "produce" ELSE "delete"

(* while(start!=1); *)
SeeStart(t) ==
  /\ main = "join"
  /\ Goto(t, "wait", First(t))
  /\ UNCHANGED <<locals, val, bufs>>

(* rand()%100, by the first thread only. *)
Produce(t) ==
  /\ Len(inserted[t]) < COUNT
  /\ Goto(t, "produce", "insert")
  /\ \E item \in Items : val' = [val EXCEPT ![t] = item]
  /\ UNCHANGED <<locals, bufs>>

Insert(t) ==
  /\ Goto(t, "insert", First(t))
  /\ InsertInto(t, val[t])
  /\ UNCHANGED <<locals, val>>

Delete(t) ==
  /\ Len(inserted[t]) < COUNT
  /\ Goto(t, "delete", "insert")
  /\ DeleteFrom(t - 1)
  /\ val' = [val EXCEPT ![t] = buffer[t-1][front[t-1]]]
  /\ UNCHANGED locals

Returns(t) ==
  /\ Len(inserted[t]) >= COUNT
  /\ Goto(t, First(t), "done")
  /\ UNCHANGED <<locals, val, bufs>>

-----------------------------------------------------------------------------
(* CircularBuffer.c: a call on a full or an empty buffer counts as a round.*)

Round ==
  /\ main = "loop" /\ created < CALLS
  /\ created' = created + 1
  /\ \/ \E item \in Items : InsertInto(0, item)
     \/ DeleteFrom(0)
     \/ (Full(0) \/ Empty(0)) /\ UNCHANGED bufs
  /\ UNCHANGED <<prog, COUNT, main, pc, val>>

EndOfRounds ==
  /\ main = "loop" /\ created = CALLS
  /\ main' = "done"
  /\ UNCHANGED <<prog, COUNT, created, pc, val, bufs>>

-----------------------------------------------------------------------------
Main == CreateThread \/ Start \/ JoinAll \/ Round \/ EndOfRounds

ProducerConsumer(t) == SeeStart(t) \/ Produce(t) \/ Delete(t) \/ Insert(t) \/ Returns(t)

Next == Main \/ \E t \in Threads : ProducerConsumer(t)

Spec == Init /\ [][Next]_vars

(* Every thread keeps running, and one that spins on a buffer it could use *)
(* gets the buffer's mutex in the end.                                     *)
FairSpec == Spec /\ WF_vars(Main) /\ \A t \in Threads : WF_vars(ProducerConsumer(t))

-----------------------------------------------------------------------------
(* A buffer read as a queue. *)

Occupancy(b) == IF Empty(b) THEN 0
                ELSE IF rear[b] >= front[b] THEN rear[b] - front[b] + 1
                ELSE rear[b] - front[b] + 1 + MAX

Contents(b) == [k \in 1 .. Occupancy(b) |-> buffer[b][(front[b] + k - 1) % MAX]]

Fifo(b) == INSTANCE BoundedFifo WITH
             Capacity <- MAX, queue <- Contents(b), delivered <- deleted[b]

-----------------------------------------------------------------------------
(* Properties *)

(* What a buffer holds is what was inserted and not deleted; the value in  *)
(* the hand of a thread is the last one it deleted: no value is lost,      *)
(* repeated or overtaken on its way through the chain.                     *)
NothingLost ==
  /\ \A b \in Buffers : inserted[b] = deleted[b] \o Contents(b)
  /\ prog = "chain" => \A t \in Threads \ {0} :
       deleted[t-1] = IF pc[t] = "insert" THEN Append(inserted[t], val[t]) ELSE inserted[t]

(* Each buffer implements a FIFO queue of capacity MAX.                    *)
ImplementsFifo ==
  /\ \A b \in Buffers : Fifo(b)!Init
  /\ [][\A b \in Buffers : Fifo(b)!Next \/ UNCHANGED Fifo(b)!vars]_bufs

(* The chain ends as long as the iterations fit into the last buffer.  "if *)
(* iterations > size of last consumer then deadlock"                       *)
(* (ProducerConsumerBenchMark.c:17): then main never returns.              *)
Completes ==
  /\ prog = "circular" \/ COUNT <= MAX => <>(main \in {"done", "exited"})
  /\ prog = "chain" /\ COUNT > MAX => [](main # "done")
=============================================================================
