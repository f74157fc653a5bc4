------------------------------ MODULE SpmcRing ------------------------------
(***************************************************************************)
(* PCB/SinglePMultipleC.cpp: one producer and N - 1 consumers over the     *)
(* indices of one ring.  Both indices are atomic; each is moved by a       *)
(* fetch_add followed by a load, a modulo and a store.  The consumers all  *)
(* move out.  The slots are not used.                                      *)
(*                                                                         *)
(* Each action is one atomic access, except that the producer's accesses   *)
(* to in, which nobody else writes, are joined.  The operands of the empty *)
(* test are read from left to right, as the compiler orders them.          *)
(***************************************************************************)
EXTENDS Integers, FiniteSets, FiniteSetsExt

CONSTANTS
  N,         (* the program's argument: threads                             *)
  BUFF_MAX,  (* 200 in the program                                          *)
  ROUNDS     (* ITER of the program: 1000                                   *)

ASSUME SpmcAssumption == N \in Nat \ {0, 1} /\ BUFF_MAX \in Nat \ {0} /\ ROUNDS \in Nat

Threads   == 0 .. N - 1
Consumers == 1 .. N - 1
max       == N - 1

VARIABLES
  main, i,    (* control point of main, its loop variable                   *)
  point,      (* control point of each thread                               *)
  in, out,    (* the atomic indices                                         *)
  reg,        (* what a consumer has loaded                                 *)
  sent,       (* count of the producer                                      *)
  taken,      (* count of each consumer                                     *)
  raced       (* history: a consumer moved out while another one was        *)
              (* between its test and its store, or a thread left its spin  *)
              (* because an index stood at BUFF_MAX                         *)

counts    == <<sent, taken>>
spmc_vars == <<main, i, point, in, out, reg, counts, raced>>

SpmcInit ==
  /\ main = "perf" /\ i = 0
  /\ point = [t \in Threads |-> "unborn"]
  /\ in = 0 /\ out = 0
  /\ reg = [c \in Consumers |-> 0]
  /\ sent = 0 /\ taken = [c \in Consumers |-> 0]
  /\ raced = FALSE

-----------------------------------------------------------------------------
(* main *)

InitializePerf ==
  /\ main = "perf" /\ main' \in {"create", "exited"}
  /\ UNCHANGED <<i, point, in, out, reg, counts, raced>>

(* That a thread cannot be created is only printed.                        *)
Create ==
  /\ main = "create"
  /\ \E at \in {"pin", "failed"} : point' = [point EXCEPT ![i] = at]
  /\ IF i + 1 \in Threads THEN i' = i + 1 /\ UNCHANGED main ELSE i' = 0 /\ main' = "join"
  /\ UNCHANGED <<in, out, reg, counts, raced>>

(* The two arguments of a thread are allocated before it is created, while *)
(* earlier threads run; only for the first the failure is tested.          *)
MallocFails ==
  /\ main = "create" /\ main' \in {"exited", "crashed"}
  /\ UNCHANGED <<i, point, in, out, reg, counts, raced>>

Join ==
  /\ main = "join"
  /\ \/ /\ point[i] \in {"done", "failed"}
        /\ IF i + 1 \in Threads THEN i' = i + 1 /\ UNCHANGED main ELSE i' = i /\ main' = "done"
     \/ point[i] = "failed" /\ main' = "crashed" /\ UNCHANGED i
  /\ UNCHANGED <<point, in, out, reg, counts, raced>>

Main == InitializePerf \/ Create \/ MallocFails \/ Join

Alive == main \notin {"done", "exited", "crashed"}

Move(t, from, to) == Alive /\ point[t] = from /\ point' = [point EXCEPT ![t] = to] /\ UNCHANGED <<main, i>>

(* A core that does not exist ends the process.                            *)
Pin(t) ==
  /\ \/ Move(t, "pin", IF t = 0 THEN "full" ELSE "first")
     \/ Alive /\ point[t] = "pin" /\ main' = "exited" /\ UNCHANGED <<i, point>>
  /\ UNCHANGED <<in, out, reg, counts, raced>>

-----------------------------------------------------------------------------
(* Producer *)

(* Mutation: the producer never tests for a full ring.                     *)
SeeSpaceUntested ==
  /\ Move(0, "full", "bump") /\ sent < ROUNDS
  /\ raced' = (raced \/ (out >= BUFF_MAX /\ (in + 1) % BUFF_MAX = out % BUFF_MAX))
  /\ UNCHANGED <<in, out, reg, counts>>

SeeSpace ==
  /\ Move(0, "full", "bump") /\ sent < ROUNDS
  /\ (in + 1) % BUFF_MAX # out
  /\ raced' = (raced \/ (out >= BUFF_MAX /\ (in + 1) % BUFF_MAX = out % BUFF_MAX))
  /\ UNCHANGED <<in, out, reg, counts>>

BumpIn ==
  /\ Move(0, "bump", "wrap")
  /\ in' = in + 1 /\ sent' = sent + 1
  /\ UNCHANGED <<out, reg, taken, raced>>

WrapIn ==
  /\ Move(0, "wrap", "full")
  /\ in' = in % BUFF_MAX
  /\ UNCHANGED <<out, reg, counts, raced>>

ProducerReturns ==
  /\ Move(0, "full", "done") /\ sent >= ROUNDS
  /\ UNCHANGED <<in, out, reg, counts, raced>>

-----------------------------------------------------------------------------
(* Consumer c *)

LoadIn(c) ==
  /\ Move(c, "first", "second") /\ taken[c] < ROUNDS \div max
  /\ reg' = [reg EXCEPT ![c] = in]
  /\ UNCHANGED <<in, out, counts, raced>>

(* in.load() == out.load(): spin, or go on.                                *)
LoadOut(c) ==
  /\ IF reg[c] = out
     THEN Move(c, "second", "first") /\ UNCHANGED raced
     ELSE Move(c, "second", "bump")
          /\ raced' = (raced \/ (reg[c] % BUFF_MAX = out % BUFF_MAX))
  /\ UNCHANGED <<in, out, reg, counts>>

(* Past the first load of the test and not done with the store.            *)
Inside(c) == point[c] \in {"second", "bump", "load", "store"}

BumpOut(c) ==
  /\ Move(c, "bump", "load")
  /\ out' = out + 1 /\ taken' = [taken EXCEPT ![c] = @ + 1]
  /\ raced' = (raced \/ \E d \in Consumers \ {c} : Inside(d))
  /\ UNCHANGED <<in, reg, sent>>

(* out.store(out.load() % BUFF_MAX)                                        *)
LoadWrap(c) ==
  /\ Move(c, "load", "store")
  /\ reg' = [reg EXCEPT ![c] = out]
  /\ UNCHANGED <<in, out, counts, raced>>

StoreWrap(c) ==
  /\ Move(c, "store", "first")
  /\ out' = reg[c] % BUFF_MAX
  /\ UNCHANGED <<in, reg, counts, raced>>

(* Mutation: every consumer runs ROUNDS rounds.                            *)
ConsumerReturnsLate(c) ==
  /\ Move(c, "first", "done") /\ taken[c] >= ROUNDS
  /\ UNCHANGED <<in, out, reg, counts, raced>>

ConsumerReturns(c) ==
  /\ Move(c, "first", "done") /\ taken[c] >= ROUNDS \div max
  /\ UNCHANGED <<in, out, reg, counts, raced>>

-----------------------------------------------------------------------------
Producer    == Pin(0) \/ SeeSpace \/ BumpIn \/ WrapIn \/ ProducerReturns
Consumer(c) == \/ Pin(c) \/ LoadIn(c) \/ LoadOut(c) \/ BumpOut(c) \/ LoadWrap(c) \/ StoreWrap(c)
               \/ ConsumerReturns(c)

SpmcNext == Main \/ Producer \/ \E c \in Consumers : Consumer(c)

SpmcSpec == SpmcInit /\ [][SpmcNext]_spmc_vars

(* Every thread has a core of its own.                                     *)
SpmcFairSpec ==
  SpmcSpec /\ WF_spmc_vars(Main) /\ WF_spmc_vars(Producer) /\ \A c \in Consumers : WF_spmc_vars(Consumer(c))

-----------------------------------------------------------------------------
(* Properties *)

Taken == MapThenSumSet(LAMBDA c : taken[c], Consumers)

(* As long as no consumer moved out within another's round, and nobody was *)
(* misled by an index at BUFF_MAX, the indices tell how many items are in  *)
(* the ring, and there are never more than BUFF_MAX - 1.                   *)
CountsUnlessRaced ==
  ~raced => /\ sent - Taken \in 0 .. BUFF_MAX - 1
            /\ (in - out) % BUFF_MAX = sent - Taken

(* If all threads could be created and nothing raced, the program ends: the *)
(* items that ROUNDS/max rounds of max consumers leave fit into the ring.  *)
CompletesUnlessRaced ==
  <>(main \in {"done", "exited", "crashed"} \/ raced \/ \E t \in Threads : point[t] = "failed")

=============================================================================
