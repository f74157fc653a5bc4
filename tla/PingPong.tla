------------------------------ MODULE PingPong ------------------------------
(***************************************************************************)
(* The ping-pong programs of Microbench/ and bench/: two or three threads, *)
(* or two processes of one family, take turns to increment shared          *)
(* counters, each waiting for the parity it plays.  The programs are one   *)
(* protocol with different scripts, so a program is a record: for every    *)
(* thread the counters whose bound ends its loop, or how many turns it     *)
(* takes, and the turns of one pass of the loop.                           *)
(* What a thread counts for itself (its turns and spins) is left out.      *)
(*                                                                         *)
(* Each action is one access to a variable another thread also touches.    *)
(* The programs are compiled without optimisation, so every test of a      *)
(* plain variable reads memory.  Counters are numbered; of an array of     *)
(* counters incremented in one turn the first two stand for all.  Thread t *)
(* of the source is t + 1 here.                                            *)
(***************************************************************************)
EXTENDS Integers, Sequences, SequencesExt

CONSTANTS
  MAX,       (* the bound of the counters, even in every program            *)
  Programs   (* the programs checked, names of Script                       *)

(* One turn: wait for counter "on" to have the parity, perhaps test the    *)
(* bound again, and increment the counters of "body", in order, under lock *)
(* "lock" (0: none).                                                       *)
Turn(on, parity, bounded, lock, body) ==
  [on |-> on, parity |-> parity, bounded |-> bounded, lock |-> lock, body |-> body]

(* A thread leaves its loop when all counters of "until" reached MAX, or   *)
(* when it has taken "rounds" turns.                                       *)
Loop(until, turns)  == [until |-> until, rounds |-> 0, turns |-> turns, loops |-> TRUE]
Times(rounds, take) == [until |-> << >>, rounds |-> rounds, turns |-> <<take>>, loops |-> TRUE]
Once(turns)         == [until |-> << >>, rounds |-> 0, turns |-> turns, loops |-> FALSE]

(* Two threads that play counter 1, under a lock or not.                   *)
Duel(lock, body) == << Loop(<<1>>, <<Turn(1, 0, FALSE, lock, body)>>),
                       Loop(<<1>>, <<Turn(1, 1, FALSE, lock, body)>>) >>

Plain(threads) == [threads |-> threads, spawn |-> "thread",
                   gated |-> TRUE, atomic |-> FALSE, pinExits |-> FALSE]

PP2C    == [Plain(Duel(1, <<1, 2>>)) EXCEPT !.gated = FALSE]  (* "while(start==0)" is a comment *)
PP_NEW  == Plain(Duel(1, <<1, 2>>))
BenchPP == Plain(Duel(1, <<1, 2>>))          (* bench/PP_NEW2.c *)
NoAtomic == Plain(Duel(0, <<1>>))            (* pingPong_withoutAtomic.c *)
Equal   == [Plain(Duel(0, <<1>>)) EXCEPT !.atomic = TRUE]        (* pthread_equal.c *)
PPWA    == [Plain(<< Once(<<Turn(1, 0, FALSE, 0, <<1>>)>>), Once(<<Turn(1, 1, FALSE, 0, <<1>>)>>) >>)
              EXCEPT !.atomic = TRUE, !.pinExits = TRUE]

(* bench/ThreeFriends.c: thread 0 plays counter1 with thread 1 and         *)
(* counter2 (with counter3 to counter5 behind it) with thread 2.           *)
ThreeFriends ==
  Plain(<< Loop(<<1, 2>>, <<Turn(1, 0, TRUE, 1, <<1>>), Turn(2, 0, TRUE, 2, <<2, 3>>)>>),
           Loop(<<1>>, <<Turn(1, 1, FALSE, 1, <<1>>)>>),
           Loop(<<2>>, <<Turn(2, 1, FALSE, 2, <<2, 3>>)>>) >>)

(* ThreeFriendsOld.c: thread 2 shares two counters with thread 0, no locks *)
ThreeFriendsOld ==
  Plain(<< Loop(<<1, 2, 3>>, <<Turn(1, 0, TRUE, 0, <<1>>), Turn(2, 0, TRUE, 0, <<2>>),
                               Turn(3, 0, TRUE, 0, <<3>>)>>),
           Loop(<<1>>, <<Turn(1, 1, FALSE, 0, <<1>>)>>),
           Loop(<<2, 3>>, <<Turn(2, 1, TRUE, 0, <<2>>), Turn(3, 1, TRUE, 0, <<3>>)>>) >>)

(* Microbench/PP_NEW2.c: the parity is tested on "counter" (1), which      *)
(* nobody increments; counter1 (2) and counter2 (3) are incremented.       *)
PP_NEW2 ==
  Plain(<< Loop(<<2>>, <<Turn(1, 0, FALSE, 1, <<2, 3>>)>>),
           Loop(<<1>>, <<Turn(1, 1, FALSE, 1, <<2, 3>>)>>) >>)

(* Microbench/sharedMemory.c and sharedMemory2.c: two processes over an    *)
(* anonymous shared mapping take ITER turns each.  In the first both are   *)
(* children made by fork; in the second the child is made by vfork, which  *)
(* suspends the parent until the child has ended, and the parent plays the *)
(* odd counts itself.                                                      *)
Family(spawn, ITER) ==
  [Plain(<<Times(ITER, Turn(1, 0, FALSE, 0, <<1>>)), Times(ITER, Turn(1, 1, FALSE, 0, <<1>>))>>)
     EXCEPT !.spawn = spawn, !.gated = FALSE, !.pinExits = TRUE]

sharedMemory(ITER)  == Family("fork", ITER)
sharedMemory2(ITER) == Family("vfork", ITER)

Script ==
  [PP2C |-> PP2C, PP_NEW |-> PP_NEW, BenchPP |-> BenchPP, NoAtomic |-> NoAtomic, Equal |-> Equal,
   PPWA |-> PPWA, ThreeFriends |-> ThreeFriends, ThreeFriendsOld |-> ThreeFriendsOld,
   PP_NEW2 |-> PP_NEW2,
   Fork1 |-> sharedMemory(1), Fork4 |-> sharedMemory(4),
   Vfork1 |-> sharedMemory2(1), Vfork2 |-> sharedMemory2(2)]

ASSUME PingPongAssumption ==
  /\ MAX \in Nat \ {0} /\ MAX % 2 = 0 /\ Programs \subseteq DOMAIN Script

Counters == 1 .. 3
Locks    == {1, 2}

VARIABLES
  prog,      (* the program that runs; never changes                        *)
  main,      (* control point of main                                       *)
  i,         (* the thread main creates or joins                            *)
  start,     (* the gate                                                    *)
  pc,        (* control point of each thread                                *)
  turn,      (* which turn of its pass a thread is at                       *)
  at,        (* position in "until" or in the body of the turn              *)
  tmp,       (* the value loaded for an increment                           *)
  counter,
  holder,    (* the thread that holds a lock, 0 for none                    *)
  score      (* history: increments stored, by thread and counter; their    *)
             (* sum over counters is success_threadN                        *)

control == <<prog, main, i, start>>
vars    == <<control, pc, turn, at, tmp, counter, holder, score>>

S == Script[prog]
Threads == DOMAIN S.threads
T(t)    == S.threads[t].turns[turn[t]]

Init ==
  /\ prog \in Programs
  /\ main = "create" /\ i = 1 /\ start = 0
  /\ pc = [t \in Threads |-> "unborn"]
  /\ turn = [t \in Threads |-> 1] /\ at = [t \in Threads |-> 1] /\ tmp = [t \in Threads |-> 0]
  /\ counter = [c \in Counters |-> 0] /\ holder = [l \in Locks |-> 0]
  /\ score = [t \in Threads |-> [c \in Counters |-> 0]]

-----------------------------------------------------------------------------
(* main *)

Alive == main \notin {"done", "crashed", "exited"}

Over(t) == pc[t] \in {"done", "failed"}

(* Mutation: the parent goes on beside its child, as after fork.           *)
SuspendedNever == FALSE

(* The parent is suspended by vfork.                                       *)
Suspended == S.spawn = "vfork" /\ i = 2 /\ ~Over(1)

(* Processes share a mapping that is used without a test that it was made. *)
MmapFails ==
  /\ main = "create" /\ i = 1 /\ S.spawn # "thread"
  /\ main' = "crashed"
  /\ UNCHANGED <<prog, i, start, pc, turn, at, tmp, counter, holder, score>>

(* That a thread cannot be created is only printed, that a process cannot  *)
(* is not noticed.  The second player of a vfork is the parent itself.     *)
Create ==
  /\ main = "create" /\ i \in Threads /\ ~Suspended
  /\ \/ pc' = [pc EXCEPT ![i] = "gate"]
     \/ ~(S.spawn = "vfork" /\ i = 2) /\ pc' = [pc EXCEPT ![i] = "failed"]
  /\ i' = i + 1
  /\ UNCHANGED <<prog, main, start, turn, at, tmp, counter, holder, score>>

Start ==
  /\ main = "create" /\ i \notin Threads
  /\ main' = "join" /\ i' = 1 /\ start' = 1
  /\ UNCHANGED <<prog, pc, turn, at, tmp, counter, holder, score>>

(* Joining an id that was never filled in returns or crashes; wait without *)
(* a child left returns.                                                   *)
Join ==
  /\ main = "join" /\ i \in Threads
  /\ \/ Over(i) /\ i' = i + 1 /\ UNCHANGED main
     \/ pc[i] = "failed" /\ S.spawn = "thread" /\ main' = "crashed" /\ UNCHANGED i
  /\ UNCHANGED <<prog, start, pc, turn, at, tmp, counter, holder, score>>

Return ==
  /\ main = "join" /\ i \notin Threads
  /\ main' = "done"
  /\ UNCHANGED <<prog, i, start, pc, turn, at, tmp, counter, holder, score>>

Main == MmapFails \/ Create \/ Start \/ Join \/ Return

-----------------------------------------------------------------------------
(* A thread *)

Goto(t, p, k, j) ==
  /\ pc' = [pc EXCEPT ![t] = p] /\ turn' = [turn EXCEPT ![t] = k] /\ at' = [at EXCEPT ![t] = j]

At(t, p) == Alive /\ pc[t] = p

FromTheTop(t) ==
  IF S.threads[t].loops THEN Goto(t, "until", 1, 1) ELSE Goto(t, "test", 1, 1)

(* The rest of the pass after a turn, taken or not.                        *)
NextTurn(t) ==
  IF turn[t] < Len(S.threads[t].turns) THEN Goto(t, "test", turn[t] + 1, 1)
  ELSE IF S.threads[t].loops THEN Goto(t, "until", 1, 1) ELSE Goto(t, "done", 1, 1)

(* A child process; its exit is not the program's.                         *)
Child(t) == S.spawn = "fork" \/ (S.spawn = "vfork" /\ t = 1)

(* while(start==0), then pin_this_thread_to_core: an error there has no    *)
(* effect in some programs and ends the process in others.                 *)
Begin(t) ==
  /\ At(t, "gate") /\ (S.gated => start = 1)
  /\ \/ FromTheTop(t) /\ UNCHANGED main
     \/ S.pinExits /\ ~Child(t) /\ main' = "exited" /\ UNCHANGED <<pc, turn, at>>
     \/ S.pinExits /\ Child(t) /\ Goto(t, "failed", 1, 1) /\ UNCHANGED main
  /\ UNCHANGED <<prog, i, start, tmp, counter, holder, score>>

(* The condition of the loop reads its counters one after the other.       *)
Until(t) ==
  LET until == S.threads[t].until IN
  /\ At(t, "until")
  /\ IF until = << >>
     THEN Goto(t, IF score[t][1] < S.threads[t].rounds THEN "test" ELSE "done", 1, 1)
     ELSE IF counter[until[at[t]]] < MAX THEN Goto(t, "test", 1, 1)
     ELSE IF at[t] < Len(until) THEN Goto(t, "until", 1, at[t] + 1)
     ELSE Goto(t, "done", 1, 1)
  /\ UNCHANGED <<control, tmp, counter, holder, score>>

TakeTurn(t) ==
  Goto(t, IF T(t).lock = 0 THEN "load" ELSE "lock", turn[t], 1)

(* Mutation: a thread does not wait for its parity.                        *)
TestAny(t) ==
  /\ At(t, "test")
  /\ IF T(t).bounded THEN Goto(t, "bound", turn[t], 1) ELSE TakeTurn(t)
  /\ UNCHANGED <<control, tmp, counter, holder, score>>

Test(t) ==
  /\ At(t, "test")
  /\ IF counter[T(t).on] % 2 = T(t).parity
     THEN IF T(t).bounded THEN Goto(t, "bound", turn[t], 1) ELSE TakeTurn(t)
     ELSE NextTurn(t)
  /\ UNCHANGED <<control, tmp, counter, holder, score>>

(* Mutation: the bound is not tested again.                                *)
BoundUntested(t) ==
  /\ At(t, "bound") /\ TakeTurn(t)
  /\ UNCHANGED <<control, tmp, counter, holder, score>>

Bound(t) ==
  /\ At(t, "bound")
  /\ IF counter[T(t).on] < MAX THEN TakeTurn(t) ELSE NextTurn(t)
  /\ UNCHANGED <<control, tmp, counter, holder, score>>

(* Mutation: the lock is taken whoever holds it.                           *)
LockAnyway(t) ==
  /\ At(t, "lock")
  /\ holder' = [holder EXCEPT ![T(t).lock] = t]
  /\ Goto(t, "load", turn[t], 1)
  /\ UNCHANGED <<control, tmp, counter, score>>

Lock(t) ==
  /\ At(t, "lock") /\ holder[T(t).lock] = 0
  /\ holder' = [holder EXCEPT ![T(t).lock] = t]
  /\ Goto(t, "load", turn[t], 1)
  /\ UNCHANGED <<control, tmp, counter, score>>

(* counter = counter + 1 is a load and a store.                            *)
Load(t) ==
  /\ At(t, "load") /\ ~S.atomic
  /\ tmp' = [tmp EXCEPT ![t] = counter[T(t).body[at[t]]]]
  /\ Goto(t, "store", turn[t], at[t])
  /\ UNCHANGED <<control, counter, holder, score>>

AfterIncrement(t) ==
  IF at[t] < Len(T(t).body) THEN Goto(t, "load", turn[t], at[t] + 1)
  ELSE IF T(t).lock # 0 THEN Goto(t, "unlock", turn[t], at[t]) ELSE NextTurn(t)

Increment(t, value) ==
  LET c == T(t).body[at[t]] IN
  /\ counter' = [counter EXCEPT ![c] = value]
  /\ score' = [score EXCEPT ![t][c] = @ + 1]
  /\ AfterIncrement(t)
  /\ UNCHANGED <<control, tmp, holder>>

Store(t) == At(t, "store") /\ Increment(t, tmp[t] + 1)

(* counter.fetch_add(1)                                                    *)
FetchAdd(t) == At(t, "load") /\ S.atomic /\ Increment(t, counter[T(t).body[at[t]]] + 1)

(* Mutation: a turn ends without unlocking.                                *)
UnlockForgotten(t) ==
  /\ At(t, "unlock") /\ NextTurn(t)
  /\ UNCHANGED <<control, tmp, counter, holder, score>>

Unlock(t) ==
  /\ At(t, "unlock") /\ NextTurn(t)
  /\ holder' = [holder EXCEPT ![T(t).lock] = 0]
  /\ UNCHANGED <<control, tmp, counter, score>>

Thread(t) ==
  \/ Begin(t) \/ Until(t) \/ Test(t) \/ Bound(t) \/ Lock(t)
  \/ Load(t) \/ Store(t) \/ FetchAdd(t) \/ Unlock(t)

Next == Main \/ \E t \in Threads : Thread(t)

Spec == Init /\ [][Next]_vars

(* The threads are pinned to cores of their own and only spin or wait for  *)
(* a lock whose holder cannot take it twice in a row.                      *)
FairSpec == Spec /\ WF_vars(Main) /\ \A t \in 1 .. 3 : WF_vars(t \in Threads /\ Thread(t))

-----------------------------------------------------------------------------
(* Properties *)

(* Every turn increments the counter it waits for; not so in PP_NEW2.c.    *)
Served == \A t \in Threads : \A k \in DOMAIN S.threads[t].turns :
            LET u == S.threads[t].turns[k] IN u.on \in Range(u.body)

(* The first player can take all its turns beside the second: the child of *)
(* a vfork is alone and has but its first.                                 *)
Beside == S.spawn = "vfork" => S.threads[1].rounds = 1

(* A thread or process could not be made, or not be pinned.                *)
Failed == \E t \in Threads : pc[t] = "failed"

(* The increments of counter c by thread 0, which plays even counts in     *)
(* every program, and by the threads it plays with.                        *)
Even(c) == score[1][c]
Odd(c)  == score[2][c] + (IF 3 \in Threads THEN score[3][c] ELSE 0)

(* No increment is lost although load and store are two steps, the test    *)
(* for the turn is made outside the lock, and some programs have no lock.  *)
NoLostIncrement == \A c \in Counters : counter[c] = Even(c) + Odd(c)

(* "every alternate count is incremented by a thread" (PP2C.c:1): the      *)
(* counts of a counter go to thread 0 and to its partner in turn; also the *)
(* counters incremented behind the one whose parity is tested.  PP_NEW2.c, *)
(* which says the same, waits for a counter nobody increments.             *)
Alternates == Served => \A c \in Counters : Even(c) - Odd(c) \in {0, 1}

(* The counters incremented in one turn are equal whenever their lock is   *)
(* free, although the first of them already hands the turn to the partner. *)
InStep ==
  \A t \in Threads : \A k \in DOMAIN S.threads[t].turns :
    LET u == S.threads[t].turns[k] IN
    u.lock # 0 /\ holder[u.lock] = 0 =>
      \A j \in DOMAIN u.body : counter[u.body[j]] = counter[u.body[1]]

(* The counters thread 0 increments, and whether it tests the bound again  *)
(* between the parity and the increment.                                   *)
Played  == UNION {{u.body[j] : j \in DOMAIN u.body} : u \in Range(S.threads[1].turns)}
Bounded == \A u \in Range(S.threads[1].turns) : u.bounded

(* The values printed at the end: exactly MAX where the bound is tested    *)
(* again after the parity; elsewhere the partner may finish between the    *)
(* two tests and thread 0 counts one further.  Players that count their    *)
(* own turns have made them all.                                           *)
FinalCount ==
  main = "done" /\ ~Failed /\ S.threads[1].loops =>
    \A c \in Played : counter[c] \in
      IF S.threads[1].until = << >> THEN {S.threads[1].rounds + S.threads[2].rounds}
      ELSE IF Bounded THEN {MAX} ELSE {MAX, MAX + 1}

(* Unless a thread or process could not be made or pinned, a program ends  *)
(* exactly when its threads increment the counters they wait for and run   *)
(* beside each other: both parities are served and no lock is waited for   *)
(* for ever.  Otherwise main never gets through its joins, as in PP_NEW2.c *)
(* and, with more than one round, after the vfork of sharedMemory2.c.      *)
Completes ==
  /\ Served /\ Beside => <>(main \in {"done", "crashed", "exited"} \/ Failed)
  /\ ~(Served /\ Beside) => [](main = "done" => Failed)

=============================================================================
