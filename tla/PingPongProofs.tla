--------------------------- MODULE PingPongProofs ---------------------------
(***************************************************************************)
(* Proofs about PingPong, for every even MAX and all thirteen programs: no *)
(* increment is lost, the two sides of a counter alternate, counters of    *)
(* one turn are equal when their lock is free, and what the programs print *)
(* at their end.  First what the scripts have in common (Fit) is read off  *)
(* each of them; the steps are argued from that alone.                     *)
(***************************************************************************)
EXTENDS PingPong, TLAPS

-----------------------------------------------------------------------------
(* The scripts *)

Turns(t) == S.threads[t].turns
Goal(t)  == S.threads[t].until
U(t, k)  == S.threads[t].turns[k]
Steps(t) == 1 .. Len(Turns(t))

(* What every thread and every turn of a script is made of. *)
ThreadsFit ==
  /\ Threads = {1, 2} \/ Threads = {1, 2, 3}
  /\ \A t \in Threads :
       /\ Len(Goal(t)) \in Nat /\ (Goal(t) # << >> => Len(Goal(t)) >= 1)
       /\ \A j \in 1 .. Len(Goal(t)) : Goal(t)[j] \in Counters
       /\ Len(Turns(t)) \in Nat \ {0} /\ DOMAIN Turns(t) = Steps(t)
       /\ S.threads[t].rounds \in Nat

TurnsFit ==
  \A t \in Threads : \A k \in Steps(t) :
    /\ U(t, k).on \in Counters /\ U(t, k).parity = (IF t = 1 THEN 0 ELSE 1)
    /\ U(t, k).lock \in {0, 1, 2}
    /\ Len(U(t, k).body) \in {1, 2} /\ DOMAIN U(t, k).body = 1 .. Len(U(t, k).body)
    /\ \A j \in 1 .. Len(U(t, k).body) : U(t, k).body[j] \in Counters
    /\ Len(U(t, k).body) = 2 => U(t, k).lock # 0

(* Turns that increment the same counter increment the same counters under *)
(* the same lock, and only one of them is the partner's.                   *)
ChannelsFit ==
  \A s, t \in Threads : \A k \in Steps(s), l \in Steps(t) :
    \A a \in 1 .. Len(U(s, k).body), b \in 1 .. Len(U(t, l).body) :
      U(s, k).body[a] = U(t, l).body[b] =>
        /\ a = b /\ U(s, k).body = U(t, l).body /\ U(s, k).lock = U(t, l).lock
        /\ s = t \/ s = 1 \/ t = 1

(* A turn waits for the first counter it increments, unless no turn        *)
(* increments the counter that is waited for.                              *)
ServedFit ==
  IF Served THEN \A t \in Threads : \A k \in Steps(t) : U(t, k).on = U(t, k).body[1]
  ELSE /\ Threads = {1, 2} /\ Goal(2) = <<1>> /\ S.threads[2].loops
       /\ \A t \in Threads : \A k \in Steps(t) :
            U(t, k).on = 1 /\ \A j \in 1 .. Len(U(t, k).body) : U(t, k).body[j] # 1

Counting == Goal(1) # << >>

(* The threads loop until the counters reach MAX, which is tested before   *)
(* every turn, or take a number of turns, or one.                          *)
GoalsFit ==
  /\ Counting =>
       /\ \A t \in Threads : Goal(t) # << >> /\ S.threads[t].loops
       /\ Served => \A t \in Threads : \A k \in Steps(t) :
            U(t, k).bounded \/ (Len(Turns(t)) = 1 /\ Len(Goal(t)) = 1 /\ Goal(t)[1] = U(t, k).on)
       /\ \A k \in Steps(1) : \E j \in 1 .. Len(Goal(1)) : Goal(1)[j] = U(1, k).body[1]
  /\ ~Counting => \A t \in Threads : Goal(t) = << >>
  /\ ~Counting /\ S.threads[1].loops =>
       /\ Threads = {1, 2} /\ Served
       /\ \A t \in Threads :
            /\ S.threads[t].loops /\ Len(Turns(t)) = 1
            /\ U(t, 1).lock = 0 /\ Len(U(t, 1).body) = 1 /\ U(t, 1).body[1] = 1

Fit == ThreadsFit /\ TurnsFit /\ ChannelsFit /\ ServedFit /\ GoalsFit

(* Short intervals, element by element.                                    *)
LEMMA Short == 1 .. 0 = {} /\ 1 .. 1 = {1} /\ 1 .. 2 = {1, 2} /\ 1 .. 3 = {1, 2, 3}
  OBVIOUS

(* What Served says of the turns. *)
LEMMA ServedBy ==
  ASSUME ThreadsFit, TurnsFit
  PROVE  Served <=> \A t \in Threads : \A k \in Steps(t) :
           \E j \in 1 .. Len(U(t, k).body) : U(t, k).body[j] = U(t, k).on
  <1>2. \A t \in Threads : DOMAIN S.threads[t].turns = Steps(t)
    BY DEF ThreadsFit, Turns
  <1>3. ASSUME NEW t \in Threads, NEW k \in Steps(t)
        PROVE  U(t, k).on \in Range(U(t, k).body) <=>
                 \E j \in 1 .. Len(U(t, k).body) : U(t, k).body[j] = U(t, k).on
    <2> DEFINE b == U(t, k).body
    <2>1. DOMAIN b = 1 .. Len(b)
      BY DEF TurnsFit
    <2> HIDE DEF b
    <2>2. U(t, k).on \in Range(b) <=> \E j \in 1 .. Len(b) : b[j] = U(t, k).on
      BY <2>1 DEF Range
    <2>3. QED
      BY <2>2 DEF b
  <1>4. Served <=> \A t \in Threads : \A k \in Steps(t) : U(t, k).on \in Range(U(t, k).body)
    BY <1>2 DEF Served, U
  <1>5. QED
    BY <1>3, <1>4

(* Two threads with one turn each, that increments one counter or two. *)
Duels(b, l, g1, g2) ==
  /\ Threads = {1, 2}
  /\ Len(Turns(1)) = 1 /\ Len(Turns(2)) = 1 /\ DOMAIN Turns(1) = 1 .. 1 /\ DOMAIN Turns(2) = 1 .. 1
  /\ U(1, 1).on = 1 /\ U(1, 1).parity = 0 /\ U(1, 1).bounded = FALSE
  /\ U(1, 1).lock = l /\ U(1, 1).body = b
  /\ U(2, 1).on = 1 /\ U(2, 1).parity = 1 /\ U(2, 1).bounded = FALSE
  /\ U(2, 1).lock = l /\ U(2, 1).body = b
  /\ Goal(1) = g1 /\ Goal(2) = g2
  /\ S.threads[2].loops = S.threads[1].loops
  /\ S.threads[1].rounds \in Nat /\ S.threads[2].rounds \in Nat

(* The programs of this kind.                                              *)
TwoPlayers ==
  \/ Duels(<<1, 2>>, 1, <<1>>, <<1>>) /\ S.threads[1].loops
  \/ Duels(<<2, 3>>, 1, <<2>>, <<1>>) /\ S.threads[1].loops
  \/ Duels(<<1>>, 0, <<1>>, <<1>>) /\ S.threads[1].loops
  \/ Duels(<<1>>, 0, << >>, << >>)

(* What their bodies, locks and goals have in common.                      *)
Simple(b, l, g1, g2) ==
  /\ Duels(b, l, g1, g2)
  /\ Len(b) \in {1, 2} /\ DOMAIN b = 1 .. Len(b)
  /\ b[1] \in Counters /\ (Len(b) = 2 => b[2] \in Counters /\ b[1] # b[2])
  /\ l \in {0, 1} /\ (Len(b) = 2 => l = 1)
  /\ (b[1] = 1 \/ (b[1] = 2 /\ Len(b) = 2 /\ b[2] = 3 /\ g2 = <<1>>))
  /\ (g1 = << >> => g2 = << >> /\ Len(b) = 1 /\ b[1] = 1 /\ l = 0)
  /\ (g1 # << >> => S.threads[1].loops /\ Len(g1) = 1 /\ g1[1] = b[1] /\ g2 = <<1>>)

(* Each of the scripts with two players has the facts of Fit.              *)
LEMMA DuelsFit == ASSUME TwoPlayers PROVE Fit
  <1>0. PICK b, l, g1, g2 : Simple(b, l, g1, g2)
    <2>1. /\ Len(<<1, 2>>) = 2 /\ Len(<<2, 3>>) = 2 /\ Len(<<1>>) = 1 /\ Len(<<2>>) = 1
          /\ DOMAIN <<1, 2>> = 1 .. 2 /\ DOMAIN <<2, 3>> = 1 .. 2 /\ DOMAIN <<1>> = 1 .. 1
          /\ <<1>> # << >> /\ <<2>> # << >>
      OBVIOUS
    <2>2. CASE Duels(<<1, 2>>, 1, <<1>>, <<1>>) /\ S.threads[1].loops
      <3>1. Simple(<<1, 2>>, 1, <<1>>, <<1>>)
        BY <2>1, <2>2 DEF Counters, Simple
      <3>2. QED
        BY <3>1, Zenon
    <2>3. CASE Duels(<<2, 3>>, 1, <<2>>, <<1>>) /\ S.threads[1].loops
      <3>1. Simple(<<2, 3>>, 1, <<2>>, <<1>>)
        BY <2>1, <2>3 DEF Counters, Simple
      <3>2. QED
        BY <3>1, Zenon
    <2>4. CASE Duels(<<1>>, 0, <<1>>, <<1>>) /\ S.threads[1].loops
      <3>1. Simple(<<1>>, 0, <<1>>, <<1>>)
        BY <2>1, <2>4 DEF Counters, Simple
      <3>2. QED
        BY <3>1, Zenon
    <2>5. CASE Duels(<<1>>, 0, << >>, << >>)
      <3>1. Simple(<<1>>, 0, << >>, << >>)
        BY <2>1, <2>5 DEF Counters, Simple
      <3>2. QED
        BY <3>1, Zenon
    <2> QED
      BY <2>2, <2>3, <2>4, <2>5 DEF TwoPlayers
  <1>1. /\ Duels(b, l, g1, g2)
        /\ Len(b) \in {1, 2} /\ DOMAIN b = 1 .. Len(b)
        /\ b[1] \in Counters /\ (Len(b) = 2 => b[2] \in Counters /\ b[1] # b[2])
        /\ l \in {0, 1} /\ (Len(b) = 2 => l = 1)
        /\ (b[1] = 1 \/ (b[1] = 2 /\ Len(b) = 2 /\ b[2] = 3 /\ g2 = <<1>>))
        /\ (g1 = << >> => g2 = << >> /\ Len(b) = 1 /\ b[1] = 1 /\ l = 0)
        /\ (g1 # << >> => S.threads[1].loops /\ Len(g1) = 1 /\ g1[1] = b[1] /\ g2 = <<1>>)
    BY <1>0 DEF Simple
  <1>a. Len(<< >>) = 0 /\ Len(<<1>>) = 1 /\ <<1>>[1] = 1 /\ <<1>> # << >>
    OBVIOUS
  <1>2. /\ Threads = {1, 2} /\ Steps(1) = {1} /\ Steps(2) = {1}
    BY <1>1, Short DEF Duels, Steps
  <1>3. ThreadsFit
    <2>1. ASSUME NEW t \in Threads
          PROVE  /\ Len(Turns(t)) = 1 /\ DOMAIN Turns(t) = Steps(t)
                 /\ S.threads[t].rounds \in Nat
      <3>1. t = 1 \/ t = 2
        BY <1>2
      <3>2. /\ Len(Turns(1)) = 1 /\ DOMAIN Turns(1) = 1 .. 1 /\ S.threads[1].rounds \in Nat
            /\ Len(Turns(2)) = 1 /\ DOMAIN Turns(2) = 1 .. 1 /\ S.threads[2].rounds \in Nat
        BY <1>1 DEF Duels
      <3>3. QED
        BY <3>1, <3>2 DEF Steps
    <2>2. ASSUME NEW t \in Threads
          PROVE  /\ Len(Goal(t)) \in Nat /\ (Goal(t) # << >> => Len(Goal(t)) >= 1)
                 /\ \A j \in 1 .. Len(Goal(t)) : Goal(t)[j] \in Counters
      <3>1. t = 1 \/ t = 2
        BY <1>2
      <3>2. Goal(1) = g1 /\ Goal(2) = g2
        BY <1>1 DEF Duels
      <3>3. /\ Len(g1) \in {0, 1} /\ (g1 # << >> => Len(g1) >= 1) /\ (Len(g1) = 1 => g1[1] \in Counters)
            /\ Len(g2) \in {0, 1} /\ (g2 # << >> => Len(g2) >= 1) /\ (Len(g2) = 1 => g2[1] \in Counters)
        BY <1>1, <1>a DEF Counters
      <3>4. QED
        BY <3>1, <3>2, <3>3, Short
    <2>3. ASSUME NEW t \in Threads
          PROVE  /\ Len(Turns(t)) \in Nat \ {0} /\ DOMAIN Turns(t) = Steps(t)
                 /\ S.threads[t].rounds \in Nat
      <3>1. Len(Turns(t)) = 1 /\ DOMAIN Turns(t) = Steps(t) /\ S.threads[t].rounds \in Nat
        BY <2>1
      <3>2. QED
        BY <3>1
    <2>4. Threads = {1, 2} \/ Threads = {1, 2, 3}
      BY <1>2
    <2>5. QED
      BY <2>2, <2>3, <2>4, Zenon DEF ThreadsFit
  <1>b. ASSUME NEW t \in Threads, NEW k \in Steps(t)
        PROVE  /\ U(t, k).on = 1 /\ U(t, k).parity = (IF t = 1 THEN 0 ELSE 1)
               /\ U(t, k).lock = l /\ U(t, k).body = b
    BY <1>1, <1>2 DEF Duels
  <1>d. \A j \in 1 .. Len(b) : b[j] \in Counters
    BY <1>1, Short
  <1>4. TurnsFit
    <2>1. /\ l \in {0, 1, 2} /\ 1 \in Counters /\ (Len(b) = 2 => l # 0)
          /\ Len(b) \in {1, 2} /\ DOMAIN b = 1 .. Len(b)
      BY <1>1 DEF Counters
    <2>2. QED
      BY <1>b, <1>d, <2>1 DEF TurnsFit
  <1>5. ChannelsFit
    <2>1. \A i1, i2 \in 1 .. Len(b) : b[i1] = b[i2] => i1 = i2
      BY <1>1, Short
    <2>2. \A t \in Threads : t = 1 \/ t = 2
      BY <1>2
    <2>3. QED
      BY <1>b, <2>1, <2>2 DEF ChannelsFit
  <1>6. ServedFit
    BY <1>1, <1>2, <1>3, <1>4, ServedBy, Short DEF Duels, ServedFit
  <1>7. GoalsFit
    <2>1. Served <=> b[1] = 1
      BY <1>1, <1>2, <1>3, <1>4, ServedBy, Short DEF Duels
    <2>2. /\ \A t \in Threads : t = 1 \/ t = 2
          /\ Goal(1) = g1 /\ Goal(2) = g2 /\ S.threads[2].loops = S.threads[1].loops
          /\ Len(Turns(1)) = 1 /\ Len(Turns(2)) = 1 /\ 1 \in Threads
      BY <1>1, <1>2 DEF Duels
    <2>3. CASE Counting
      <3>1. g1 # << >> /\ Len(g1) = 1 /\ g1[1] = b[1] /\ g2 = <<1>> /\ S.threads[1].loops
        BY <1>1, <2>2, <2>3 DEF Counting
      <3>2. \A t \in Threads : Goal(t) # << >> /\ S.threads[t].loops
        BY <1>a, <2>2, <3>1
      <3>3. Served => \A t \in Threads : Len(Turns(t)) = 1 /\ Len(Goal(t)) = 1 /\ Goal(t)[1] = 1
        BY <1>a, <2>1, <2>2, <3>1
      <3>4. \A k \in Steps(1) : \E j \in 1 .. Len(Goal(1)) : Goal(1)[j] = U(1, k).body[1]
        BY <1>b, <2>2, <3>1
      <3>5. Served => \A t \in Threads : \A k \in Steps(t) :
              U(t, k).bounded \/ (Len(Turns(t)) = 1 /\ Len(Goal(t)) = 1 /\ Goal(t)[1] = U(t, k).on)
        BY <1>b, <3>3
      <3>6. QED
        BY <2>3, <3>2, <3>4, <3>5 DEF GoalsFit
    <2>4. CASE ~Counting
      <3>1. g1 = << >> /\ g2 = << >> /\ Len(b) = 1 /\ b[1] = 1 /\ l = 0
        BY <1>1, <2>2, <2>4 DEF Counting
      <3>2. /\ \A t \in Threads : Goal(t) = << >> /\ Len(Turns(t)) = 1
            /\ S.threads[1].loops => \A t \in Threads : S.threads[t].loops
        BY <2>2, <3>1
      <3>3. \A t \in Threads : U(t, 1).lock = 0 /\ Len(U(t, 1).body) = 1 /\ U(t, 1).body[1] = 1
        BY <1>2, <1>b, <2>2, <3>1
      <3>4. QED
        BY <1>2, <2>1, <2>4, <3>1, <3>2, <3>3 DEF GoalsFit
    <2>5. QED
      BY <2>3, <2>4 DEF GoalsFit
  <1>8. QED
    BY <1>3, <1>4, <1>5, <1>6, <1>7 DEF Fit

(* bench/ThreeFriends.c *)
LEMMA FriendsFit == ASSUME prog = "ThreeFriends" PROVE Fit
  <1>1. S.threads =
         << Loop(<<1, 2>>, <<Turn(1, 0, TRUE, 1, <<1>>), Turn(2, 0, TRUE, 2, <<2, 3>>)>>),
           Loop(<<1>>, <<Turn(1, 1, FALSE, 1, <<1>>)>>),
           Loop(<<2>>, <<Turn(2, 1, FALSE, 2, <<2, 3>>)>>) >>
    <2>1. S = ThreeFriends
      BY DEF S, Script
    <2>2. QED
      BY <2>1 DEF ThreeFriends, Plain
  <1> USE DEF Loop, Turn
  <1>2. Threads = {1, 2, 3} /\ \A t \in Threads : t = 1 \/ t = 2 \/ t = 3
    <2>1. Threads = {1, 2, 3}
      BY <1>1 DEF Threads
    <2>2. QED
      BY <2>1
  <1>3. /\ Len(Turns(1)) = 2 /\ Len(Turns(2)) = 1 /\ Len(Turns(3)) = 1
        /\ DOMAIN Turns(1) = 1 .. 2 /\ DOMAIN Turns(2) = 1 .. 1 /\ DOMAIN Turns(3) = 1 .. 1
    BY <1>1 DEF Turns
  <1>4. Steps(1) = {1, 2} /\ Steps(2) = {1} /\ Steps(3) = {1}
    BY <1>3, Short DEF Steps
  <1>5. Goal(1) = <<1, 2>> /\ Goal(2) = <<1>> /\ Goal(3) = <<2>>
    BY <1>1 DEF Goal
  <1>6. \A t \in {1, 2, 3} : S.threads[t].loops = TRUE /\ S.threads[t].rounds = 0
    BY <1>1
  <1>7. /\ U(1, 1).on = 1 /\ U(1, 1).parity = 0 /\ U(1, 1).lock = 1
        /\ U(1, 2).on = 2 /\ U(1, 2).parity = 0 /\ U(1, 2).lock = 2
        /\ U(2, 1).on = 1 /\ U(2, 1).parity = 1 /\ U(2, 1).lock = 1
        /\ U(3, 1).on = 2 /\ U(3, 1).parity = 1 /\ U(3, 1).lock = 2
    BY <1>1 DEF U
  <1>8. /\ U(1, 1).bounded = TRUE /\ U(1, 2).bounded = TRUE
        /\ U(2, 1).bounded = FALSE /\ U(3, 1).bounded = FALSE
    BY <1>1 DEF U
  <1>9. U(1, 1).body = <<1>> /\ U(1, 2).body = <<2, 3>> /\ U(2, 1).body = <<1>> /\ U(3, 1).body = <<2, 3>>
    BY <1>1 DEF U
  <1> HIDE DEF Loop, Turn
  <1>10. /\ Len(<<1>>) = 1 /\ DOMAIN <<1>> = 1 .. 1 /\ <<1>>[1] = 1 /\ <<1>> # << >>
         /\ Len(<<2>>) = 1 /\ <<2>>[1] = 2 /\ <<2>> # << >>
         /\ Len(<<1, 2>>) = 2 /\ <<1, 2>>[1] = 1 /\ <<1, 2>>[2] = 2 /\ <<1, 2>> # << >>
         /\ Len(<<2, 3>>) = 2 /\ DOMAIN <<2, 3>> = 1 .. 2 /\ <<2, 3>>[1] = 2 /\ <<2, 3>>[2] = 3
    OBVIOUS
  <1>11. ThreadsFit
    <2>1. ASSUME NEW t \in Threads
          PROVE  /\ Len(Turns(t)) \in Nat \ {0} /\ DOMAIN Turns(t) = Steps(t)
                 /\ S.threads[t].rounds \in Nat
      <3>1. S.threads[t].rounds = 0
        BY <1>2, <1>6
      <3>2. Len(Turns(t)) \in Nat \ {0} /\ DOMAIN Turns(t) = Steps(t)
        BY <1>2, <1>3 DEF Steps
      <3>3. QED
        BY <3>1, <3>2
    <2>2. ASSUME NEW t \in Threads
          PROVE  /\ Len(Goal(t)) \in {1, 2}
                 /\ \A j \in 1 .. Len(Goal(t)) : Goal(t)[j] \in Counters
      BY <1>2, <1>5, <1>10, Short DEF Counters
    <2>3. QED
      BY <1>2, <2>1, <2>2 DEF ThreadsFit
  <1>12. TurnsFit
    <2>1. ASSUME NEW t \in Threads, NEW k \in Steps(t)
          PROVE  /\ U(t, k).on \in Counters /\ U(t, k).parity = (IF t = 1 THEN 0 ELSE 1)
                 /\ U(t, k).lock \in {1, 2}
      BY <1>2, <1>4, <1>7 DEF Counters
    <2>2. ASSUME NEW t \in Threads, NEW k \in Steps(t)
          PROVE  /\ Len(U(t, k).body) \in {1, 2} /\ DOMAIN U(t, k).body = 1 .. Len(U(t, k).body)
                 /\ \A j \in 1 .. Len(U(t, k).body) : U(t, k).body[j] \in Counters
      <3>1. U(t, k).body = <<1>> \/ U(t, k).body = <<2, 3>>
        BY <1>2, <1>4, <1>9
      <3>2. QED
        BY <3>1, <1>10, Short DEF Counters
    <2>3. QED
      BY <2>1, <2>2 DEF TurnsFit
  <1>13. ChannelsFit
    <2>1. ASSUME NEW t \in Threads, NEW k \in Steps(t)
          PROVE  \/ U(t, k).body = <<1>> /\ U(t, k).lock = 1 /\ t \in {1, 2}
                 \/ U(t, k).body = <<2, 3>> /\ U(t, k).lock = 2 /\ t \in {1, 3}
      BY <1>2, <1>4, <1>7, <1>9
    <2>2. \A x, y \in {<<1>>, <<2, 3>>} : \A a \in 1 .. Len(x), b \in 1 .. Len(y) :
            x[a] = y[b] => a = b /\ x = y
      BY <1>10, Short
    <2>3. <<1>> # <<2, 3>>
      BY <1>10
    <2>4. ASSUME NEW s \in Threads, NEW t \in Threads, NEW k \in Steps(s), NEW l \in Steps(t),
                 NEW a \in 1 .. Len(U(s, k).body), NEW b \in 1 .. Len(U(t, l).body),
                 U(s, k).body[a] = U(t, l).body[b]
          PROVE  /\ a = b /\ U(s, k).body = U(t, l).body /\ U(s, k).lock = U(t, l).lock
                 /\ s = t \/ s = 1 \/ t = 1
      <3>1. a = b /\ U(s, k).body = U(t, l).body
        BY <2>1, <2>2, <2>4
      <3>2. QED
        BY <2>1, <2>3, <3>1
    <2>5. QED
      BY <2>4 DEF ChannelsFit
  <1>14. Served /\ \A t \in Threads : \A k \in Steps(t) : U(t, k).on = U(t, k).body[1]
    <2>1. ASSUME NEW t \in Threads, NEW k \in Steps(t)
          PROVE  U(t, k).on = U(t, k).body[1] /\ 1 \in 1 .. Len(U(t, k).body)
      BY <1>2, <1>4, <1>7, <1>9, <1>10
    <2>2. QED
      BY <1>11, <1>12, <2>1, ServedBy
  <1>15. GoalsFit
    <2>1. Counting /\ \A t \in Threads : Goal(t) # << >> /\ S.threads[t].loops
      BY <1>2, <1>5, <1>6, <1>10 DEF Counting
    <2>2. ASSUME NEW t \in Threads, NEW k \in Steps(t)
          PROVE  U(t, k).bounded \/ (Len(Turns(t)) = 1 /\ Len(Goal(t)) = 1 /\ Goal(t)[1] = U(t, k).on)
      BY <1>2, <1>3, <1>4, <1>5, <1>7, <1>8, <1>10
    <2>3. ASSUME NEW k \in Steps(1)
          PROVE  \E j \in 1 .. Len(Goal(1)) : Goal(1)[j] = U(1, k).body[1]
      BY <1>4, <1>5, <1>9, <1>10, Short
    <2>4. QED
      BY <2>1, <2>2, <2>3 DEF GoalsFit
  <1>16. QED
    BY <1>11, <1>12, <1>13, <1>14, <1>15 DEF Fit, ServedFit

(* bench/ThreeFriendsOld.c *)
LEMMA OldFriendsFit == ASSUME prog = "ThreeFriendsOld" PROVE Fit
  <1>1. S.threads =
         << Loop(<<1, 2, 3>>, <<Turn(1, 0, TRUE, 0, <<1>>), Turn(2, 0, TRUE, 0, <<2>>),
                               Turn(3, 0, TRUE, 0, <<3>>)>>),
           Loop(<<1>>, <<Turn(1, 1, FALSE, 0, <<1>>)>>),
           Loop(<<2, 3>>, <<Turn(2, 1, TRUE, 0, <<2>>), Turn(3, 1, TRUE, 0, <<3>>)>>) >>
    <2>1. S = ThreeFriendsOld
      BY DEF S, Script
    <2>2. QED
      BY <2>1 DEF ThreeFriendsOld, Plain
  <1> USE DEF Loop, Turn
  <1>2. Threads = {1, 2, 3} /\ \A t \in Threads : t = 1 \/ t = 2 \/ t = 3
    <2>1. Threads = {1, 2, 3}
      BY <1>1 DEF Threads
    <2>2. QED
      BY <2>1
  <1>3. /\ Len(Turns(1)) = 3 /\ Len(Turns(2)) = 1 /\ Len(Turns(3)) = 2
        /\ DOMAIN Turns(1) = 1 .. 3 /\ DOMAIN Turns(2) = 1 .. 1 /\ DOMAIN Turns(3) = 1 .. 2
    BY <1>1 DEF Turns
  <1>4. Steps(1) = {1, 2, 3} /\ Steps(2) = {1} /\ Steps(3) = {1, 2}
    BY <1>3, Short DEF Steps
  <1>5. Goal(1) = <<1, 2, 3>> /\ Goal(2) = <<1>> /\ Goal(3) = <<2, 3>>
    BY <1>1 DEF Goal
  <1>6. \A t \in {1, 2, 3} : S.threads[t].loops = TRUE /\ S.threads[t].rounds = 0
    BY <1>1
  <1>7. /\ U(1, 1).on = 1 /\ U(1, 1).parity = 0 /\ U(1, 2).on = 2 /\ U(1, 2).parity = 0
        /\ U(1, 3).on = 3 /\ U(1, 3).parity = 0 /\ U(2, 1).on = 1 /\ U(2, 1).parity = 1
        /\ U(3, 1).on = 2 /\ U(3, 1).parity = 1 /\ U(3, 2).on = 3 /\ U(3, 2).parity = 1
        /\ U(1, 1).lock = 0 /\ U(1, 2).lock = 0 /\ U(1, 3).lock = 0
        /\ U(2, 1).lock = 0 /\ U(3, 1).lock = 0 /\ U(3, 2).lock = 0
    BY <1>1 DEF U
  <1>8. /\ U(1, 1).bounded = TRUE /\ U(1, 2).bounded = TRUE /\ U(1, 3).bounded = TRUE
        /\ U(2, 1).bounded = FALSE /\ U(3, 1).bounded = TRUE /\ U(3, 2).bounded = TRUE
    BY <1>1 DEF U
  <1>9. /\ U(1, 1).body = <<1>> /\ U(1, 2).body = <<2>> /\ U(1, 3).body = <<3>>
        /\ U(2, 1).body = <<1>> /\ U(3, 1).body = <<2>> /\ U(3, 2).body = <<3>>
    BY <1>1 DEF U
  <1> HIDE DEF Loop, Turn
  <1>10. /\ \A c : Len(<<c>>) = 1 /\ DOMAIN <<c>> = 1 .. 1 /\ <<c>>[1] = c /\ <<c>> # << >>
         /\ Len(<<2, 3>>) = 2 /\ <<2, 3>>[1] = 2 /\ <<2, 3>>[2] = 3 /\ <<2, 3>> # << >>
         /\ Len(<<1, 2, 3>>) = 3 /\ <<1, 2, 3>>[1] = 1 /\ <<1, 2, 3>>[2] = 2 /\ <<1, 2, 3>>[3] = 3
         /\ <<1, 2, 3>> # << >>
    OBVIOUS
  <1>11. ThreadsFit
    <2>1. ASSUME NEW t \in Threads
          PROVE  /\ Len(Turns(t)) \in Nat \ {0} /\ DOMAIN Turns(t) = Steps(t)
                 /\ S.threads[t].rounds \in Nat
      <3>1. S.threads[t].rounds = 0
        BY <1>2, <1>6
      <3>2. Len(Turns(t)) \in Nat \ {0} /\ DOMAIN Turns(t) = Steps(t)
        BY <1>2, <1>3 DEF Steps
      <3>3. QED
        BY <3>1, <3>2
    <2>2. ASSUME NEW t \in Threads
          PROVE  /\ Len(Goal(t)) \in {1, 2, 3}
                 /\ \A j \in 1 .. Len(Goal(t)) : Goal(t)[j] \in Counters
      BY <1>2, <1>5, <1>10, Short DEF Counters
    <2>3. QED
      BY <1>2, <2>1, <2>2 DEF ThreadsFit
  (* The turn of one counter. *)
  <1>one. ASSUME NEW t \in Threads, NEW k \in Steps(t)
          PROVE  \E c \in {1, 2, 3} :
                   /\ U(t, k).on = c /\ U(t, k).lock = 0 /\ U(t, k).body = <<c>>
                   /\ U(t, k).parity = (IF t = 1 THEN 0 ELSE 1)
                   /\ t = 1 \/ (t = 2 /\ c = 1) \/ (t = 3 /\ c # 1)
    BY <1>2, <1>4, <1>7, <1>9
  <1>12. TurnsFit
    <2>1. ASSUME NEW t \in Threads, NEW k \in Steps(t)
          PROVE  /\ U(t, k).on \in Counters /\ U(t, k).parity = (IF t = 1 THEN 0 ELSE 1)
                 /\ U(t, k).lock \in {0, 1, 2}
                 /\ Len(U(t, k).body) \in {1, 2} /\ DOMAIN U(t, k).body = 1 .. Len(U(t, k).body)
                 /\ \A j \in 1 .. Len(U(t, k).body) : U(t, k).body[j] \in Counters
                 /\ Len(U(t, k).body) = 2 => U(t, k).lock # 0
      <3>1. PICK c \in {1, 2, 3} : U(t, k).on = c /\ U(t, k).lock = 0 /\ U(t, k).body = <<c>>
                                  /\ U(t, k).parity = (IF t = 1 THEN 0 ELSE 1)
        BY <1>one
      <3>2. c \in Counters
        BY DEF Counters
      <3>3. Len(U(t, k).body) = 1 /\ DOMAIN U(t, k).body = 1 .. 1 /\ U(t, k).body[1] = c
        BY <1>10, <3>1
      <3>4. QED
        BY <3>1, <3>2, <3>3, Short
    <2>2. QED
      BY <2>1 DEF TurnsFit
  <1>13. ChannelsFit
    <2>1. ASSUME NEW s \in Threads, NEW t \in Threads, NEW k \in Steps(s), NEW l \in Steps(t),
                 NEW a \in 1 .. Len(U(s, k).body), NEW b \in 1 .. Len(U(t, l).body),
                 U(s, k).body[a] = U(t, l).body[b]
          PROVE  /\ a = b /\ U(s, k).body = U(t, l).body /\ U(s, k).lock = U(t, l).lock
                 /\ s = t \/ s = 1 \/ t = 1
      <3>1. PICK c \in {1, 2, 3} : U(s, k).body = <<c>> /\ U(s, k).lock = 0 /\
                                   (s = 1 \/ (s = 2 /\ c = 1) \/ (s = 3 /\ c # 1))
        BY <1>one
      <3>2. PICK d \in {1, 2, 3} : U(t, l).body = <<d>> /\ U(t, l).lock = 0 /\
                                   (t = 1 \/ (t = 2 /\ d = 1) \/ (t = 3 /\ d # 1))
        BY <1>one
      <3>3. a = 1 /\ b = 1 /\ c = d
        BY <1>10, <2>1, <3>1, <3>2, Short
      <3>4. QED
        BY <3>1, <3>2, <3>3
    <2>2. QED
      BY <2>1 DEF ChannelsFit
  <1>14. Served /\ \A t \in Threads : \A k \in Steps(t) : U(t, k).on = U(t, k).body[1]
    <2>1. ASSUME NEW t \in Threads, NEW k \in Steps(t)
          PROVE  U(t, k).on = U(t, k).body[1] /\ 1 \in 1 .. Len(U(t, k).body)
      <3>1. PICK c \in {1, 2, 3} : U(t, k).on = c /\ U(t, k).body = <<c>>
        BY <1>one
      <3>2. QED
        BY <1>10, <3>1
    <2>2. QED
      BY <1>11, <1>12, <2>1, ServedBy
  <1>15. GoalsFit
    <2>1. Counting /\ \A t \in Threads : Goal(t) # << >> /\ S.threads[t].loops
      BY <1>2, <1>5, <1>6, <1>10 DEF Counting
    <2>2. ASSUME NEW t \in Threads, NEW k \in Steps(t)
          PROVE  U(t, k).bounded \/ (Len(Turns(t)) = 1 /\ Len(Goal(t)) = 1 /\ Goal(t)[1] = U(t, k).on)
      BY <1>2, <1>3, <1>4, <1>5, <1>7, <1>8, <1>10
    <2>3. ASSUME NEW k \in Steps(1)
          PROVE  \E j \in 1 .. Len(Goal(1)) : Goal(1)[j] = U(1, k).body[1]
      BY <1>4, <1>5, <1>9, <1>10, Short
    <2>4. QED
      BY <2>1, <2>2, <2>3 DEF GoalsFit
  <1>16. QED
    BY <1>11, <1>12, <1>13, <1>14, <1>15 DEF Fit, ServedFit

(* Every program fits. *)
LEMMA Scripts == ASSUME prog \in Programs PROVE Fit
  <1>1. prog \in DOMAIN Script
    BY PingPongAssumption
  <1>2. ASSUME NEW b, NEW l, NEW g1, NEW g2, NEW loops \in BOOLEAN, NEW r \in Nat,
               S.threads = << [until |-> g1, rounds |-> r,
                                turns |-> <<Turn(1, 0, FALSE, l, b)>>, loops |-> loops],
                              [until |-> g2, rounds |-> r,
                                turns |-> <<Turn(1, 1, FALSE, l, b)>>, loops |-> loops] >>
        PROVE  Duels(b, l, g1, g2) /\ S.threads[1].loops = loops
    BY <1>2 DEF Duels, Threads, Turns, U, Goal, Turn
  <1>3. CASE prog \in {"PP2C", "PP_NEW", "BenchPP"}
    <2>1. S \in {PP2C, PP_NEW, BenchPP}
      BY <1>3 DEF S, Script
    <2>2. S.threads = Duel(1, <<1, 2>>)
      BY <2>1 DEF PP2C, PP_NEW, BenchPP, Plain
    <2>3. Duels(<<1, 2>>, 1, <<1>>, <<1>>) /\ S.threads[1].loops = TRUE
      BY <1>2, <2>2 DEF Duel, Loop
    <2>4. QED
      BY <2>3, DuelsFit DEF TwoPlayers
  <1>4. CASE prog \in {"NoAtomic", "Equal"}
    <2>1. S \in {NoAtomic, Equal}
      BY <1>4 DEF S, Script
    <2>2. S.threads = Duel(0, <<1>>)
      BY <2>1 DEF NoAtomic, Equal, Plain
    <2>3. Duels(<<1>>, 0, <<1>>, <<1>>) /\ S.threads[1].loops = TRUE
      BY <1>2, <2>2 DEF Duel, Loop
    <2>4. QED
      BY <2>3, DuelsFit DEF TwoPlayers
  <1>5. CASE prog = "PPWA"
    <2>1. S = PPWA
      BY <1>5 DEF S, Script
    <2>2. S.threads = << Once(<<Turn(1, 0, FALSE, 0, <<1>>)>>), Once(<<Turn(1, 1, FALSE, 0, <<1>>)>>) >>
      BY <2>1 DEF PPWA, Plain
    <2>3. Duels(<<1>>, 0, << >>, << >>)
      BY <1>2, <2>2 DEF Once
    <2>4. QED
      BY <2>3, DuelsFit DEF TwoPlayers
  <1>6. CASE prog = "PP_NEW2"
    <2>1. S = PP_NEW2
      BY <1>6 DEF S, Script
    <2>2. S.threads = << Loop(<<2>>, <<Turn(1, 0, FALSE, 1, <<2, 3>>)>>),
                         Loop(<<1>>, <<Turn(1, 1, FALSE, 1, <<2, 3>>)>>) >>
      BY <2>1 DEF PP_NEW2, Plain
    <2>3. Duels(<<2, 3>>, 1, <<2>>, <<1>>) /\ S.threads[1].loops = TRUE
      BY <1>2, <2>2 DEF Loop
    <2>4. QED
      BY <2>3, DuelsFit DEF TwoPlayers
  <1>7. CASE prog \in {"Fork1", "Fork4", "Vfork1", "Vfork2"}
    <2>1. PICK spawn \in {"fork", "vfork"}, ITER \in Nat : S = Family(spawn, ITER)
      BY <1>7 DEF S, Script, sharedMemory, sharedMemory2
    <2>2. S.threads = <<Times(ITER, Turn(1, 0, FALSE, 0, <<1>>)), Times(ITER, Turn(1, 1, FALSE, 0, <<1>>))>>
      BY <2>1 DEF Family, Plain
    <2>3. Duels(<<1>>, 0, << >>, << >>)
      BY <1>2, <2>2 DEF Times
    <2>4. QED
      BY <2>3, DuelsFit DEF TwoPlayers
  <1>8. QED
    BY <1>1, <1>3, <1>4, <1>5, <1>6, <1>7, FriendsFit, OldFriendsFit DEF Script

-----------------------------------------------------------------------------
(* The inductive invariant *)

Points == {"unborn", "failed", "gate", "until", "test", "bound", "lock", "load", "store",
           "unlock", "done"}

Typed ==
  /\ prog \in Programs /\ i \in Nat \ {0}
  /\ pc \in [Threads -> Points]
  /\ turn \in [Threads -> Nat] /\ at \in [Threads -> Nat] /\ tmp \in [Threads -> Nat]
  /\ counter \in [Counters -> Nat] /\ holder \in [Locks -> Nat]
  /\ score \in [Threads -> [Counters -> Nat]]

(* What main knows of the threads it has come to.                          *)
MainKnows ==
  /\ main = "create" => \A t \in Threads : t >= i => pc[t] = "unborn"
  /\ main = "join" => \A t \in Threads : t < i => Over(t)
  /\ main = "done" => \A t \in Threads : Over(t)

(* Where a thread is in its script; nobody serves an odd count in          *)
(* PP_NEW2.c.                                                              *)
Placed(t) ==
  /\ turn[t] \in Steps(t)
  /\ pc[t] \in {"load", "store"} => at[t] \in 1 .. Len(T(t).body)
  /\ pc[t] = "until" /\ Goal(t) # << >> => at[t] \in 1 .. Len(Goal(t))
  /\ pc[t] \in {"lock", "unlock"} => T(t).lock # 0
  /\ ~Served /\ t = 2 => pc[t] \notin {"bound", "lock", "load", "store", "unlock", "done"}

(* The counter a thread has the turn of.                                   *)
Cur(t) == IF pc[t] \in {"load", "store"} THEN T(t).body[at[t]] ELSE T(t).on

(* The parity a thread has seen stays until it has made its increment.     *)
InTurn(t) ==
  Served /\ pc[t] \in {"bound", "lock", "load", "store"} => counter[Cur(t)] % 2 = T(t).parity

(* A value that was loaded is not stale.                                   *)
Loaded(t) == pc[t] = "store" => tmp[t] = counter[Cur(t)]

Holds(t) ==
  pc[t] \in {"load", "store", "unlock"} /\ T(t).lock # 0 => holder[T(t).lock] = t

(* Between its two increments a thread has only made the first.            *)
Between(t) == pc[t] \in {"load", "store"} /\ at[t] = 2
Lagging(t) == Between(t) => counter[T(t).body[1]] = counter[T(t).body[2]] + 1

(* The largest count a thread may find when it is about to increment.      *)
Most(t) == IF t = 1 THEN MAX ELSE MAX - 1

Within(t) ==
  Counting /\ Served =>
    /\ pc[t] = "test" /\ ~T(t).bounded => counter[T(t).on] <= Most(t)
    /\ pc[t] \in {"lock", "load", "store"} =>
         counter[Cur(t)] <= (IF T(t).bounded THEN MAX - 1 ELSE Most(t))

(* A thread leaves its loop when its counters have reached MAX.            *)
Leaving(t) ==
  Counting =>
    /\ pc[t] = "until" => \A j \in 1 .. at[t] - 1 : counter[Goal(t)[j]] >= MAX
    /\ pc[t] = "done" => \A j \in 1 .. Len(Goal(t)) : counter[Goal(t)[j]] >= MAX

(* A thread that counts its turns takes so many and no more.               *)
Rounds(t) ==
  ~Counting /\ S.threads[1].loops =>
    /\ score[t][1] <= S.threads[t].rounds
    /\ pc[t] \in {"test", "bound", "lock", "load", "store"} => score[t][1] < S.threads[t].rounds
    /\ pc[t] = "done" => score[t][1] >= S.threads[t].rounds

Local(t) ==
  /\ Placed(t) /\ InTurn(t) /\ Loaded(t) /\ Holds(t) /\ Lagging(t)
  /\ Within(t) /\ Leaving(t) /\ Rounds(t)

(* Counters incremented in one turn are equal but for a thread between its *)
(* two increments.                                                         *)
Level ==
  \A t \in Threads : \A k \in Steps(t) :
    Len(U(t, k).body) = 2 =>
      \/ counter[U(t, k).body[1]] = counter[U(t, k).body[2]]
      \/ \E s \in Threads : Between(s) /\ T(s).body = U(t, k).body

(* The counters are what has been counted, by the two sides in turn.       *)
Sums ==
  \A c \in Counters :
    /\ counter[c] = Even(c) + Odd(c)
    /\ Served => Even(c) - Odd(c) = counter[c] % 2

Limits ==
  /\ Counting /\ Served => \A c \in Counters : counter[c] <= (IF Bounded THEN MAX ELSE MAX + 1)
  /\ ~Served => counter[1] = 0

(* The inductive invariant.                                                *)
IInv ==
  /\ Typed /\ MainKnows
  /\ \A t \in Threads : Local(t)
  /\ Level /\ Sums /\ Limits

-----------------------------------------------------------------------------
(* Steps *)

(* What depends on the program alone.                                      *)
LEMMA SameScript ==
  ASSUME prog' = prog
  PROVE  /\ S' = S /\ Threads' = Threads /\ Served' = Served /\ Counting' = Counting
         /\ Bounded' = Bounded
         /\ \A t : Turns(t)' = Turns(t) /\ Goal(t)' = Goal(t) /\ Steps(t)' = Steps(t)
         /\ \A t, k : U(t, k)' = U(t, k)
  <1>1. S' = S
    BY DEF S
  <1>2. QED
    BY <1>1 DEF Threads, Served, Counting, Bounded, Turns, Goal, Steps, U

(* The turn a thread is at.                                                *)
LEMMA ThisTurn ==
  ASSUME Fit, NEW t \in Threads, turn[t] \in Steps(t)
  PROVE  /\ T(t) = U(t, turn[t])
         /\ T(t).on \in Counters /\ T(t).parity = (IF t = 1 THEN 0 ELSE 1)
         /\ T(t).lock \in {0, 1, 2} /\ Len(T(t).body) \in {1, 2}
         /\ \A j \in 1 .. Len(T(t).body) : T(t).body[j] \in Counters
         /\ Len(T(t).body) = 2 => T(t).lock # 0
  <1>1. T(t) = U(t, turn[t])
    BY DEF T, U
  <1>2. QED
    BY <1>1 DEF Fit, TurnsFit

(* A thread that does not move, and counters that do not change.           *)
LEMMA Still ==
  ASSUME prog' = prog, NEW t, Local(t),
         pc'[t] = pc[t], turn'[t] = turn[t], at'[t] = at[t], tmp'[t] = tmp[t],
         counter' = counter, score'[t] = score[t],
         T(t).lock # 0 /\ holder[T(t).lock] = t => holder'[T(t).lock] = t
  PROVE  Local(t)'
  <1>1. T(t)' = T(t) /\ Cur(t)' = Cur(t)
    BY SameScript DEF T, Cur
  <1>2. Placed(t)' /\ InTurn(t)' /\ Loaded(t)' /\ Holds(t)' /\ Lagging(t)'
    BY <1>1, SameScript DEF Local, Placed, InTurn, Loaded, Holds, Lagging, Between
  <1>3. Within(t)' /\ Leaving(t)' /\ Rounds(t)'
    BY <1>1, SameScript DEF Local, Within, Leaving, Rounds, Most
  <1>4. QED
    BY <1>2, <1>3 DEF Local

(* A step of thread t leaves the other threads alone.                      *)
Others(t) ==
  \A s \in Threads \ {t} :
    pc'[s] = pc[s] /\ turn'[s] = turn[s] /\ at'[s] = at[s] /\ tmp'[s] = tmp[s]

(* What main knows of its threads stays true while another thread moves.   *)
LEMMA MainStill ==
  ASSUME IInv, NEW t \in Threads, prog' = prog, i' = i, main' = main \/ main' = "exited",
         pc[t] \notin {"unborn", "done", "failed"}, Others(t)
  PROVE  MainKnows'
  <1>1. Threads' = Threads
    BY SameScript
  <1>2. \A s \in Threads : s # t => pc'[s] = pc[s]
    BY DEF Others
  <1>3. QED
    BY <1>1, <1>2 DEF IInv, MainKnows, Over

(* A step of a thread that increments nothing.                             *)
LEMMA QuietStep ==
  ASSUME IInv, NEW t \in Threads, prog' = prog, i' = i, main' = main \/ main' = "exited",
         pc[t] \notin {"unborn", "done", "failed"}, Others(t), Typed',
         counter' = counter, score' = score,
         \A l \in Locks : holder[l] # 0 /\ holder[l] # t => holder'[l] = holder[l],
         Between(t) => Between(t)' /\ T(t)' = T(t),
         Local(t)'
  PROVE  IInv'
  <1>1. Fit
    BY Scripts DEF IInv, Typed
  <1>2. ASSUME NEW s \in Threads PROVE Local(s)'
    <2>1. CASE s = t
      BY <2>1
    <2>2. CASE s # t
      <3>1. /\ pc'[s] = pc[s] /\ turn'[s] = turn[s] /\ at'[s] = at[s] /\ tmp'[s] = tmp[s]
            /\ score'[s] = score[s] /\ Local(s)
        BY <2>2 DEF Others, IInv
      <3>2. T(s).lock \in {0, 1, 2} /\ s # 0
        <4>1. s # 0
          BY <1>1 DEF Fit, ThreadsFit
        <4>2. QED
          BY <1>1, <3>1, <4>1, ThisTurn DEF Local, Placed
      <3>3. T(s).lock # 0 /\ holder[T(s).lock] = s => holder'[T(s).lock] = s
        BY <2>2, <3>2 DEF Locks
      <3>4. QED
        BY <3>1, <3>3, Still
    <2>3. QED
      BY <2>1, <2>2
  <1>3. Level'
    <2>1. \A s \in Threads : Between(s) => Between(s)' /\ T(s)' = T(s)
      BY SameScript DEF Others, Between, T
    <2>2. QED
      BY <2>1, SameScript DEF IInv, Level
  <1>4. Sums' /\ Limits'
    BY SameScript DEF IInv, Sums, Limits, Even, Odd
  <1>5. MainKnows'
    BY MainStill
  <1>6. QED
    BY <1>2, <1>3, <1>4, <1>5, SameScript DEF IInv

(* Initially no thread has been created and nothing counted.               *)
LEMMA InitIInv == Init => IInv
  <1> SUFFICES ASSUME Init PROVE IInv
    OBVIOUS
  <1> USE DEF Init
  <1>1. Fit
    BY Scripts
  <1>2. Typed /\ MainKnows
    BY DEF Typed, MainKnows, Points
  <1>3. ASSUME NEW t \in Threads PROVE Local(t)
    <2>1. pc[t] = "unborn" /\ turn[t] = 1 /\ score[t][1] = 0
      BY DEF Counters
    <2>2. 1 \in Steps(t) /\ S.threads[t].rounds \in Nat
      BY <1>1 DEF Fit, ThreadsFit, Steps
    <2>3. QED
      BY <2>1, <2>2 DEF Local, Placed, InTurn, Loaded, Holds, Lagging, Between, Within, Leaving, Rounds
  <1>4. ASSUME NEW t \in Threads, NEW k \in Steps(t), Len(U(t, k).body) = 2
        PROVE  counter[U(t, k).body[1]] = counter[U(t, k).body[2]]
    <2>1. U(t, k).body[1] \in Counters /\ U(t, k).body[2] \in Counters
      BY <1>1, <1>4 DEF Fit, TurnsFit
    <2>2. QED
      BY <2>1
  <1>5. \A c \in Counters : counter[c] = 0 /\ Even(c) = 0 /\ Odd(c) = 0 /\ 0 % 2 = 0
    BY <1>1 DEF Fit, ThreadsFit, Even, Odd
  <1>6. Sums
    BY <1>5 DEF Sums
  <1>7. Limits
    BY <1>5, PingPongAssumption DEF Limits, Counters
  <1>8. QED
    BY <1>2, <1>3, <1>4, <1>6, <1>7 DEF IInv, Level

(* main only creates and joins the threads.                                *)
LEMMA MainStep == ASSUME IInv, Main PROVE IInv'
  <1>1. UNCHANGED <<prog, turn, at, tmp, counter, holder, score>>
    BY DEF Main, MmapFails, Create, Start, Join, Return
  <1>2. Fit /\ Threads' = Threads
    BY <1>1, Scripts, SameScript DEF IInv, Typed
  <1>3. \A t \in Threads : t \in Nat /\ t >= 1 /\ t <= 3
    BY <1>2 DEF Fit, ThreadsFit
  <1>4. /\ pc' \in [Threads -> Points] /\ i' \in Nat \ {0}
        /\ \A t \in Threads :
             pc'[t] = pc[t] \/ (pc[t] = "unborn" /\ pc'[t] \in {"gate", "failed"})
        /\ MainKnows'
    <2>0. pc \in [Threads -> Points] /\ i \in Nat \ {0}
      BY DEF IInv, Typed
    <2>1. CASE Create
      <3> USE <2>1 DEF Create
      <3>1. PICK p \in {"gate", "failed"} : pc' = [pc EXCEPT ![i] = p]
        OBVIOUS
      <3>2. i \in Threads /\ pc[i] = "unborn" /\ p \in Points
        BY <2>0 DEF IInv, MainKnows, Points
      <3>3. pc' \in [Threads -> Points] /\ i' = i + 1 /\ main' = "create"
        BY <2>0, <3>1, <3>2
      <3>4. \A t \in Threads : pc'[t] = IF t = i THEN p ELSE pc[t]
        BY <2>0, <3>1, <3>2
      <3>5. \A t \in Threads : t >= i + 1 => pc'[t] = "unborn"
        BY <1>3, <2>0, <3>4 DEF IInv, MainKnows
      <3>6. QED
        <4>1. MainKnows'
          BY <1>2, <3>3, <3>5 DEF MainKnows
        <4>2. QED
          BY <2>0, <3>2, <3>3, <3>4, <4>1
    <2>2. CASE Start
      <3>1. main' = "join" /\ i' = 1 /\ pc' = pc
        BY <2>2 DEF Start
      <3>2. MainKnows'
        BY <1>2, <1>3, <3>1 DEF MainKnows
      <3>3. QED
        BY <2>0, <3>1, <3>2
    <2>3. CASE Join
      <3>1. /\ main = "join" /\ pc' = pc
            /\ \/ main' = "join" /\ Over(i) /\ i' = i + 1
               \/ main' = "crashed" /\ i' = i
        BY <2>3 DEF Join
      <3>2. \A t \in Threads : t < i => Over(t)
        BY <3>1 DEF IInv, MainKnows
      <3>3. main' = "join" => \A t \in Threads : t < i' => Over(t)
        BY <1>3, <2>0, <3>1, <3>2
      <3>4. MainKnows'
        BY <1>2, <3>1, <3>3 DEF MainKnows, Over
      <3>5. QED
        BY <2>0, <3>1, <3>4
    <2>4. CASE Return
      <3>1. \A t \in Threads : t < i
        BY <1>2, <2>0, <2>4 DEF Return, Fit, ThreadsFit
      <3>2. QED
        <4>1. main = "join" /\ main' = "done" /\ i' = i /\ pc' = pc
          BY <2>4 DEF Return
        <4>2. \A t \in Threads : Over(t)
          BY <3>1, <4>1 DEF IInv, MainKnows
        <4>3. MainKnows'
          BY <1>2, <4>1, <4>2 DEF MainKnows, Over
        <4>4. QED
          BY <2>0, <4>1, <4>3
    <2>5. CASE MmapFails
      <3>1. main' = "crashed" /\ i' = i /\ pc' = pc
        BY <2>5 DEF MmapFails
      <3>2. MainKnows'
        BY <3>1 DEF MainKnows
      <3>3. QED
        BY <2>0, <3>1, <3>2
    <2>6. QED
      BY <2>1, <2>2, <2>3, <2>4, <2>5 DEF Main
  <1>5. Typed'
    BY <1>1, <1>4, SameScript DEF IInv, Typed
  <1>6. ASSUME NEW t \in Threads PROVE Local(t)'
    <2>1. CASE pc'[t] = pc[t]
      BY <1>1, <2>1, Still DEF IInv
    <2>2. CASE pc'[t] \in {"gate", "failed"}
      <3>1. Placed(t)' /\ InTurn(t)' /\ Loaded(t)' /\ Holds(t)' /\ Lagging(t)' /\ Within(t)' /\ Leaving(t)'
        BY <1>1, <2>2, SameScript
           DEF IInv, Local, Placed, InTurn, Loaded, Holds, Lagging, Between, Within, Leaving
      <3>2. Rounds(t)'
        BY <1>1, <2>2, SameScript DEF IInv, Local, Rounds
      <3>3. QED
        BY <3>1, <3>2 DEF Local
    <2>3. QED
      BY <1>4, <2>1, <2>2
  <1>7. Level'
    <2>1. \A s \in Threads : Between(s) => Between(s)' /\ T(s)' = T(s)
      BY <1>1, <1>4, SameScript DEF Between, T
    <2>2. QED
      BY <1>1, <2>1, SameScript DEF IInv, Level
  <1>8. Sums' /\ Limits'
    BY <1>1, SameScript DEF IInv, Sums, Limits, Even, Odd
  <1>9. QED
    BY <1>2, <1>4, <1>5, <1>6, <1>7, <1>8 DEF IInv

(* What is known of a thread and of its turn.                              *)
LEMMA Known ==
  ASSUME IInv, NEW t \in Threads
  PROVE  /\ Fit /\ Typed /\ Local(t) /\ turn[t] \in Steps(t) /\ turn[t] \in Nat /\ at[t] \in Nat
         /\ T(t) = U(t, turn[t])
         /\ T(t).on \in Counters /\ T(t).parity = (IF t = 1 THEN 0 ELSE 1)
         /\ T(t).lock \in {0, 1, 2} /\ Len(T(t).body) \in {1, 2}
         /\ \A j \in 1 .. Len(T(t).body) : T(t).body[j] \in Counters
         /\ Len(T(t).body) = 2 => T(t).lock # 0
         /\ Len(Turns(t)) \in Nat /\ Len(Goal(t)) \in Nat /\ 1 \in Steps(t)
         /\ \A c \in Counters : counter[c] \in Nat
         /\ MAX \in Nat /\ MAX % 2 = 0
  <1>1. Fit /\ Typed /\ Local(t) /\ turn[t] \in Steps(t) /\ MAX \in Nat /\ MAX % 2 = 0
    BY Scripts, PingPongAssumption DEF IInv, Typed, Local, Placed
  <1>2. /\ turn[t] \in Nat /\ at[t] \in Nat /\ (\A c \in Counters : counter[c] \in Nat)
    BY <1>1 DEF Typed
  <1>3. Len(Turns(t)) \in Nat /\ Len(Goal(t)) \in Nat /\ 1 \in Steps(t)
    BY <1>1 DEF Fit, ThreadsFit, Steps
  <1>4. QED
    BY <1>1, <1>2, <1>3, ThisTurn

(* A thread that goes on moves alone.                                      *)
LEMMA Goes ==
  ASSUME IInv, NEW t \in Threads, NEW p \in Points, NEW k \in Nat, NEW j \in Nat, Goto(t, p, k, j)
  PROVE  /\ pc'[t] = p /\ turn'[t] = k /\ at'[t] = j
         /\ \A s \in Threads \ {t} : pc'[s] = pc[s] /\ turn'[s] = turn[s] /\ at'[s] = at[s]
         /\ pc' \in [Threads -> Points] /\ turn' \in [Threads -> Nat] /\ at' \in [Threads -> Nat]
  BY DEF Goto, IInv, Typed

(* A thread outside its turn.                                              *)
LEMMA Waits ==
  ASSUME NEW t, prog' = prog,
         pc'[t] \in {"failed", "until", "test", "done"}, turn'[t] \in Steps(t),
         pc'[t] = "until" /\ Goal(t) # << >> => at'[t] \in 1 .. Len(Goal(t)),
         pc'[t] = "done" => Served \/ t # 2,
         Counting /\ Served /\ pc'[t] = "test" /\ ~U(t, turn'[t]).bounded =>
           counter'[U(t, turn'[t]).on] <= Most(t),
         Leaving(t)', Rounds(t)'
  PROVE  Local(t)'
  <1>1. T(t)' = U(t, turn'[t]) /\ Most(t)' = Most(t)
    BY SameScript DEF T, U, Most
  <1>2. Within(t)'
    BY <1>1, SameScript DEF Within
  <1>3. Placed(t)'
    BY <1>1, SameScript DEF Placed
  <1>4. InTurn(t)' /\ Loaded(t)' /\ Holds(t)' /\ Lagging(t)'
    BY DEF InTurn, Loaded, Holds, Lagging, Between
  <1>5. QED
    BY <1>2, <1>3, <1>4 DEF Local

(* A thread that starts a pass of its loop, or its only one.               *)
LEMMA Restarts ==
  ASSUME IInv, NEW t \in Threads, prog' = prog, turn'[t] = 1, at'[t] = 1,
         pc'[t] = (IF S.threads[t].loops THEN "until" ELSE "test"),
         ~Counting /\ S.threads[1].loops => score'[t][1] <= S.threads[t].rounds
  PROVE  Local(t)'
  <1>1. Fit /\ 1 \in Steps(t) /\ Len(Goal(t)) \in Nat
    BY Known
  <1>2. Counting \/ S.threads[1].loops => S.threads[t].loops
    BY <1>1 DEF Fit, GoalsFit
  <1>3. Goal(t) # << >> => at'[t] \in 1 .. Len(Goal(t))
    BY <1>1 DEF Fit, ThreadsFit
  <1>4. Leaving(t)' /\ Rounds(t)'
    BY <1>2, SameScript DEF Leaving, Rounds
  <1>5. QED
    BY <1>1, <1>2, <1>3, <1>4, Waits

(* A thread that goes on after a turn, taken or not.                       *)
LEMMA Resumes ==
  ASSUME IInv, NEW t \in Threads, prog' = prog, NextTurn(t),
         ~Counting /\ S.threads[1].loops => score'[t][1] <= S.threads[t].rounds
  PROVE  /\ Local(t)' /\ pc'[t] \in {"until", "test", "done"}
         /\ \A s \in Threads \ {t} : pc'[s] = pc[s] /\ turn'[s] = turn[s] /\ at'[s] = at[s]
         /\ pc' \in [Threads -> Points] /\ turn' \in [Threads -> Nat] /\ at' \in [Threads -> Nat]
  <1>1. /\ Fit /\ turn[t] \in Steps(t) /\ turn[t] \in Nat /\ 1 \in Steps(t)
        /\ Len(Turns(t)) \in Nat /\ Len(Goal(t)) \in Nat
    BY Known
  <1>2. {"until", "test", "done"} \subseteq Points
    BY DEF Points
  <1>3. CASE turn[t] < Len(Turns(t))
    <2>1. Goto(t, "test", turn[t] + 1, 1)
      BY <1>3 DEF NextTurn, Turns
    <2>2. /\ pc'[t] = "test" /\ turn'[t] = turn[t] + 1 /\ at'[t] = 1
          /\ \A s \in Threads \ {t} : pc'[s] = pc[s] /\ turn'[s] = turn[s] /\ at'[s] = at[s]
          /\ pc' \in [Threads -> Points] /\ turn' \in [Threads -> Nat] /\ at' \in [Threads -> Nat]
      <3> DEFINE k == turn[t] + 1
      <3>1. k \in Nat /\ "test" \in Points /\ Goto(t, "test", k, 1)
        BY <1>1, <1>2, <2>1
      <3> HIDE DEF k
      <3>2. /\ pc'[t] = "test" /\ turn'[t] = k /\ at'[t] = 1
            /\ \A s \in Threads \ {t} : pc'[s] = pc[s] /\ turn'[s] = turn[s] /\ at'[s] = at[s]
            /\ pc' \in [Threads -> Points] /\ turn' \in [Threads -> Nat] /\ at' \in [Threads -> Nat]
        BY <3>1, Goes
      <3>3. QED
        BY <3>2 DEF k
    <2>3. turn'[t] \in Steps(t) /\ Len(Turns(t)) # 1
      <3> DEFINE n == Len(Turns(t))
      <3>1. turn[t] \in 1 .. n /\ n \in Nat /\ turn[t] < n /\ turn[t] \in Nat
        BY <1>1, <1>3 DEF Steps
      <3>2. Steps(t) = 1 .. n
        BY DEF Steps
      <3> HIDE DEF n
      <3>3. turn[t] + 1 \in 1 .. n /\ n # 1
        BY <3>1
      <3>4. QED
        BY <2>2, <3>2, <3>3 DEF n
    <2>4. Counting /\ Served => U(t, turn'[t]).bounded
      BY <1>1, <2>3 DEF Fit, GoalsFit
    <2>5. ~(~Counting /\ S.threads[1].loops)
      BY <1>1, <2>3 DEF Fit, GoalsFit
    <2>6. Leaving(t)' /\ Rounds(t)'
      BY <2>2, <2>5, SameScript DEF Leaving, Rounds
    <2>7. Local(t)'
      BY <2>2, <2>3, <2>4, <2>6, Waits
    <2>8. QED
      BY <2>2, <2>7
  <1>4. CASE ~(turn[t] < Len(Turns(t))) /\ S.threads[t].loops
    <2>1. Goto(t, "until", 1, 1)
      BY <1>4 DEF NextTurn, Turns
    <2>2. /\ pc'[t] = "until" /\ turn'[t] = 1 /\ at'[t] = 1
          /\ \A s \in Threads \ {t} : pc'[s] = pc[s] /\ turn'[s] = turn[s] /\ at'[s] = at[s]
          /\ pc' \in [Threads -> Points] /\ turn' \in [Threads -> Nat] /\ at' \in [Threads -> Nat]
      BY <1>2, <2>1, Goes
    <2>3. QED
      BY <1>4, <2>2, Restarts
  <1>5. CASE ~(turn[t] < Len(Turns(t))) /\ ~S.threads[t].loops
    <2>1. Goto(t, "done", 1, 1)
      BY <1>5 DEF NextTurn, Turns
    <2>2. /\ pc'[t] = "done" /\ turn'[t] = 1 /\ at'[t] = 1
          /\ \A s \in Threads \ {t} : pc'[s] = pc[s] /\ turn'[s] = turn[s] /\ at'[s] = at[s]
          /\ pc' \in [Threads -> Points] /\ turn' \in [Threads -> Nat] /\ at' \in [Threads -> Nat]
      BY <1>2, <2>1, Goes
    <2>3. ~Counting /\ ~S.threads[1].loops /\ (Served \/ t # 2)
      BY <1>1, <1>5 DEF Fit, GoalsFit, ServedFit
    <2>4. Leaving(t)' /\ Rounds(t)'
      BY <2>3, SameScript DEF Leaving, Rounds
    <2>5. Local(t)'
      BY <1>1, <2>2, <2>3, <2>4, Waits
    <2>6. QED
      BY <2>2, <2>5
  <1>6. QED
    BY <1>3, <1>4, <1>5

(* A thread that has seen its parity and, where it is tested again, the    *)
(* bound.                                                                  *)
LEMMA Takes ==
  ASSUME IInv, NEW t \in Threads, prog' = prog, counter' = counter, score' = score,
         pc[t] \in {"test", "bound"}, TakeTurn(t),
         IF Served THEN counter[T(t).on] % 2 = T(t).parity ELSE t # 2,
         Counting /\ Served => counter[T(t).on] <= (IF T(t).bounded THEN MAX - 1 ELSE Most(t))
  PROVE  /\ Local(t)'
         /\ \A s \in Threads \ {t} : pc'[s] = pc[s] /\ turn'[s] = turn[s] /\ at'[s] = at[s]
         /\ pc' \in [Threads -> Points] /\ turn' \in [Threads -> Nat] /\ at' \in [Threads -> Nat]
  <1> DEFINE p == IF T(t).lock = 0 THEN "load" ELSE "lock"
  <1>1. p \in Points
    BY DEF Points
  <1>2. /\ pc'[t] = p /\ turn'[t] = turn[t] /\ at'[t] = 1
        /\ \A s \in Threads \ {t} : pc'[s] = pc[s] /\ turn'[s] = turn[s] /\ at'[s] = at[s]
        /\ pc' \in [Threads -> Points] /\ turn' \in [Threads -> Nat] /\ at' \in [Threads -> Nat]
    BY <1>1, Known, Goes DEF TakeTurn
  <1>3. T(t)' = T(t) /\ Most(t)' = Most(t)
    BY <1>2, SameScript DEF T, Most
  <1>4. Served => T(t).body[1] = T(t).on
    BY Known DEF Fit, ServedFit
  <1>5. Served => Cur(t)' = T(t).on
    BY <1>2, <1>3, <1>4 DEF Cur
  <1>6. Placed(t)'
    <2>1. turn[t] \in Steps(t) /\ 1 \in 1 .. Len(T(t).body)
      <3> DEFINE n == Len(T(t).body)
      <3>1. turn[t] \in Steps(t) /\ n \in {1, 2}
        BY Known
      <3> HIDE DEF n
      <3>2. 1 \in 1 .. n
        BY <3>1
      <3>3. QED
        BY <3>1, <3>2 DEF n
    <2>2. pc'[t] = "lock" => T(t).lock # 0
      BY <1>2
    <2>3. pc'[t] \in {"load", "lock"} /\ at'[t] = 1 /\ turn'[t] = turn[t]
      BY <1>2
    <2>4. QED
      BY <1>3, <2>1, <2>2, <2>3, SameScript DEF Placed
  <1>7. InTurn(t)' /\ Within(t)'
    BY <1>2, <1>3, <1>5, SameScript DEF InTurn, Within
  <1>8. Loaded(t)' /\ Holds(t)' /\ Lagging(t)' /\ Leaving(t)'
    BY <1>2, <1>3 DEF Loaded, Holds, Lagging, Between, Leaving
  <1>9. Rounds(t)'
    BY <1>2, Known, SameScript DEF Local, Rounds
  <1>10. QED
    BY <1>2, <1>6, <1>7, <1>8, <1>9 DEF Local

(* A step of thread t that changes no more than where it is and, with it,  *)
(* what it has loaded or the lock it holds.                                *)
LEMMA QuietMove ==
  ASSUME IInv, NEW t \in Threads, prog' = prog, i' = i, main' = main,
         pc[t] \notin {"unborn", "done", "failed"}, ~Between(t),
         \A s \in Threads \ {t} : pc'[s] = pc[s] /\ turn'[s] = turn[s] /\ at'[s] = at[s],
         pc' \in [Threads -> Points], turn' \in [Threads -> Nat], at' \in [Threads -> Nat],
         UNCHANGED <<tmp, counter, score>>, holder' \in [Locks -> Nat],
         \A l \in Locks : holder[l] # 0 /\ holder[l] # t => holder'[l] = holder[l],
         Local(t)'
  PROVE  IInv'
  <1>1. Others(t)
    BY DEF Others
  <1>2. Typed'
    BY SameScript DEF IInv, Typed
  <1>3. QED
    BY <1>1, <1>2, QuietStep

(* A thread that begins keeps the invariant.                               *)
LEMMA BeginStep == ASSUME IInv, NEW t \in Threads, Begin(t) PROVE IInv'
  <1>1. pc[t] = "gate" /\ prog' = prog /\ i' = i /\ UNCHANGED <<tmp, counter, holder, score>>
    BY DEF Begin, At
  <1>2. ~Between(t) /\ holder' \in [Locks -> Nat]
    BY <1>1, Known DEF Between, Typed
  <1>3. CASE FromTheTop(t) /\ main' = main
    <2> DEFINE p == IF S.threads[t].loops THEN "until" ELSE "test"
    <2>1. Goto(t, p, 1, 1) /\ p \in Points
      BY <1>3 DEF FromTheTop, Points
    <2>2. /\ pc'[t] = p /\ turn'[t] = 1 /\ at'[t] = 1
          /\ \A s \in Threads \ {t} : pc'[s] = pc[s] /\ turn'[s] = turn[s] /\ at'[s] = at[s]
          /\ pc' \in [Threads -> Points] /\ turn' \in [Threads -> Nat] /\ at' \in [Threads -> Nat]
      BY <2>1, Goes
    <2>3. ~Counting /\ S.threads[1].loops => score'[t][1] <= S.threads[t].rounds
      BY <1>1, Known DEF Local, Rounds
    <2>4. Local(t)'
      BY <1>1, <2>2, <2>3, Restarts
    <2>5. QED
      BY <1>1, <1>2, <1>3, <2>2, <2>4, QuietMove
  <1>4. CASE main' = "exited" /\ UNCHANGED <<pc, turn, at>>
    <2>1. Local(t)'
      BY <1>1, <1>4, Known, Still
    <2>2. Others(t) /\ Typed'
      BY <1>1, <1>4, SameScript DEF Others, IInv, Typed
    <2>3. QED
      BY <1>1, <1>2, <1>4, <2>1, <2>2, QuietStep
  <1>5. CASE Goto(t, "failed", 1, 1) /\ main' = main
    <2>1. "failed" \in Points
      BY DEF Points
    <2>2. /\ pc'[t] = "failed" /\ turn'[t] = 1 /\ at'[t] = 1
          /\ \A s \in Threads \ {t} : pc'[s] = pc[s] /\ turn'[s] = turn[s] /\ at'[s] = at[s]
          /\ pc' \in [Threads -> Points] /\ turn' \in [Threads -> Nat] /\ at' \in [Threads -> Nat]
      BY <1>5, <2>1, Goes
    <2>3. Leaving(t)' /\ Rounds(t)'
      BY <1>1, <2>2, Known, SameScript DEF Local, Leaving, Rounds
    <2>4. Local(t)'
      BY <1>1, <2>2, <2>3, Known, Waits
    <2>5. QED
      BY <1>1, <1>2, <1>5, <2>2, <2>4, QuietMove
  <1>6. QED
    BY <1>3, <1>4, <1>5 DEF Begin

(* So does one that is told its turn has come, or not.                     *)
LEMMA UntilStep == ASSUME IInv, NEW t \in Threads, Until(t) PROVE IInv'
  <1>1. /\ pc[t] = "until" /\ UNCHANGED <<prog, i, main, tmp, counter, holder, score>>
    BY DEF Until, At, control
  <1>2. ~Between(t) /\ holder' \in [Locks -> Nat]
    BY <1>1, Known DEF Between, Typed
  <1>3. Goal(t) = << >> <=> ~Counting
    BY Known DEF Fit, GoalsFit
  <1>4. CASE ~Counting
    <2> DEFINE p == IF score[t][1] < S.threads[t].rounds THEN "test" ELSE "done"
    <2>1. Goto(t, p, 1, 1) /\ p \in Points
      BY <1>3, <1>4 DEF Until, Goal, Points
    <2>2. /\ pc'[t] = p /\ turn'[t] = 1 /\ at'[t] = 1
          /\ \A s \in Threads \ {t} : pc'[s] = pc[s] /\ turn'[s] = turn[s] /\ at'[s] = at[s]
          /\ pc' \in [Threads -> Points] /\ turn' \in [Threads -> Nat] /\ at' \in [Threads -> Nat]
      BY <2>1, Goes
    <2>3. Served
      BY <1>4, Known DEF Fit, ServedFit, GoalsFit
    <2>4. score[t][1] \in Nat /\ S.threads[t].rounds \in Nat
      BY Known DEF Typed, Counters, Fit, ThreadsFit
    <2>5. Rounds(t)'
      BY <1>1, <2>2, <2>4, Known, SameScript DEF Local, Rounds
    <2>6. Leaving(t)'
      BY <1>1, <1>4, SameScript DEF Leaving
    <2>7. Local(t)'
      BY <1>1, <1>4, <2>2, <2>3, <2>5, <2>6, Known, Waits
    <2>8. QED
      BY <1>1, <1>2, <2>2, <2>7, QuietMove
  <1>5. CASE Counting
    <2> DEFINE g == Goal(t)
               j == at[t]
    <2>1. /\ g # << >> /\ j \in 1 .. Len(g) /\ Len(g) \in Nat /\ g[j] \in Counters
          /\ counter[g[j]] \in Nat /\ MAX \in Nat
      BY <1>1, <1>3, <1>5, Known DEF Local, Placed, Fit, ThreadsFit
    <2>2. ~(~Counting /\ S.threads[1].loops)
      BY <1>5
    <2>3. \A k \in 1 .. j - 1 : counter[g[k]] >= MAX
      BY <1>1, <1>5, Known DEF Local, Leaving
    <2>4. CASE counter[g[j]] < MAX
      <3>1. Goto(t, "test", 1, 1) /\ "test" \in Points
        BY <2>1, <2>4 DEF Until, Goal, Points
      <3>2. /\ pc'[t] = "test" /\ turn'[t] = 1 /\ at'[t] = 1
            /\ \A s \in Threads \ {t} : pc'[s] = pc[s] /\ turn'[s] = turn[s] /\ at'[s] = at[s]
            /\ pc' \in [Threads -> Points] /\ turn' \in [Threads -> Nat] /\ at' \in [Threads -> Nat]
        BY <3>1, Goes
      <3>3. ASSUME Served, ~U(t, 1).bounded PROVE counter[U(t, 1).on] <= Most(t)
        <4>1. Len(g) = 1 /\ g[1] = U(t, 1).on
          BY <1>5, <3>3, Known DEF Fit, GoalsFit
        <4>2. j = 1
          BY <2>1, <4>1
        <4>3. counter[U(t, 1).on] < MAX /\ counter[U(t, 1).on] \in Nat
          BY <2>1, <2>4, <4>1, <4>2
        <4>4. QED
          BY <2>1, <4>3 DEF Most
      <3>4. Leaving(t)' /\ Rounds(t)'
        BY <1>1, <2>2, <3>2, SameScript DEF Leaving, Rounds
      <3>5. Local(t)'
        BY <1>1, <3>2, <3>3, <3>4, Known, Waits
      <3>6. QED
        BY <1>1, <1>2, <3>2, <3>5, QuietMove
    <2>5. CASE ~(counter[g[j]] < MAX) /\ j < Len(g)
      <3>1. Goto(t, "until", 1, j + 1) /\ "until" \in Points /\ j + 1 \in Nat
        BY <2>1, <2>5 DEF Until, Goal, Points
      <3>2. /\ pc'[t] = "until" /\ turn'[t] = 1 /\ at'[t] = j + 1
            /\ \A s \in Threads \ {t} : pc'[s] = pc[s] /\ turn'[s] = turn[s] /\ at'[s] = at[s]
            /\ pc' \in [Threads -> Points] /\ turn' \in [Threads -> Nat] /\ at' \in [Threads -> Nat]
        BY <3>1, Goes
      <3>3. j + 1 \in 1 .. Len(g) /\ \A k \in 1 .. (j + 1) - 1 : k = j \/ k \in 1 .. j - 1
        BY <2>1, <2>5
      <3>4. \A k \in 1 .. (j + 1) - 1 : counter[g[k]] >= MAX
        BY <2>1, <2>3, <2>5, <3>3
      <3>5. Leaving(t)' /\ Rounds(t)'
        BY <1>1, <2>2, <3>2, <3>4, SameScript DEF Leaving, Rounds
      <3>6. Local(t)'
        BY <1>1, <3>2, <3>3, <3>5, Known, Waits
      <3>7. QED
        BY <1>1, <1>2, <3>2, <3>6, QuietMove
    <2>6. CASE ~(counter[g[j]] < MAX) /\ ~(j < Len(g))
      <3>1. Goto(t, "done", 1, 1) /\ "done" \in Points
        BY <2>1, <2>6 DEF Until, Goal, Points
      <3>2. /\ pc'[t] = "done" /\ turn'[t] = 1 /\ at'[t] = 1
            /\ \A s \in Threads \ {t} : pc'[s] = pc[s] /\ turn'[s] = turn[s] /\ at'[s] = at[s]
            /\ pc' \in [Threads -> Points] /\ turn' \in [Threads -> Nat] /\ at' \in [Threads -> Nat]
        BY <3>1, Goes
      <3>3. \A k \in 1 .. Len(g) : k = j \/ k \in 1 .. j - 1
        BY <2>1, <2>6
      <3>4. \A k \in 1 .. Len(g) : counter[g[k]] >= MAX
        BY <2>1, <2>3, <2>6, <3>3
      <3>5. Leaving(t)' /\ Rounds(t)'
        BY <1>1, <2>2, <3>2, <3>4, SameScript DEF Leaving, Rounds
      <3>6. Served \/ t # 2
        <4>1. ASSUME ~Served, t = 2 PROVE FALSE
          <5>1. g = <<1>> /\ counter[1] = 0
            BY <4>1, Known DEF Fit, ServedFit, IInv, Limits
          <5>2. g[j] = 1
            BY <2>1, <5>1
          <5>3. QED
            BY <2>6, <5>1, <5>2, PingPongAssumption
        <4>2. QED
          BY <4>1
      <3>7. Local(t)'
        BY <1>1, <3>2, <3>5, <3>6, Known, Waits
      <3>8. QED
        BY <1>1, <1>2, <3>2, <3>7, QuietMove
    <2>7. QED
      BY <2>4, <2>5, <2>6
  <1>6. QED
    BY <1>4, <1>5

(* What a thread that can pass a test of its parity knows.                 *)
LEMMA Passed ==
  ASSUME IInv, NEW t \in Threads, pc[t] = "test", counter[T(t).on] % 2 = T(t).parity
  PROVE  Served \/ t # 2
  <1>1. ASSUME ~Served, t = 2 PROVE FALSE
    <2>1. T(t).on = 1 /\ T(t).parity = 1 /\ counter[1] = 0
      BY <1>1, Known DEF Fit, ServedFit, IInv, Limits
    <2>2. QED
      BY <2>1
  <1>2. QED
    BY <1>1

(* So does the test of the parity.                                         *)
LEMMA TestStep == ASSUME IInv, NEW t \in Threads, Test(t) PROVE IInv'
  <1>1. /\ pc[t] = "test" /\ UNCHANGED <<prog, i, main, tmp, counter, holder, score>>
    BY DEF Test, At, control
  <1>2. ~Between(t) /\ holder' \in [Locks -> Nat]
    BY <1>1, Known DEF Between, Typed
  <1>3. ~Counting /\ S.threads[1].loops => score'[t][1] <= S.threads[t].rounds
    BY <1>1, Known DEF Local, Rounds
  <1>4. CASE counter[T(t).on] % 2 = T(t).parity /\ T(t).bounded
    <2>1. Goto(t, "bound", turn[t], 1) /\ "bound" \in Points /\ turn[t] \in Nat
      BY <1>4, Known DEF Test, Points
    <2>2. /\ pc'[t] = "bound" /\ turn'[t] = turn[t] /\ at'[t] = 1
          /\ \A s \in Threads \ {t} : pc'[s] = pc[s] /\ turn'[s] = turn[s] /\ at'[s] = at[s]
          /\ pc' \in [Threads -> Points] /\ turn' \in [Threads -> Nat] /\ at' \in [Threads -> Nat]
      BY <2>1, Goes
    <2>3. Served \/ t # 2
      BY <1>1, <1>4, Passed
    <2>4. T(t)' = T(t) /\ Cur(t)' = T(t).on
      BY <1>1, <2>2, SameScript DEF T, Cur
    <2>5. Placed(t)' /\ InTurn(t)'
      BY <1>1, <1>4, <2>2, <2>3, <2>4, Known, SameScript DEF Placed, InTurn
    <2>6. Loaded(t)' /\ Holds(t)' /\ Lagging(t)' /\ Within(t)' /\ Leaving(t)'
      BY <2>2 DEF Loaded, Holds, Lagging, Between, Within, Leaving
    <2>7. Rounds(t)'
      BY <1>1, <2>2, Known, SameScript DEF Local, Rounds
    <2>8. Local(t)'
      BY <2>5, <2>6, <2>7 DEF Local
    <2>9. QED
      BY <1>1, <1>2, <2>2, <2>8, QuietMove
  <1>5. CASE counter[T(t).on] % 2 = T(t).parity /\ ~T(t).bounded
    <2>1. TakeTurn(t)
      BY <1>5 DEF Test
    <2>2. Counting /\ Served => counter[T(t).on] <= (IF T(t).bounded THEN MAX - 1 ELSE Most(t))
      BY <1>1, <1>5, Known DEF Local, Within
    <2>3. IF Served THEN counter[T(t).on] % 2 = T(t).parity ELSE t # 2
      BY <1>1, <1>5, Passed
    <2>4. /\ Local(t)'
          /\ \A s \in Threads \ {t} : pc'[s] = pc[s] /\ turn'[s] = turn[s] /\ at'[s] = at[s]
          /\ pc' \in [Threads -> Points] /\ turn' \in [Threads -> Nat] /\ at' \in [Threads -> Nat]
      BY <1>1, <2>1, <2>2, <2>3, Takes
    <2>5. QED
      BY <1>1, <1>2, <2>4, QuietMove
  <1>6. CASE counter[T(t).on] % 2 # T(t).parity
    <2>1. NextTurn(t)
      BY <1>6 DEF Test
    <2>2. QED
      BY <1>1, <1>2, <1>3, <2>1, Resumes, QuietMove
  <1>7. QED
    BY <1>4, <1>5, <1>6

(* So does the test of the bound.                                          *)
LEMMA BoundStep == ASSUME IInv, NEW t \in Threads, Bound(t) PROVE IInv'
  <1>1. /\ pc[t] = "bound" /\ UNCHANGED <<prog, i, main, tmp, counter, holder, score>>
    BY DEF Bound, At, control
  <1>2. ~Between(t) /\ holder' \in [Locks -> Nat]
    BY <1>1, Known DEF Between, Typed
  <1>3. ~Counting /\ S.threads[1].loops => score'[t][1] <= S.threads[t].rounds
    BY <1>1, Known DEF Local, Rounds
  <1>4. CASE counter[T(t).on] < MAX
    <2>1. TakeTurn(t)
      BY <1>4 DEF Bound
    <2>2. counter[T(t).on] <= (IF T(t).bounded THEN MAX - 1 ELSE Most(t))
      <3>1. counter[T(t).on] \in Nat /\ MAX \in Nat
        BY Known
      <3>2. QED
        BY <1>4, <3>1 DEF Most
    <2>3. IF Served THEN counter[T(t).on] % 2 = T(t).parity ELSE t # 2
      BY <1>1, Known DEF Local, InTurn, Placed, Cur
    <2>4. /\ Local(t)'
          /\ \A s \in Threads \ {t} : pc'[s] = pc[s] /\ turn'[s] = turn[s] /\ at'[s] = at[s]
          /\ pc' \in [Threads -> Points] /\ turn' \in [Threads -> Nat] /\ at' \in [Threads -> Nat]
      BY <1>1, <2>1, <2>2, <2>3, Takes
    <2>5. QED
      BY <1>1, <1>2, <2>4, QuietMove
  <1>5. CASE ~(counter[T(t).on] < MAX)
    <2>1. NextTurn(t)
      BY <1>5 DEF Bound
    <2>2. QED
      BY <1>1, <1>2, <1>3, <2>1, Resumes, QuietMove
  <1>6. QED
    BY <1>4, <1>5

(* The lock is free when it is taken.                                      *)
LEMMA LockStep == ASSUME IInv, NEW t \in Threads, Lock(t) PROVE IInv'
  <1>1. /\ pc[t] = "lock" /\ UNCHANGED <<prog, i, main, tmp, counter, score>>
        /\ holder[T(t).lock] = 0 /\ holder' = [holder EXCEPT ![T(t).lock] = t]
    BY DEF Lock, At, control
  <1>2. T(t).lock \in Locks /\ t \in Nat /\ holder \in [Locks -> Nat] /\ ~Between(t)
    <2>1. t \in Nat
      BY Known DEF Fit, ThreadsFit
    <2>2. T(t).lock \in {0, 1, 2} /\ T(t).lock # 0
      BY <1>1, Known DEF Local, Placed
    <2>3. QED
      BY <1>1, <2>1, <2>2, Known DEF Locks, Typed, Between
  <1>3. /\ holder' \in [Locks -> Nat] /\ holder'[T(t).lock] = t
        /\ \A l \in Locks : holder[l] # 0 => holder'[l] = holder[l]
    BY <1>1, <1>2
  <1>4. Goto(t, "load", turn[t], 1) /\ "load" \in Points /\ turn[t] \in Nat
    BY Known DEF Lock, Points
  <1>5. /\ pc'[t] = "load" /\ turn'[t] = turn[t] /\ at'[t] = 1
        /\ \A s \in Threads \ {t} : pc'[s] = pc[s] /\ turn'[s] = turn[s] /\ at'[s] = at[s]
        /\ pc' \in [Threads -> Points] /\ turn' \in [Threads -> Nat] /\ at' \in [Threads -> Nat]
    BY <1>4, Goes
  <1>6. T(t)' = T(t) /\ Most(t)' = Most(t) /\ Cur(t)' = T(t).body[1] /\ Cur(t) = T(t).on
    BY <1>1, <1>5, SameScript DEF T, Cur, Most
  <1>7. Served => Cur(t)' = Cur(t)
    BY <1>6, Known DEF Fit, ServedFit
  <1>8. Placed(t)'
    <2>1. turn[t] \in Steps(t) /\ 1 \in 1 .. Len(T(t).body)
      <3> DEFINE n == Len(T(t).body)
      <3>1. turn[t] \in Steps(t) /\ n \in {1, 2}
        BY Known
      <3> HIDE DEF n
      <3>2. 1 \in 1 .. n
        BY <3>1
      <3>3. QED
        BY <3>1, <3>2 DEF n
    <2>2. ~Served => t # 2
      BY <1>1, Known DEF Local, Placed
    <2>3. /\ T(t)' = T(t) /\ Steps(t)' = Steps(t) /\ Served' = Served
          /\ pc'[t] = "load" /\ at'[t] = 1 /\ turn'[t] = turn[t]
      BY <1>1, <1>5, <1>6, SameScript
    <2>4. QED
      BY <2>1, <2>2, <2>3 DEF Placed
  <1>9. InTurn(t)' /\ Within(t)'
    BY <1>1, <1>5, <1>6, <1>7, Known, SameScript DEF Local, InTurn, Within
  <1>10. Loaded(t)' /\ Holds(t)' /\ Lagging(t)' /\ Leaving(t)'
    BY <1>3, <1>5, <1>6 DEF Loaded, Holds, Lagging, Between, Leaving
  <1>11. Rounds(t)'
    BY <1>1, <1>5, Known, SameScript DEF Local, Rounds
  <1>12. Local(t)'
    BY <1>8, <1>9, <1>10, <1>11 DEF Local
  <1>13. QED
    BY <1>1, <1>2, <1>3, <1>5, <1>12, QuietMove

(* The value loaded is the counter's.                                      *)
LEMMA LoadStep == ASSUME IInv, NEW t \in Threads, Load(t) PROVE IInv'
  <1>1. /\ pc[t] = "load" /\ UNCHANGED <<prog, i, main, counter, holder, score>>
        /\ tmp' = [tmp EXCEPT ![t] = counter[T(t).body[at[t]]]]
    BY DEF Load, At, control
  <1>2. Goto(t, "store", turn[t], at[t]) /\ "store" \in Points /\ turn[t] \in Nat /\ at[t] \in Nat
    BY Known DEF Load, Points
  <1>3. /\ pc'[t] = "store" /\ turn'[t] = turn[t] /\ at'[t] = at[t]
        /\ \A s \in Threads \ {t} : pc'[s] = pc[s] /\ turn'[s] = turn[s] /\ at'[s] = at[s]
        /\ pc' \in [Threads -> Points] /\ turn' \in [Threads -> Nat] /\ at' \in [Threads -> Nat]
    BY <1>2, Goes
  <1>4. T(t)' = T(t) /\ Most(t)' = Most(t) /\ Cur(t)' = Cur(t) /\ Cur(t) = T(t).body[at[t]]
    BY <1>1, <1>3, SameScript DEF T, Cur, Most
  <1>5. Cur(t) \in Counters /\ counter[Cur(t)] \in Nat
    BY <1>1, <1>4, Known DEF Local, Placed
  <1>6. /\ tmp' \in [Threads -> Nat] /\ tmp'[t] = counter[Cur(t)]
        /\ \A s \in Threads \ {t} : tmp'[s] = tmp[s]
    BY <1>1, <1>4, <1>5, Known DEF Typed
  <1>7. Placed(t)' /\ InTurn(t)' /\ Holds(t)' /\ Lagging(t)' /\ Loaded(t)'
    BY <1>1, <1>3, <1>4, <1>6, Known, SameScript, SMTT(30) DEF Local, Placed, InTurn, Holds, Lagging, Between, Loaded
  <1>8. Within(t)' /\ Leaving(t)' /\ Rounds(t)'
    BY <1>1, <1>3, <1>4, Known, SameScript DEF Local, Within, Leaving, Rounds
  <1>9. Local(t)'
    BY <1>7, <1>8 DEF Local
  <1>10. Others(t) /\ Typed'
    BY <1>1, <1>3, <1>6, SameScript DEF Others, IInv, Typed
  <1>11. Between(t) => Between(t)' /\ T(t)' = T(t)
    BY <1>3, <1>4 DEF Between
  <1>12. QED
    BY <1>1, <1>9, <1>10, <1>11, QuietStep

(* A thread unlocks what it holds.                                         *)
LEMMA UnlockStep == ASSUME IInv, NEW t \in Threads, Unlock(t) PROVE IInv'
  <1>1. /\ pc[t] = "unlock" /\ UNCHANGED <<prog, i, main, tmp, counter, score>> /\ NextTurn(t)
        /\ holder' = [holder EXCEPT ![T(t).lock] = 0]
    BY DEF Unlock, At, control
  <1>2. T(t).lock \in Locks /\ holder \in [Locks -> Nat] /\ ~Between(t) /\ holder[T(t).lock] = t
    <2>1. T(t).lock \in {0, 1, 2} /\ T(t).lock # 0 /\ holder[T(t).lock] = t
      BY <1>1, Known DEF Local, Placed, Holds
    <2>2. QED
      BY <1>1, <2>1, Known DEF Locks, Typed, Between
  <1>3. /\ holder' \in [Locks -> Nat]
        /\ \A l \in Locks : holder[l] # 0 /\ holder[l] # t => holder'[l] = holder[l]
    BY <1>1, <1>2
  <1>4. ~Counting /\ S.threads[1].loops => score'[t][1] <= S.threads[t].rounds
    BY <1>1, Known DEF Local, Rounds
  <1>5. QED
    BY <1>1, <1>2, <1>3, <1>4, Resumes, QuietMove

-----------------------------------------------------------------------------
(* The increment *)

(* A thread about to increment counter c.                                  *)
Counts(t, c) == pc[t] \in {"load", "store"} /\ c = T(t).body[at[t]]

(* What is known of the counter a thread is about to increment.            *)
LEMMA Counted ==
  ASSUME IInv, NEW t \in Threads, NEW c, Counts(t, c)
  PROVE  /\ c = Cur(t) /\ c \in Counters /\ counter[c] \in Nat
         /\ at[t] \in 1 .. Len(T(t).body) /\ at[t] \in {1, 2}
         /\ T(t).lock # 0 => holder[T(t).lock] = t
         /\ Served => counter[c] % 2 = (IF t = 1 THEN 0 ELSE 1)
         /\ Served \/ t # 2
         /\ Counting /\ Served => counter[c] <= (IF T(t).bounded THEN MAX - 1 ELSE Most(t))
  <1>1. c = Cur(t) /\ at[t] \in 1 .. Len(T(t).body)
    BY Known DEF Counts, Cur, Local, Placed
  <1>2. c \in Counters /\ counter[c] \in Nat
    BY <1>1, Known DEF Counts
  <1>3. at[t] \in {1, 2}
    BY <1>1, Short, Known
  <1>4. Served => counter[c] % 2 = (IF t = 1 THEN 0 ELSE 1)
    BY <1>1, Known DEF Counts, Local, InTurn
  <1>5. T(t).lock # 0 => holder[T(t).lock] = t
    BY Known DEF Counts, Local, Holds
  <1>6. Served \/ t # 2
    BY Known DEF Counts, Local, Placed
  <1>7. Counting /\ Served => counter[c] <= (IF T(t).bounded THEN MAX - 1 ELSE Most(t))
    BY <1>1, Known DEF Counts, Local, Within
  <1>8. QED
    BY <1>1, <1>2, <1>3, <1>4, <1>5, <1>6, <1>7

(* Turns of two threads at one counter: the script allows it.              *)
LEMMA Meets ==
  ASSUME IInv, NEW s \in Threads, NEW t \in Threads,
         NEW k \in Steps(s), NEW a \in 1 .. Len(U(s, k).body),
         NEW b \in 1 .. Len(T(t).body), U(s, k).body[a] = T(t).body[b]
  PROVE  /\ a = b /\ U(s, k).body = T(t).body /\ U(s, k).lock = T(t).lock
         /\ s = t \/ s = 1 \/ t = 1
  <1> DEFINE l == turn[t]
  <1>1. ChannelsFit /\ l \in Steps(t) /\ T(t) = U(t, l)
    BY Known DEF Fit
  <1> HIDE DEF l
  <1>2. b \in 1 .. Len(U(t, l).body) /\ U(s, k).body[a] = U(t, l).body[b]
    BY <1>1
  <1>3. /\ a = b /\ U(s, k).body = U(t, l).body /\ U(s, k).lock = U(t, l).lock
        /\ s = t \/ s = 1 \/ t = 1
    BY <1>1, <1>2 DEF ChannelsFit
  <1>4. QED
    BY <1>1, <1>3

(* No two threads have the turn of one counter.                            *)
LEMMA Rival ==
  ASSUME IInv, NEW s \in Threads, NEW t \in Threads, s # t, NEW c, Counts(t, c),
         pc[s] \in {"bound", "lock", "load", "store"}
  PROVE  Cur(s) # c
  <1> SUFFICES ASSUME Cur(s) = c PROVE FALSE
    OBVIOUS
  <1>1. CASE Served
    <2>1. PICK a \in 1 .. Len(T(s).body) : Cur(s) = T(s).body[a]
      <3>1. CASE pc[s] \in {"bound", "lock"}
        <4>1. Cur(s) = T(s).body[1]
          BY <1>1, <3>1, Known DEF Cur, Fit, ServedFit
        <4>2. 1 \in 1 .. Len(T(s).body)
          <5> DEFINE n == Len(T(s).body)
          <5>1. n \in {1, 2}
            BY Known
          <5> HIDE DEF n
          <5>2. 1 \in 1 .. n
            BY <5>1
          <5>3. QED
            BY <5>2 DEF n
        <4>3. QED
          BY <4>1, <4>2
      <3>2. CASE pc[s] \in {"load", "store"}
        BY <3>2, Known DEF Cur, Local, Placed
      <3>3. QED
        BY <3>1, <3>2
    <2>2. at[t] \in 1 .. Len(T(t).body) /\ T(t).body[at[t]] = c
      BY Counted DEF Counts
    <2>3. turn[s] \in Steps(s) /\ T(s) = U(s, turn[s])
      BY Known
    <2>4. s = 1 \/ t = 1
      BY <2>1, <2>2, <2>3, Meets
    <2>5. counter[c] % 2 = (IF s = 1 THEN 0 ELSE 1)
      BY <1>1, Known DEF Local, InTurn
    <2>6. counter[c] % 2 = (IF t = 1 THEN 0 ELSE 1)
      BY <1>1, Counted
    <2>7. QED
      BY <2>4, <2>5, <2>6
  <1>2. CASE ~Served
    <2>1. s = 2 \/ t = 2
      BY <1>2, Known DEF Fit, ServedFit
    <2>2. t # 2
      BY <1>2, Counted
    <2>3. s # 2
      BY <1>2, Known DEF Local, Placed
    <2>4. QED
      BY <2>1, <2>2, <2>3
  <1>3. QED
    BY <1>1, <1>2

(* Under its lock a thread is alone between its two increments.            *)
LEMMA Alone ==
  ASSUME IInv, NEW s \in Threads, NEW t \in Threads, s # t, NEW c, Counts(t, c), Between(s)
  PROVE  Len(T(s).body) = 2 /\ T(s).body[1] # c /\ T(s).body[2] # c
  <1>1. Len(T(s).body) = 2
    <2> DEFINE n == Len(T(s).body)
    <2>1. n \in {1, 2} /\ 2 \in 1 .. n
      BY Known DEF Between, Local, Placed
    <2> HIDE DEF n
    <2>2. n = 2
      BY <2>1
    <2>3. QED
      BY <2>2 DEF n
  <1>2. T(s).lock # 0 /\ holder[T(s).lock] = s
    BY <1>1, Known DEF Between, Local, Holds
  <1>3. turn[s] \in Steps(s) /\ T(s) = U(s, turn[s])
    BY Known
  <1>4. at[t] \in 1 .. Len(T(t).body) /\ T(t).body[at[t]] = c
    BY Counted DEF Counts
  <1>5. ASSUME NEW a \in {1, 2}, T(s).body[a] = c PROVE FALSE
    <2>1. a \in 1 .. Len(T(s).body)
      BY <1>1, Short
    <2>2. T(s).lock = T(t).lock
      BY <1>3, <1>4, <1>5, <2>1, Meets
    <2>3. holder[T(s).lock] = t
      BY <1>2, <2>2, Counted
    <2>4. QED
      BY <1>2, <2>3
  <1>6. QED
    BY <1>1, <1>5

(* The step: thread t counts c up by one and goes on.                      *)
CountsUp(t, c) ==
  /\ Counts(t, c)
  /\ UNCHANGED <<prog, i, main, tmp, holder>>
  /\ counter' = [counter EXCEPT ![c] = counter[c] + 1]
  /\ score' = [score EXCEPT ![t][c] = @ + 1]
  /\ AfterIncrement(t)

(* What an increment does to the counters and the scores.                  *)
LEMMA NewCounts ==
  ASSUME IInv, NEW t \in Threads, NEW c, CountsUp(t, c)
  PROVE  /\ counter' \in [Counters -> Nat] /\ score' \in [Threads -> [Counters -> Nat]]
         /\ counter'[c] = counter[c] + 1
         /\ \A d \in Counters : d # c => counter'[d] = counter[d]
         /\ \A d \in Counters : counter'[d] >= counter[d]
         /\ score'[t][c] = score[t][c] + 1
         /\ \A d \in Counters : d # c => score'[t][d] = score[t][d]
         /\ \A s \in Threads : s # t => score'[s] = score[s]
  <1>1. counter \in [Counters -> Nat] /\ score \in [Threads -> [Counters -> Nat]]
    BY Known DEF Typed
  <1>2. c \in Counters /\ counter[c] \in Nat
    BY Counted DEF CountsUp
  <1>3. counter' = [counter EXCEPT ![c] = counter[c] + 1]
    BY DEF CountsUp
  <1>4. /\ counter' \in [Counters -> Nat] /\ counter'[c] = counter[c] + 1
        /\ \A d \in Counters : d # c => counter'[d] = counter[d]
    BY <1>1, <1>2, <1>3
  <1>5. \A d \in Counters : counter'[d] >= counter[d]
    BY <1>1, <1>2, <1>4
  <1>6. score' = [score EXCEPT ![t] = [score[t] EXCEPT ![c] = score[t][c] + 1]]
    BY DEF CountsUp
  <1>7. [score[t] EXCEPT ![c] = score[t][c] + 1] \in [Counters -> Nat]
    BY <1>1, <1>2
  <1>8. /\ score' \in [Threads -> [Counters -> Nat]]
        /\ score'[t][c] = score[t][c] + 1
        /\ \A d \in Counters : d # c => score'[t][d] = score[t][d]
        /\ \A s \in Threads : s # t => score'[s] = score[s]
    BY <1>1, <1>2, <1>6, <1>7
  <1>9. QED
    BY <1>4, <1>5, <1>8

(* The other threads: what they know of the counters stays true.           *)
LEMMA Bystander ==
  ASSUME IInv, NEW t \in Threads, NEW c, CountsUp(t, c), NEW s \in Threads, s # t,
         pc'[s] = pc[s], turn'[s] = turn[s], at'[s] = at[s]
  PROVE  Local(s)'
  <1>1. /\ prog' = prog /\ tmp' = tmp /\ holder' = holder /\ Counts(t, c)
    BY DEF CountsUp
  <1>2. T(s)' = T(s) /\ Cur(s)' = Cur(s) /\ Most(s)' = Most(s)
    BY <1>1, SameScript DEF T, Cur, Most
  <1>3. c \in Counters /\ score'[s] = score[s] /\ \A d \in Counters : d # c => counter'[d] = counter[d]
    BY <1>1, Counted, NewCounts
  <1>4. Cur(s) \in Counters
    BY Known DEF Cur, Local, Placed
  <1>5. pc[s] \in {"bound", "lock", "load", "store"} => counter'[Cur(s)] = counter[Cur(s)]
    BY <1>1, <1>3, <1>4, Rival
  <1>6. Placed(s)'
    BY <1>1, <1>2, Known, SameScript DEF Local, Placed
  <1>7. InTurn(s)' /\ Loaded(s)' /\ Holds(s)'
    BY <1>1, <1>2, <1>5, Known, SameScript DEF Local, InTurn, Loaded, Holds
  <1>8. Lagging(s)'
    <2>1. ASSUME Between(s) PROVE counter'[T(s).body[1]] = counter'[T(s).body[2]] + 1
      <3>1. Len(T(s).body) = 2 /\ T(s).body[1] # c /\ T(s).body[2] # c
        BY <1>1, <2>1, Alone
      <3>2. T(s).body[1] \in Counters /\ T(s).body[2] \in Counters
        BY <3>1, Short, Known
      <3>3. counter[T(s).body[1]] = counter[T(s).body[2]] + 1
        BY <2>1, Known DEF Local, Lagging
      <3>4. QED
        BY <1>3, <3>1, <3>2, <3>3
    <2>2. Between(s)' = Between(s)
      BY DEF Between
    <2>3. QED
      BY <1>2, <2>1, <2>2 DEF Lagging
  <1>9. Within(s)'
    <2>1. ASSUME Counting, Served, pc[s] = "test", ~T(s).bounded
          PROVE  counter'[T(s).on] <= Most(s)
      <3>1. counter[T(s).on] <= Most(s) /\ T(s).on \in Counters
        BY <2>1, Known DEF Local, Within
      <3>2. CASE T(s).on # c
        BY <1>3, <3>1, <3>2
      <3>3. CASE T(s).on = c
        <4>1. T(s).body[1] = c /\ turn[s] \in Steps(s) /\ T(s) = U(s, turn[s])
          BY <2>1, <3>3, Known DEF Fit, ServedFit
        <4>2. 1 \in 1 .. Len(T(s).body)
          <5> DEFINE n == Len(T(s).body)
          <5>1. n \in {1, 2}
            BY Known
          <5> HIDE DEF n
          <5>2. 1 \in 1 .. n
            BY <5>1
          <5>3. QED
            BY <5>2 DEF n
        <4>3. at[t] \in 1 .. Len(T(t).body) /\ T(t).body[at[t]] = c
          BY <1>1, Counted DEF Counts
        <4>4. s = 1 \/ t = 1
          BY <4>1, <4>2, <4>3, Meets
        <4>5. /\ counter[c] \in Nat /\ counter[c] % 2 = (IF t = 1 THEN 0 ELSE 1)
              /\ counter[c] <= (IF T(t).bounded THEN MAX - 1 ELSE Most(t))
          BY <1>1, <2>1, Counted
        <4>6. counter'[c] = counter[c] + 1 /\ MAX \in Nat /\ MAX % 2 = 0
          BY NewCounts, Known
        <4> DEFINE v == counter[c]
        <4>7. v \in Nat /\ v <= Most(s) /\ counter'[T(s).on] = v + 1
          BY <3>1, <3>3, <4>5, <4>6
        <4>8. CASE s = 1
          <5>1. t # 1 /\ v <= MAX - 1
            BY <4>5, <4>6, <4>8 DEF Most
          <5>2. QED
            BY <4>6, <4>7, <4>8, <5>1 DEF Most
        <4>9. CASE s # 1
          <5>1. v % 2 = 0 /\ v <= MAX - 1
            BY <4>4, <4>5, <4>7, <4>9 DEF Most
          <5> HIDE DEF v
          <5>2. v + 1 <= MAX - 1
            BY <4>6, <4>7, <5>1
          <5>3. QED
            BY <4>7, <4>9, <5>2 DEF Most
        <4>10. QED
          BY <4>8, <4>9
      <3>4. QED
        BY <3>2, <3>3
    <2>2. QED
      BY <1>1, <1>2, <1>5, <2>1, Known, SameScript DEF Local, Within
  <1>10. Leaving(s)'
    <2>1. ASSUME Counting
          PROVE  Goal(s) # << >> /\ \A j \in 1 .. Len(Goal(s)) : Goal(s)[j] \in Counters
      BY <2>1, Known DEF Fit, ThreadsFit, GoalsFit
    <2>2. \A d \in Counters : counter[d] \in Nat /\ counter'[d] \in Nat /\ counter'[d] >= counter[d]
      BY NewCounts, Known
    <2>3. MAX \in Nat /\ Len(Goal(s)) \in Nat
      BY Known
    <2>4. \A d \in Counters : counter[d] >= MAX => counter'[d] >= MAX
      BY <2>2, <2>3
    <2>5. ASSUME Counting, pc[s] = "done"
          PROVE  \A j \in 1 .. Len(Goal(s)) : counter'[Goal(s)[j]] >= MAX
      BY <2>1, <2>4, <2>5, Known DEF Local, Leaving
    <2>6. ASSUME Counting, pc[s] = "until"
          PROVE  \A j \in 1 .. at[s] - 1 : counter'[Goal(s)[j]] >= MAX
      <3>1. at[s] \in 1 .. Len(Goal(s)) /\ \A j \in 1 .. at[s] - 1 : counter[Goal(s)[j]] >= MAX
        BY <2>1, <2>6, Known DEF Local, Placed, Leaving
      <3>2. \A j \in 1 .. at[s] - 1 : j \in 1 .. Len(Goal(s))
        BY <2>3, <3>1
      <3>3. QED
        BY <2>1, <2>4, <2>6, <3>1, <3>2
    <2>7. Goal(s)' = Goal(s) /\ Counting' = Counting /\ pc'[s] = pc[s] /\ at'[s] = at[s]
      BY <1>1, SameScript
    <2>8. QED
      BY <2>5, <2>6, <2>7 DEF Leaving
  <1>11. Rounds(s)'
    BY <1>1, <1>3, Known, SameScript DEF Local, Rounds
  <1>12. QED
    BY <1>6, <1>7, <1>8, <1>9, <1>10, <1>11 DEF Local

(* The thread itself: on to the second counter of its turn, to its unlock, *)
(* or to its next turn.                                                    *)
LEMMA Onward ==
  ASSUME IInv, NEW t \in Threads, NEW c, CountsUp(t, c)
  PROVE  /\ Local(t)'
         /\ \A s \in Threads \ {t} : pc'[s] = pc[s] /\ turn'[s] = turn[s] /\ at'[s] = at[s]
         /\ pc' \in [Threads -> Points] /\ turn' \in [Threads -> Nat] /\ at' \in [Threads -> Nat]
         /\ at[t] = 1 /\ Len(T(t).body) = 2 => Between(t)' /\ T(t)' = T(t)
  <1>1. /\ prog' = prog /\ tmp' = tmp /\ holder' = holder /\ Counts(t, c) /\ AfterIncrement(t)
    BY DEF CountsUp
  <1>2. /\ c = T(t).body[at[t]] /\ at[t] \in {1, 2} /\ at[t] \in 1 .. Len(T(t).body)
        /\ Len(T(t).body) \in {1, 2} /\ turn[t] \in Nat
        /\ pc[t] \in {"load", "store"}
    BY <1>1, Counted, Known DEF Counts
  <1>3. ASSUME ~Counting, S.threads[1].loops
        PROVE  score'[t][1] <= S.threads[t].rounds /\ Len(T(t).body) = 1 /\ T(t).lock = 0
    <2>1. turn[t] = 1 /\ Len(U(t, 1).body) = 1 /\ U(t, 1).lock = 0
      <3>1. Len(Turns(t)) = 1 /\ Len(U(t, 1).body) = 1 /\ U(t, 1).lock = 0
        BY <1>3, Known DEF Fit, GoalsFit
      <3>2. turn[t] = 1
        BY <3>1, Known, Short DEF Steps
      <3>3. QED
        BY <3>1, <3>2
    <2>2. score[t][1] < S.threads[t].rounds
      BY <1>2, <1>3, Known DEF Local, Rounds
    <2>3. score[t][1] \in Nat /\ S.threads[t].rounds \in Nat
      BY Known DEF Typed, Counters, Fit, ThreadsFit
    <2>4. score'[t][1] = score[t][1] \/ score'[t][1] = score[t][1] + 1
      BY NewCounts DEF Counters
    <2>5. T(t) = U(t, 1)
      BY <2>1, Known
    <2>6. score'[t][1] <= S.threads[t].rounds
      BY <2>2, <2>3, <2>4
    <2>7. QED
      BY <2>1, <2>5, <2>6
  <1>e. ~(at[t] < Len(T(t).body)) => ~(at[t] = 1 /\ Len(T(t).body) = 2)
    <2> DEFINE n == Len(T(t).body)
    <2> HIDE DEF n
    <2>1. ~(at[t] < n) => ~(at[t] = 1 /\ n = 2)
      OBVIOUS
    <2>2. QED
      BY <2>1 DEF n
  <1>4. CASE at[t] < Len(T(t).body)
    <2>1. at[t] = 1 /\ Len(T(t).body) = 2
      <3> DEFINE n == Len(T(t).body)
      <3>1. at[t] \in {1, 2} /\ n \in {1, 2} /\ at[t] < n
        BY <1>2, <1>4
      <3> HIDE DEF n
      <3>2. at[t] = 1 /\ n = 2
        BY <3>1
      <3>3. QED
        BY <3>2 DEF n
    <2>2. Goto(t, "load", turn[t], 2) /\ "load" \in Points
      BY <1>1, <1>4, <2>1 DEF AfterIncrement, Points
    <2>3. /\ pc'[t] = "load" /\ turn'[t] = turn[t] /\ at'[t] = 2
          /\ \A s \in Threads \ {t} : pc'[s] = pc[s] /\ turn'[s] = turn[s] /\ at'[s] = at[s]
          /\ pc' \in [Threads -> Points] /\ turn' \in [Threads -> Nat] /\ at' \in [Threads -> Nat]
      BY <1>2, <2>2, Goes
    <2> DEFINE d == T(t).body[2]
    <2>4. /\ c = T(t).body[1] /\ c \in Counters /\ d \in Counters
          /\ 1 \in 1 .. Len(T(t).body) /\ 2 \in 1 .. Len(T(t).body)
      BY <1>1, <1>2, <2>1, Counted, Known, Short
    <2>5. c # d
      <3>1. ASSUME c = d PROVE FALSE
        <4>1. T(t).body[1] = T(t).body[2] /\ turn[t] \in Steps(t) /\ T(t) = U(t, turn[t])
          BY <2>4, <3>1, Known
        <4>2. 1 = 2
          BY <2>4, <4>1, Meets
        <4>3. QED
          BY <4>2
      <3>2. QED
        BY <3>1
    <2>6. counter[d] = counter[c]
      <3>1. \/ counter[T(t).body[1]] = counter[T(t).body[2]]
            \/ \E s \in Threads : Between(s) /\ T(s).body = T(t).body
        BY <2>1, Known DEF IInv, Level
      <3>2. ASSUME NEW s \in Threads, Between(s), T(s).body = T(t).body PROVE FALSE
        <4>1. s # t
          BY <2>1, <3>2 DEF Between
        <4>2. T(s).body[1] # c
          BY <1>1, <3>2, <4>1, Alone
        <4>3. QED
          BY <2>4, <3>2, <4>2
      <3>3. QED
        BY <2>4, <3>1, <3>2
    <2>7. counter'[c] = counter[d] + 1 /\ counter'[d] = counter[d] /\ counter[d] \in Nat
      <3>1. counter'[c] = counter[c] + 1 /\ (\A e \in Counters : e # c => counter'[e] = counter[e])
        BY NewCounts
      <3>2. \A e \in Counters : counter[e] \in Nat
        BY Known
      <3>3. d # c => counter'[d] = counter[d]
        BY <2>4, <3>1
      <3>4. counter[d] \in Nat
        BY <2>4, <3>2
      <3>5. QED
        BY <2>5, <2>6, <3>1, <3>3, <3>4
    <2>8. T(t)' = T(t) /\ Most(t)' = Most(t) /\ Cur(t)' = d
      BY <1>1, <2>3, SameScript DEF T, Cur, Most
    <2>9. Placed(t)'
      <3>1. turn[t] \in Steps(t) /\ (Served \/ t # 2)
        BY <1>1, Counted, Known
      <3>2. T(t)' = T(t) /\ Steps(t)' = Steps(t) /\ Served' = Served
            /\ pc'[t] = "load" /\ at'[t] = 2 /\ turn'[t] = turn[t]
        BY <1>1, <2>3, <2>8, SameScript
      <3>3. QED
        BY <2>4, <3>1, <3>2 DEF Placed
    <2>10. InTurn(t)' /\ Within(t)'
      <3>1. /\ Served => counter[c] % 2 = T(t).parity
            /\ Counting /\ Served => counter[c] <= (IF T(t).bounded THEN MAX - 1 ELSE Most(t))
        BY <1>1, Counted, Known
      <3>2. Served' = Served /\ Counting' = Counting
        BY <1>1, SameScript
      <3>3. QED
        BY <2>3, <2>6, <2>7, <2>8, <3>1, <3>2 DEF InTurn, Within
    <2>11. Loaded(t)' /\ Holds(t)' /\ Leaving(t)'
      BY <1>1, <2>3, <2>8, Counted DEF Loaded, Holds, Leaving
    <2>12. Lagging(t)'
      BY <2>4, <2>7, <2>8 DEF Lagging
    <2>13. Rounds(t)'
      <3>1. ~(~Counting /\ S.threads[1].loops)
        BY <1>3, <2>1
      <3>2. QED
        BY <1>1, <3>1, SameScript DEF Rounds
    <2>14. Local(t)'
      BY <2>9, <2>10, <2>11, <2>12, <2>13 DEF Local
    <2>15. Between(t)'
      BY <2>3 DEF Between
    <2>16. QED
      BY <2>3, <2>8, <2>14, <2>15
  <1>5. CASE ~(at[t] < Len(T(t).body)) /\ T(t).lock # 0
    <2>1. Goto(t, "unlock", turn[t], at[t]) /\ "unlock" \in Points /\ at[t] \in Nat
      BY <1>1, <1>5, Known DEF AfterIncrement, Points
    <2>2. /\ pc'[t] = "unlock" /\ turn'[t] = turn[t] /\ at'[t] = at[t]
          /\ \A s \in Threads \ {t} : pc'[s] = pc[s] /\ turn'[s] = turn[s] /\ at'[s] = at[s]
          /\ pc' \in [Threads -> Points] /\ turn' \in [Threads -> Nat] /\ at' \in [Threads -> Nat]
      BY <1>2, <2>1, Goes
    <2>3. T(t)' = T(t)
      BY <1>1, <2>2, SameScript DEF T
    <2>4. Placed(t)'
      <3>1. turn[t] \in Steps(t) /\ (Served \/ t # 2)
        BY <1>1, Counted, Known
      <3>2. T(t)' = T(t) /\ Steps(t)' = Steps(t) /\ Served' = Served
            /\ pc'[t] = "unlock" /\ turn'[t] = turn[t]
        BY <1>1, <2>2, <2>3, SameScript
      <3>3. QED
        BY <1>5, <3>1, <3>2 DEF Placed
    <2>5. InTurn(t)' /\ Loaded(t)' /\ Lagging(t)' /\ Within(t)' /\ Leaving(t)'
      BY <2>2 DEF InTurn, Loaded, Lagging, Between, Within, Leaving
    <2>6. Holds(t)'
      BY <1>1, <2>2, <2>3, Counted DEF Holds
    <2>7. Rounds(t)'
      <3>1. ~(~Counting /\ S.threads[1].loops)
        BY <1>3, <1>5
      <3>2. QED
        BY <1>1, <3>1, SameScript DEF Rounds
    <2>8. Local(t)'
      BY <2>4, <2>5, <2>6, <2>7 DEF Local
    <2>9. QED
      BY <1>e, <1>5, <2>2, <2>8
  <1>6. CASE ~(at[t] < Len(T(t).body)) /\ T(t).lock = 0
    <2>1. NextTurn(t)
      BY <1>1, <1>6 DEF AfterIncrement
    <2>2. QED
      BY <1>1, <1>3, <1>6, <1>e, <2>1, Resumes
  <1>7. QED
    BY <1>4, <1>5, <1>6

(* An increment keeps the counters of a turn together but for its own thread. *)
LEMMA LevelStep ==
  ASSUME IInv, NEW t \in Threads, NEW c, CountsUp(t, c)
  PROVE  Level'
  <1>1. prog' = prog /\ Counts(t, c) /\ c = T(t).body[at[t]] /\ c \in Counters
    BY Counted DEF CountsUp, Counts
  <1>2. SUFFICES ASSUME NEW u \in Threads, NEW k \in Steps(u), Len(U(u, k).body) = 2
        PROVE  \/ counter'[U(u, k).body[1]] = counter'[U(u, k).body[2]]
               \/ \E s \in Threads : Between(s)' /\ T(s)'.body = U(u, k).body
    BY <1>1, SameScript DEF Level
  <1> DEFINE b1 == U(u, k).body[1]
             b2 == U(u, k).body[2]
  <1>3. 1 \in 1 .. Len(U(u, k).body) /\ 2 \in 1 .. Len(U(u, k).body)
    BY <1>2, Short
  <1>4. b1 \in Counters /\ b2 \in Counters
    BY <1>3, Known DEF Fit, TurnsFit
  <1>5. at[t] \in 1 .. Len(T(t).body) /\ T(t).body[at[t]] = c
    BY <1>1, Counted
  <1>6. /\ b1 = c => at[t] = 1 /\ U(u, k).body = T(t).body
        /\ b2 = c => at[t] = 2 /\ U(u, k).body = T(t).body
    BY <1>3, <1>5, Meets
  <1>7. CASE b1 = c
    <2>1. Between(t)' /\ T(t)' = T(t)
      BY <1>2, <1>6, <1>7, Onward
    <2>2. QED
      BY <1>6, <1>7, <2>1
  <1>8. CASE b2 = c
    <2>1. b1 # c /\ at[t] = 2 /\ T(t).body = U(u, k).body
      BY <1>6, <1>8
    <2>2. Between(t)
      BY <1>1, <2>1 DEF Between, Counts
    <2>3. counter[b1] = counter[b2] + 1
      BY <2>1, <2>2, Known DEF Local, Lagging
    <2>4. counter'[b1] = counter[b1] /\ counter'[b2] = counter[b2] + 1
      BY <1>4, <1>8, <2>1, NewCounts
    <2>5. QED
      BY <2>3, <2>4
  <1>9. CASE b1 # c /\ b2 # c
    <2>1. counter'[b1] = counter[b1] /\ counter'[b2] = counter[b2]
      BY <1>4, <1>9, NewCounts
    <2>2. CASE counter[b1] = counter[b2]
      BY <2>1, <2>2
    <2>3. CASE counter[b1] # counter[b2]
      <3>1. PICK s \in Threads : Between(s) /\ T(s).body = U(u, k).body
        BY <1>2, <2>3 DEF IInv, Level
      <3>2. s # t
        <4>1. ASSUME s = t PROVE FALSE
          <5>1. at[t] = 2 /\ T(t).body[2] = c
            BY <1>1, <3>1, <4>1 DEF Between
          <5>2. QED
            BY <1>9, <3>1, <4>1, <5>1
        <4>2. QED
          BY <4>1
      <3>3. pc'[s] = pc[s] /\ at'[s] = at[s] /\ turn'[s] = turn[s]
        BY <3>2, Onward
      <3>4. Between(s)' /\ T(s)' = T(s)
        BY <1>1, <3>1, <3>3, SameScript DEF Between, T
      <3>5. QED
        BY <3>1, <3>4
    <2>4. QED
      BY <2>2, <2>3
  <1>10. QED
    BY <1>7, <1>8, <1>9

(* An increment adds to the counter what it adds to the thread's score.    *)
LEMMA SumsStep ==
  ASSUME IInv, NEW t \in Threads, NEW c, CountsUp(t, c)
  PROVE  Sums'
  <1>1. prog' = prog /\ Counts(t, c) /\ c \in Counters /\ counter[c] \in Nat
    BY Counted DEF CountsUp
  <1>2. Threads' = Threads /\ Served' = Served
    BY <1>1, SameScript
  <1>3. t = 1 \/ t = 2 \/ t = 3
    BY Known DEF Fit, ThreadsFit
  <1>4. 1 \in Threads /\ 2 \in Threads
    BY Known DEF Fit, ThreadsFit
  <1>5. \A s \in Threads : \A d \in Counters : score[s][d] \in Nat
    BY Known DEF Typed
  <1>6. ASSUME NEW d \in Counters
        PROVE  /\ counter'[d] = Even(d)' + Odd(d)'
               /\ Served => Even(d)' - Odd(d)' = counter'[d] % 2
    <2>1. counter[d] = Even(d) + Odd(d) /\ (Served => Even(d) - Odd(d) = counter[d] % 2)
      BY DEF IInv, Sums
    <2>2. Even(d) \in Nat /\ Odd(d) \in Nat
      BY <1>4, <1>5 DEF Even, Odd
    <2>3. CASE d # c
      <3>1. counter'[d] = counter[d] /\ \A s \in Threads : score'[s][d] = score[s][d]
        BY <1>1, <2>3, NewCounts
      <3>2. Even(d)' = Even(d) /\ Odd(d)' = Odd(d)
        BY <1>2, <1>4, <3>1 DEF Even, Odd
      <3>3. QED
        BY <2>1, <3>1, <3>2
    <2>4. CASE d = c
      <3>1. /\ counter'[d] = counter[d] + 1 /\ score'[t][d] = score[t][d] + 1
            /\ \A s \in Threads : s # t => score'[s][d] = score[s][d]
        BY <1>1, <2>4, NewCounts
      <3>2. Served => counter[d] % 2 = (IF t = 1 THEN 0 ELSE 1)
        BY <1>1, <2>4, Counted
      <3>3. IF t = 1 THEN Even(d)' = Even(d) + 1 /\ Odd(d)' = Odd(d)
                     ELSE Even(d)' = Even(d) /\ Odd(d)' = Odd(d) + 1
        BY <1>2, <1>3, <1>4, <1>5, <3>1 DEF Even, Odd
      <3> DEFINE e == Even(d)
                 o == Odd(d)
                 e1 == Even(d)'
                 o1 == Odd(d)'
                 v == counter[d]
      <3>4. /\ e \in Nat /\ o \in Nat /\ v = e + o
            /\ Served => e - o = v % 2 /\ v % 2 = (IF t = 1 THEN 0 ELSE 1)
            /\ counter'[d] = v + 1
            /\ IF t = 1 THEN e1 = e + 1 /\ o1 = o ELSE e1 = e /\ o1 = o + 1
        BY <2>1, <2>2, <3>1, <3>2, <3>3
      <3> HIDE DEF e, o, e1, o1, v
      <3>5. v + 1 = e1 + o1
        BY <3>4
      <3>6. ASSUME Served PROVE e1 - o1 = (v + 1) % 2
        <4>1. v \in Nat /\ v % 2 = (IF t = 1 THEN 0 ELSE 1) /\ e - o = v % 2
          BY <3>4, <3>6
        <4>2. (v + 1) % 2 = (IF t = 1 THEN 1 ELSE 0)
          BY <4>1
        <4>3. e1 - o1 = (IF t = 1 THEN 1 ELSE 0)
          BY <3>4, <4>1
        <4>4. QED
          BY <4>2, <4>3
      <3>7. QED
        BY <3>4, <3>5, <3>6 DEF e1, o1
    <2>5. QED
      BY <2>3, <2>4
  <1>7. QED
    BY <1>2, <1>6 DEF Sums

(* An increment keeps within the bound of its program.                     *)
LEMMA LimitsStep ==
  ASSUME IInv, NEW t \in Threads, NEW c, CountsUp(t, c)
  PROVE  Limits'
  <1>1. prog' = prog /\ Counts(t, c) /\ c \in Counters /\ counter[c] \in Nat
    BY Counted DEF CountsUp
  <1>2. Counting' = Counting /\ Served' = Served /\ Bounded' = Bounded
    BY <1>1, SameScript
  <1>3. counter'[c] = counter[c] + 1 /\ \A d \in Counters : d # c => counter'[d] = counter[d]
    BY <1>1, NewCounts
  <1>4. MAX \in Nat
    BY Known
  <1>5. ASSUME Counting, Served, NEW d \in Counters
        PROVE  counter'[d] <= (IF Bounded THEN MAX ELSE MAX + 1)
    <2>1. CASE d # c
      BY <1>3, <1>5, <2>1 DEF IInv, Limits
    <2>2. CASE d = c
      <3>1. counter[c] <= (IF T(t).bounded THEN MAX - 1 ELSE Most(t))
        BY <1>1, <1>5, Counted
      <3>2. Bounded /\ t = 1 => T(t).bounded
        <4>1. turn[t] \in Steps(t) /\ T(t) = U(t, turn[t]) /\ DOMAIN Turns(t) = Steps(t)
          BY Known DEF Fit, ThreadsFit
        <4>2. T(t) \in Range(Turns(t))
          BY <4>1 DEF Range, U, Turns
        <4>3. QED
          BY <4>2 DEF Bounded, Turns
      <3>3. counter[c] <= (IF Bounded THEN MAX - 1 ELSE MAX)
        BY <1>1, <1>4, <3>1, <3>2 DEF Most
      <3>4. QED
        BY <1>1, <1>3, <1>4, <2>2, <3>3
    <2>3. QED
      BY <2>1, <2>2
  <1>6. ASSUME ~Served PROVE counter'[1] = 0
    <2>1. c # 1
      <3>1. /\ at[t] \in 1 .. Len(T(t).body) /\ c = T(t).body[at[t]]
            /\ turn[t] \in Steps(t) /\ T(t) = U(t, turn[t])
        BY <1>1, Counted, Known DEF Counts
      <3>2. \A j \in 1 .. Len(T(t).body) : T(t).body[j] # 1
        BY <1>6, <3>1, Known DEF Fit, ServedFit
      <3>3. QED
        BY <3>1, <3>2
    <2>2. QED
      BY <1>3, <1>6, <2>1 DEF IInv, Limits, Counters
  <1>7. QED
    BY <1>2, <1>5, <1>6 DEF Limits

(* An increment keeps the invariant.                                       *)
LEMMA IncrementStep ==
  ASSUME IInv, NEW t \in Threads, Store(t) \/ FetchAdd(t)
  PROVE  IInv'
  <1> DEFINE c == T(t).body[at[t]]
  <1>1. CountsUp(t, c)
    <2>1. CASE Store(t)
      <3>1. pc[t] = "store" /\ Increment(t, tmp[t] + 1) /\ Counts(t, c)
        BY <2>1 DEF Store, At, Counts
      <3>2. tmp[t] = counter[c]
        BY <3>1, Known, Counted DEF Local, Loaded
      <3>3. QED
        BY <3>1, <3>2 DEF CountsUp, Increment, control
    <2>2. CASE FetchAdd(t)
      BY <2>2 DEF FetchAdd, At, Counts, CountsUp, Increment, control
    <2>3. QED
      BY <2>1, <2>2
  <1> HIDE DEF c
  <1>2. /\ prog' = prog /\ i' = i /\ main' = main /\ tmp' = tmp /\ holder' = holder
        /\ pc[t] \in {"load", "store"}
    BY <1>1 DEF CountsUp, Counts
  <1>3. Threads' = Threads
    BY <1>2, SameScript
  <1>4. \A s \in Threads \ {t} : pc'[s] = pc[s] /\ turn'[s] = turn[s] /\ at'[s] = at[s]
    BY <1>1, Onward
  <1>5. \A s \in Threads : Local(s)'
    <2>1. ASSUME NEW s \in Threads, s # t PROVE Local(s)'
      BY <1>1, <1>4, <2>1, Bystander
    <2>2. QED
      BY <1>1, <2>1, Onward
  <1>6. Typed'
    <2>1. /\ pc' \in [Threads -> Points] /\ turn' \in [Threads -> Nat] /\ at' \in [Threads -> Nat]
          /\ counter' \in [Counters -> Nat] /\ score' \in [Threads -> [Counters -> Nat]]
      BY <1>1, Onward, NewCounts
    <2>2. QED
      BY <1>2, <1>3, <2>1, Known DEF Typed
  <1>7. MainKnows'
    <2>1. Others(t)
      BY <1>2, <1>4 DEF Others
    <2>2. QED
      BY <1>2, <2>1, MainStill
  <1>8. Level' /\ Sums' /\ Limits'
    BY <1>1, LevelStep, SumsStep, LimitsStep
  <1>9. QED
    BY <1>3, <1>5, <1>6, <1>7, <1>8 DEF IInv

(***************************************************************************)
(* The programs keep their invariant, whatever the order of the steps.     *)
(***************************************************************************)
THEOREM TurnsInvariance == Spec => []IInv
  <1>1. Init => IInv
    BY InitIInv
  <1>2. IInv /\ [Next]_vars => IInv'
    <2> SUFFICES ASSUME IInv, [Next]_vars PROVE IInv'
      OBVIOUS
    <2>1. CASE Main
      BY <2>1, MainStep
    <2>2. ASSUME NEW t \in Threads, Thread(t) PROVE IInv'
      <3>1. CASE Begin(t)
        BY <3>1, BeginStep
      <3>2. CASE Until(t)
        BY <3>2, UntilStep
      <3>3. CASE Test(t)
        BY <3>3, TestStep
      <3>4. CASE Bound(t)
        BY <3>4, BoundStep
      <3>5. CASE Lock(t)
        BY <3>5, LockStep
      <3>6. CASE Load(t)
        BY <3>6, LoadStep
      <3>7. CASE Store(t) \/ FetchAdd(t)
        BY <3>7, IncrementStep
      <3>8. CASE Unlock(t)
        BY <3>8, UnlockStep
      <3>9. QED
        BY <2>2, <3>1, <3>2, <3>3, <3>4, <3>5, <3>6, <3>7, <3>8 DEF Thread
    <2>3. CASE UNCHANGED vars
      <3>1. UNCHANGED <<prog, main, i, start, pc, turn, at, tmp, counter, holder, score>>
        BY <2>3 DEF vars, control
      <3>2. Threads' = Threads
        BY <3>1, SameScript
      <3>3. \A t \in Threads : Local(t)'
        BY <3>1, Still DEF IInv
      <3>4. Typed' /\ MainKnows'
        BY <3>1, <3>2 DEF IInv, Typed, MainKnows, Over
      <3>5. Level' /\ Sums' /\ Limits'
        BY <3>1, SameScript DEF IInv, Level, Sums, Limits, Even, Odd, Between, T
      <3>6. QED
        BY <3>2, <3>3, <3>4, <3>5 DEF IInv
    <2>4. QED
      BY <2>1, <2>2, <2>3 DEF Next
  <1>3. QED
    BY <1>1, <1>2, PTL DEF Spec

-----------------------------------------------------------------------------
(* What the runs check *)

(* The counters are the sums of the scores.                                *)
LEMMA NothingLostNow == IInv => NoLostIncrement
  BY DEF IInv, Sums, NoLostIncrement

(* No increment is lost: PingPong's NoLostIncrement, of every program.     *)
THEOREM NothingLost == Spec => []NoLostIncrement
  <1>1. IInv => NoLostIncrement
    BY NothingLostNow
  <1>2. QED
    BY <1>1, TurnsInvariance, PTL

(* The invariant keeps the threads to their turns.                         *)
LEMMA AlternatesNow == IInv => Alternates
  <1> SUFFICES ASSUME IInv, Served, NEW c \in Counters PROVE Even(c) - Odd(c) \in {0, 1}
    BY DEF Alternates
  <1>1. counter[c] \in Nat
    BY DEF IInv, Typed
  <1>2. Even(c) - Odd(c) = counter[c] % 2
    BY DEF IInv, Sums
  <1>3. counter[c] % 2 \in {0, 1}
    BY <1>1
  <1>4. QED
    BY <1>2, <1>3

(* "every alternate count is incremented by a thread" (PP2C.c:1).          *)
THEOREM InAlternation == Spec => []Alternates
  <1>1. IInv => Alternates
    BY AlternatesNow
  <1>2. QED
    BY <1>1, TurnsInvariance, PTL

(* Outside the turns the counters are together.                            *)
LEMMA InStepNow == IInv => InStep
  <1> SUFFICES ASSUME IInv PROVE InStep
    OBVIOUS
  <1>0. Fit
    BY Scripts DEF IInv, Typed
  <1> SUFFICES ASSUME NEW t \in Threads, NEW k \in Steps(t),
                      U(t, k).lock # 0, holder[U(t, k).lock] = 0, NEW j \in 1 .. Len(U(t, k).body)
               PROVE  counter[U(t, k).body[j]] = counter[U(t, k).body[1]]
    <2>2. \A t \in Threads : DOMAIN S.threads[t].turns = Steps(t)
      BY <1>0 DEF Fit, ThreadsFit, Turns
    <2>3. \A t \in Threads : \A k \in Steps(t) : DOMAIN U(t, k).body = 1 .. Len(U(t, k).body)
      BY <1>0 DEF Fit, TurnsFit
    <2>4. QED
      BY <2>2, <2>3 DEF InStep, U
  <1>1. Len(U(t, k).body) \in {1, 2}
    BY Known DEF Fit, TurnsFit
  <1>2. CASE Len(U(t, k).body) = 1
    BY <1>2, Short
  <1>3. CASE Len(U(t, k).body) = 2
    <2>1. j = 1 \/ j = 2
      BY <1>3, Short
    <2>2. ASSUME NEW s \in Threads, Between(s), T(s).body = U(t, k).body PROVE FALSE
      <3>1. turn[s] \in Steps(s) /\ T(s) = U(s, turn[s]) /\ 1 \in 1 .. Len(U(t, k).body)
        BY <1>3, Known, Short
      <3>2. T(s).lock = U(t, k).lock
        BY <2>2, <3>1, Meets
      <3>3. holder[T(s).lock] = s
        BY <2>2, <3>2, Known DEF Between, Local, Holds
      <3>4. s # 0
        BY <1>0 DEF Fit, ThreadsFit
      <3>5. QED
        BY <3>2, <3>3, <3>4
    <2>3. counter[U(t, k).body[1]] = counter[U(t, k).body[2]]
      BY <1>3, <2>2 DEF IInv, Level
    <2>4. QED
      BY <2>1, <2>3
  <1>4. QED
    BY <1>1, <1>2, <1>3

(* Counters incremented in one turn are equal whenever their lock is free. *)
THEOREM LevelWhenFree == Spec => []InStep
  <1>1. IInv => InStep
    BY InStepNow
  <1>2. QED
    BY <1>1, TurnsInvariance, PTL

(* At the end of a program nobody is between two increments and everyone   *)
(* has left the loop, or taken the turns it was to take.                   *)
LEMMA FinalNow == IInv => FinalCount
  <1> SUFFICES ASSUME IInv, main = "done", ~Failed, S.threads[1].loops, NEW c \in Played
               PROVE  counter[c] \in
                        IF Goal(1) = << >> THEN {S.threads[1].rounds + S.threads[2].rounds}
                        ELSE IF Bounded THEN {MAX} ELSE {MAX, MAX + 1}
    BY DEF FinalCount, Goal
  <1>1. Fit
    BY Scripts DEF IInv, Typed
  <1>2. \A t \in Threads : pc[t] = "done"
    BY DEF IInv, MainKnows, Over, Failed
  <1>3. 1 \in Threads /\ 2 \in Threads
    BY <1>1 DEF Fit, ThreadsFit
  <1>4. PICK k \in Steps(1) : \E j \in 1 .. Len(U(1, k).body) : c = U(1, k).body[j]
    <2>1. PICK k \in DOMAIN Turns(1) : \E j \in DOMAIN Turns(1)[k].body : c = Turns(1)[k].body[j]
      BY DEF Played, Range, Turns
    <2>2. k \in Steps(1) /\ Turns(1)[k] = U(1, k)
      BY <1>1, <1>3, <2>1 DEF Fit, ThreadsFit, U, Turns
    <2>3. DOMAIN U(1, k).body = 1 .. Len(U(1, k).body)
      BY <1>1, <1>3, <2>2 DEF Fit, TurnsFit
    <2>4. QED
      BY <2>1, <2>2, <2>3
  <1>5. PICK j \in 1 .. Len(U(1, k).body) : c = U(1, k).body[j]
    BY <1>4
  <1>6. Len(U(1, k).body) \in {1, 2} /\ c \in Counters
    BY <1>1, <1>3, <1>5 DEF Fit, TurnsFit
  <1>7. counter[c] \in Nat /\ MAX \in Nat
    BY <1>3, <1>6, Known
  <1>8. CASE Counting
    <2>1. Served
      <3>1. ~Served => pc[2] # "done"
        BY <1>3, Known DEF Local, Placed
      <3>2. QED
        BY <1>2, <1>3, <3>1
    <2>2. counter[c] <= (IF Bounded THEN MAX ELSE MAX + 1)
      BY <1>6, <1>8, <2>1 DEF IInv, Limits
    <2>3. counter[U(1, k).body[1]] >= MAX
      <3>1. PICK g \in 1 .. Len(Goal(1)) : Goal(1)[g] = U(1, k).body[1]
        BY <1>1, <1>8 DEF Fit, GoalsFit
      <3>2. \A g1 \in 1 .. Len(Goal(1)) : counter[Goal(1)[g1]] >= MAX
        BY <1>2, <1>3, <1>8, Known DEF Local, Leaving
      <3>3. QED
        BY <3>1, <3>2
    <2>4. counter[c] = counter[U(1, k).body[1]]
      <3>1. CASE Len(U(1, k).body) = 1
        BY <1>5, <3>1, Short
      <3>2. CASE Len(U(1, k).body) = 2
        <4>1. \A s \in Threads : ~Between(s)
          BY <1>2 DEF Between
        <4>2. counter[U(1, k).body[1]] = counter[U(1, k).body[2]]
          BY <1>3, <3>2, <4>1 DEF IInv, Level
        <4>3. j = 1 \/ j = 2
          BY <1>5, <3>2, Short
        <4>4. QED
          BY <1>5, <4>2, <4>3
      <3>3. QED
        BY <1>6, <3>1, <3>2
    <2>5. QED
      BY <1>7, <1>8, <2>2, <2>3, <2>4 DEF Counting
  <1>9. CASE ~Counting
    <2>1. /\ Threads = {1, 2} /\ Len(Turns(1)) = 1
          /\ Len(U(1, 1).body) = 1 /\ U(1, 1).body[1] = 1
      BY <1>1, <1>3, <1>9 DEF Fit, GoalsFit
    <2>2. k = 1
      <3>1. Steps(1) = {1}
        BY <2>1, Short DEF Steps
      <3>2. k \in Steps(1)
        BY <1>4
      <3>3. QED
        BY <3>1, <3>2
    <2>3. c = 1
      BY <1>5, <2>1, <2>2, Short
    <2>4. ASSUME NEW t \in Threads PROVE score[t][1] = S.threads[t].rounds
      <3>1. score[t][1] <= S.threads[t].rounds /\ score[t][1] >= S.threads[t].rounds
        BY <1>2, <1>9, Known DEF Local, Rounds
      <3>2. score[t][1] \in Nat /\ S.threads[t].rounds \in Nat
        BY Known DEF Typed, Counters, Fit, ThreadsFit
      <3>3. QED
        BY <3>1, <3>2
    <2>5. counter[1] = score[1][1] + (score[2][1] + (IF 3 \in Threads THEN score[3][1] ELSE 0))
      BY DEF IInv, Sums, Even, Odd, Counters
    <2>6. score[2][1] \in Nat /\ 3 \notin Threads
      BY <1>3, <2>1, Known DEF Typed, Counters
    <2>7. counter[1] = S.threads[1].rounds + S.threads[2].rounds
      BY <1>3, <2>4, <2>5, <2>6
    <2>8. QED
      BY <1>9, <2>3, <2>7 DEF Counting
  <1>10. QED
    BY <1>8, <1>9

(* The values printed at the end: MAX, or one more where the bound is not  *)
(* tested again after the parity; of programs that count turns, all turns. *)
THEOREM FinalCounts == Spec => []FinalCount
  <1>1. IInv => FinalCount
    BY FinalNow
  <1>2. QED
    BY <1>1, TurnsInvariance, PTL

=============================================================================
