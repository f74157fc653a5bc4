--------------------------- MODULE UnlockedProofs ---------------------------
(***************************************************************************)
(* Proofs about the programs in which one side writes and another reads    *)
(* without a lock: the processes on a shared memory segment, the threads   *)
(* on the indices of one ring, and the detector on the buffers the kernel  *)
(* writes. The three components share no name, so that one module can      *)
(* extend them all.                                                        *)
(***************************************************************************)
EXTENDS SharedMemPingPong, SpmcRing, PerfRing, FiniteSetTheorems, WellFoundedInduction, TLAPS

-----------------------------------------------------------------------------
(***************************************************************************)
(* SharedMemPingPong, for every bound, number of counters and number of    *)
(* starts: with the parity of ar[0] as their only lock the two processes   *)
(* are never in their turns at once, and between turns all counters are    *)
(* equal, as long as the segment is not torn.                              *)
(***************************************************************************)

Points == {"down", "attach", "clear", "translate", "while", "test", "load", "store"}

(* Types, and what the control points say of the cell a process is at.     *)
TypesOK ==
  /\ pc \in [Procs -> Points] /\ k \in [Procs -> 0 .. LAST + 1]
  /\ tmp \in [Procs -> Nat] /\ ar \in [Cells -> Nat]
  /\ \A p \in Procs : InTurn(p) => k[p] >= 1
  /\ pc["P1"] = "clear" => k["P1"] <= LAST
  /\ pc["P2"] # "clear"

(* A process in its turn still sees the parity that let it in.             *)
TurnHeld == \A p \in Procs : InTurn(p) => ar[0] % 2 = Parity(p)

(* What a process loaded is still there when it stores.                    *)
LoadStays == \A p \in Procs : pc[p] = "store" => tmp[p] = ar[Order(k[p])]

(* While P1 clears, it has cleared the cells up to where it is.            *)
Cleared == Clearing => \A c \in Cells : c < k["P1"] => ar[c] = 0

Ahead(c) == \E p \in Procs : InTurn(p) /\ c < k[p]

(* At other times a counter is equal to ar[0], or one ahead of it if the   *)
(* process in its turn has incremented it.                                 *)
Counted ==
  ~Clearing => \A c \in Cells \ {0} : /\ Ahead(c) => ar[c] = ar[0] + 1
                                      /\ ~Ahead(c) => ar[c] = ar[0]

(* The inductive invariant.                                                *)
SegmentInv == TypesOK /\ (~torn => TurnHeld /\ LoadStays /\ Cleared /\ Counted)

(* The two parities differ, so at most one process holds the turn.         *)
LEMMA OneHolds ==
  ASSUME TurnHeld PROVE ~(InTurn("P1") /\ InTurn("P2"))
  BY DEF TurnHeld, Parity, Procs

(* Initially the segment is zero and no process runs.                      *)
LEMMA SegmentInitInv == Init => SegmentInv
  <1> SUFFICES ASSUME Init PROVE SegmentInv
    OBVIOUS
  <1> USE SegmentAssumption DEF Init
  <1>1. TypesOK
    BY DEF TypesOK, Points, Procs, InTurn, Cells
  <1>2. TurnHeld /\ LoadStays /\ Cleared
    BY DEF TurnHeld, LoadStays, Cleared, Clearing, Procs, InTurn
  <1>3. Counted
    BY DEF Counted, Ahead, Procs, InTurn, Cells
  <1>4. QED
    BY <1>1, <1>2, <1>3 DEF SegmentInv

(* What Goto does.                                                         *)
LEMMA Moves ==
  ASSUME TypesOK, NEW p \in Procs, NEW to \in Points, NEW n \in 0 .. LAST + 1, Goto(p, to, n)
  PROVE  /\ pc' \in [Procs -> Points] /\ k' \in [Procs -> 0 .. LAST + 1]
         /\ pc'[p] = to /\ k'[p] = n
         /\ \A q \in Procs \ {p} : pc'[q] = pc[q] /\ k'[q] = k[q]
  BY DEF TypesOK, Goto

(* A step that leaves the segment alone and moves a process out of its     *)
(* turn, half done only if that tears the segment, or between points that  *)
(* are not in a turn.                                                      *)
LEMMA QuietStep ==
  ASSUME SegmentInv, UNCHANGED <<ar, tmp>>, NEW p \in Procs,
         NEW to \in Points \ {"load", "store"}, Goto(p, to, 0),
         to = "clear" => p = "P1",
         ~torn' => ~torn /\ ~HalfDone(p) /\ ~(p = "P1" /\ Clearing)
  PROVE  SegmentInv'
  <1>1. /\ pc' \in [Procs -> Points] /\ k' \in [Procs -> 0 .. LAST + 1]
        /\ pc'[p] = to /\ k'[p] = 0
        /\ \A q \in Procs \ {p} : pc'[q] = pc[q] /\ k'[q] = k[q]
    BY Moves, SegmentAssumption DEF SegmentInv
  <1>2. TypesOK'
    BY <1>1, SegmentAssumption DEF SegmentInv, TypesOK, InTurn, Procs, Cells
  <1> SUFFICES ASSUME ~torn' PROVE (TurnHeld /\ LoadStays /\ Cleared /\ Counted)'
    BY <1>2 DEF SegmentInv
  <1>3. TurnHeld' /\ LoadStays'
    BY <1>1 DEF SegmentInv, TurnHeld, LoadStays, InTurn
  <1>4. Clearing' <=> Clearing
    BY <1>1 DEF Clearing, Procs
  <1>5. Cleared'
    BY <1>1, <1>4 DEF SegmentInv, Cleared, Clearing, Procs
  <1>6. ASSUME NEW c \in Cells \ {0} PROVE Ahead(c)' <=> Ahead(c)
    BY <1>1, SegmentAssumption DEF SegmentInv, TypesOK, Ahead, HalfDone, InTurn, Cells, Procs
  <1>7. Counted'
    BY <1>4, <1>6 DEF SegmentInv, Counted
  <1>8. QED
    BY <1>3, <1>5, <1>7

(* Starting or killing a process keeps the invariant.                      *)
LEMMA UserStep == ASSUME SegmentInv, NEW p \in Procs, Start(p) \/ Kill(p) PROVE SegmentInv'
  <1>1. CASE Start(p)
    <2>1. ~HalfDone(p) /\ ~(p = "P1" /\ Clearing)
      BY <1>1 DEF Start, HalfDone, InTurn, Clearing
    <2>2. QED
      BY <1>1, <2>1, QuietStep DEF Start, Points
  <1>2. CASE Kill(p)
    <2>1. ~torn' => ~torn /\ ~HalfDone(p) /\ ~(p = "P1" /\ Clearing)
      BY <1>2 DEF Kill
    <2>2. QED
      BY <1>2, <2>1, QuietStep DEF Kill, Points
  <1>3. QED
    BY <1>1, <1>2

(* Attaching, translating, and testing the bound or in vain the parity.    *)
LEMMA WaitingStep ==
  ASSUME SegmentInv, NEW p \in Procs,
         Attach(p) \/ Translate(p) \/ While(p) \/ (Test(p) /\ pc'[p] # "load")
  PROVE  SegmentInv'
  <1>1. ~HalfDone(p) /\ ~(p = "P1" /\ Clearing)
    BY DEF Attach, Translate, While, Test, HalfDone, InTurn, Clearing
  <1>2. torn' = torn /\ UNCHANGED <<ar, tmp>>
    BY DEF Attach, Translate, While, Test
  <1>3. \E to \in Points \ {"load", "store"} : Goto(p, to, 0) /\ (to = "clear" => p = "P1")
    BY DEF Attach, Translate, While, Test, Goto, Points, SegmentInv, TypesOK
  <1>4. QED
    BY <1>1, <1>2, <1>3, QuietStep

(* The parity lets p in, so the other process is not in its turn, and P1   *)
(* is not clearing.                                                        *)
LEMMA TurnStep == ASSUME SegmentInv, NEW p \in Procs, Test(p), pc'[p] = "load" PROVE SegmentInv'
  <1>1. /\ ar[0] % 2 = Parity(p) /\ Goto(p, "load", 1) /\ pc[p] = "test"
        /\ UNCHANGED <<ar, tmp, torn>>
    BY DEF Test, Goto, SegmentInv, TypesOK
  <1>2. /\ pc' \in [Procs -> Points] /\ k' \in [Procs -> 0 .. LAST + 1]
        /\ pc'[p] = "load" /\ k'[p] = 1
        /\ \A q \in Procs \ {p} : pc'[q] = pc[q] /\ k'[q] = k[q]
    <2>1. "load" \in Points /\ 1 \in 0 .. LAST + 1
      BY SegmentAssumption DEF Points
    <2>2. QED
      BY <1>1, <2>1, Moves DEF SegmentInv
  <1>3. TypesOK'
    BY <1>1, <1>2 DEF SegmentInv, TypesOK, InTurn, Procs, Cells, Points
  <1> SUFFICES ASSUME ~torn PROVE (TurnHeld /\ LoadStays /\ Cleared /\ Counted)'
    BY <1>1, <1>3 DEF SegmentInv
  <1>4. TurnHeld' /\ LoadStays'
    BY <1>1, <1>2 DEF SegmentInv, TurnHeld, LoadStays, InTurn
  <1>5. Clearing' <=> Clearing
    BY <1>1, <1>2 DEF Clearing, Procs
  <1>6. Cleared'
    BY <1>1, <1>2, <1>5 DEF SegmentInv, Cleared, Clearing, Procs
  <1>7. \A c \in Cells \ {0} : Ahead(c)' <=> Ahead(c)
    <2> TAKE c \in Cells \ {0}
    <2>1. c >= 1 /\ k'[p] = 1
      BY <1>2, SegmentAssumption DEF Cells
    <2>2. ~InTurn(p) /\ ~(c < k'[p])
      BY <1>1, <2>1, SegmentAssumption DEF InTurn, Cells
    <2>3. \A q \in Procs \ {p} : (InTurn(q)' <=> InTurn(q)) /\ k'[q] = k[q]
      BY <1>2 DEF InTurn
    <2>4. QED
      BY <2>2, <2>3 DEF Ahead
  <1>8. Counted'
    BY <1>1, <1>5, <1>7 DEF SegmentInv, Counted
  <1>9. QED
    BY <1>4, <1>6, <1>8

(* A load keeps the invariant.                                             *)
LEMMA LoadStep == ASSUME SegmentInv, NEW p \in Procs, Load(p) PROVE SegmentInv'
  <1>1. pc[p] = "load" /\ Goto(p, "store", k[p]) /\ UNCHANGED <<ar, torn>>
    BY DEF Load
  <1>2. k[p] \in 1 .. LAST + 1 /\ Order(k[p]) \in Cells
    BY <1>1, SegmentAssumption DEF SegmentInv, TypesOK, InTurn, Order, Cells
  <1>3. /\ pc' \in [Procs -> Points] /\ k' = k /\ pc'[p] = "store"
        /\ \A q \in Procs \ {p} : pc'[q] = pc[q]
    BY <1>1 DEF SegmentInv, TypesOK, Goto, Points
  <1>4. tmp' \in [Procs -> Nat] /\ tmp'[p] = ar[Order(k[p])]
        /\ \A q \in Procs \ {p} : tmp'[q] = tmp[q]
    BY <1>2 DEF SegmentInv, TypesOK, Load
  <1>5. \A q \in Procs : InTurn(q)' <=> InTurn(q)
    BY <1>1, <1>3 DEF InTurn
  <1>6. Clearing' <=> Clearing
    BY <1>1, <1>3 DEF Clearing, Procs
  <1>7. TypesOK'
    BY <1>1, <1>3, <1>4, <1>5 DEF SegmentInv, TypesOK, Procs, Cells, Points
  <1> SUFFICES ASSUME ~torn PROVE (TurnHeld /\ LoadStays /\ Cleared /\ Counted)'
    BY <1>1, <1>7 DEF SegmentInv
  <1>8. TurnHeld' /\ LoadStays'
    BY <1>1, <1>3, <1>4, <1>5 DEF SegmentInv, TurnHeld, LoadStays
  <1>9. Cleared'
    BY <1>1, <1>3, <1>6 DEF SegmentInv, Cleared
  <1>10. \A c \in Cells \ {0} : Ahead(c)' <=> Ahead(c)
    BY <1>3, <1>5 DEF Ahead
  <1>11. Counted'
    BY <1>1, <1>6, <1>10 DEF SegmentInv, Counted
  <1>12. QED
    BY <1>8, <1>9, <1>11

(* Once ar[0] is cleared its parity is that of P1, who clears: nobody is   *)
(* in its turn.                                                            *)
LEMMA OneClears ==
  ASSUME TypesOK, TurnHeld, Cleared, Clearing, NEW p \in Procs PROVE ~InTurn(p)
  <1>1. CASE p = "P1"
    BY <1>1 DEF Clearing, InTurn
  <1>2. CASE p = "P2"
    <2>1. 0 \in Cells /\ 0 < k["P1"]
      BY SegmentAssumption DEF Cells, Clearing
    <2>2. ar[0] = 0
      BY <2>1 DEF Cleared
    <2>3. QED
      BY <1>2, <2>2 DEF TurnHeld, Parity
  <1>3. QED
    BY <1>1, <1>2 DEF Procs

(* p increments the next counter.  Its turn lasts until that is ar[0]; all *)
(* other counters are then one ahead.                                      *)
LEMMA StoreStep == ASSUME SegmentInv, NEW p \in Procs, Store(p) PROVE SegmentInv'
  <1>1. pc[p] = "store" /\ InTurn(p) /\ UNCHANGED <<tmp, torn>>
    BY DEF Store, InTurn
  <1>2. /\ k[p] \in 1 .. LAST + 1 /\ Order(k[p]) \in Cells /\ tmp[p] \in Nat
        /\ 0 \in Cells
    BY <1>1, SegmentAssumption DEF SegmentInv, TypesOK, Order, Cells
  <1>3. /\ ar' \in [Cells -> Nat] /\ ar'[Order(k[p])] = tmp[p] + 1
        /\ \A c \in Cells \ {Order(k[p])} : ar'[c] = ar[c]
    BY <1>2 DEF SegmentInv, TypesOK, Store
  <1>4. CASE k[p] <= LAST
    <2>1. Goto(p, "load", k[p] + 1) /\ Order(k[p]) = k[p]
      BY <1>4 DEF Store, Order
    <2>2. "load" \in Points /\ k[p] + 1 \in 0 .. LAST + 1
      BY <1>2, <1>4, SegmentAssumption DEF Points
    <2>3. /\ pc' \in [Procs -> Points] /\ k' \in [Procs -> 0 .. LAST + 1]
          /\ pc'[p] = "load" /\ k'[p] = k[p] + 1
          /\ \A q \in Procs \ {p} : pc'[q] = pc[q] /\ k'[q] = k[q]
      BY <2>1, <2>2, Moves DEF SegmentInv
    <2>4. TypesOK'
      BY <1>1, <1>2, <1>3, <2>3, SegmentAssumption DEF SegmentInv, TypesOK, InTurn, Procs
    <2> SUFFICES ASSUME ~torn PROVE (TurnHeld /\ LoadStays /\ Cleared /\ Counted)'
      BY <1>1, <2>4 DEF SegmentInv
    <2>5. ar[0] % 2 = Parity(p) /\ tmp[p] = ar[k[p]] /\ ~Clearing
      BY <1>1, <2>1, OneClears DEF SegmentInv, TurnHeld, LoadStays
    <2>6. \A q \in Procs \ {p} : ~InTurn(q) /\ ~InTurn(q)'
      BY <1>1, <2>3, OneHolds DEF SegmentInv, InTurn, Procs
    <2>7. ~Clearing'
      BY <2>3, <2>5 DEF Clearing, Procs
    <2>8. ar'[0] = ar[0] /\ ar'[k[p]] = ar[k[p]] + 1
      BY <1>2, <1>3, <2>1, <2>5
    <2>9. TurnHeld' /\ LoadStays' /\ Cleared'
      BY <2>3, <2>5, <2>6, <2>7, <2>8 DEF TurnHeld, LoadStays, Cleared, InTurn
    <2>10. \A c \in Cells \ {0} : /\ (Ahead(c) <=> c < k[p])
                                  /\ (Ahead(c)' <=> c < k[p] + 1)
      BY <1>1, <2>3, <2>6 DEF Ahead, InTurn
    <2>11. \A c \in Cells \ {0} : /\ c < k[p] => ar[c] = ar[0] + 1
                                  /\ ~(c < k[p]) => ar[c] = ar[0]
      BY <2>5, <2>10 DEF SegmentInv, Counted
    <2>12. \A c \in Cells \ {0} : /\ c < k[p] + 1 => ar'[c] = ar[0] + 1
                                  /\ ~(c < k[p] + 1) => ar'[c] = ar[0]
      <3> SUFFICES ASSUME NEW c \in Cells \ {0}
                   PROVE  /\ c < k[p] + 1 => ar'[c] = ar[0] + 1
                          /\ ~(c < k[p] + 1) => ar'[c] = ar[0]
        OBVIOUS
      <3>1. CASE c = k[p]
        <4>1. c < k[p] + 1 /\ ~(c < k[p])
          BY <1>2, <3>1
        <4>2. QED
          BY <2>8, <2>11, <3>1, <4>1
      <3>2. CASE c # k[p]
        <4>1. c < k[p] + 1 <=> c < k[p]
          BY <1>2, <3>2, SegmentAssumption DEF Cells
        <4>2. ar'[c] = ar[c]
          BY <1>3, <2>1, <3>2
        <4>3. QED
          BY <2>11, <4>1, <4>2
      <3>3. QED
        BY <3>1, <3>2
    <2>13. Counted'
      BY <2>8, <2>10, <2>12 DEF Counted
    <2>14. QED
      BY <2>9, <2>13
  <1>5. CASE ~(k[p] <= LAST)
    <2>1. Goto(p, "while", 0) /\ Order(k[p]) = 0 /\ k[p] = LAST + 1
      BY <1>2, <1>5, SegmentAssumption DEF Store, Order
    <2>2. "while" \in Points /\ 0 \in 0 .. LAST + 1
      BY SegmentAssumption DEF Points
    <2>3. /\ pc' \in [Procs -> Points] /\ k' \in [Procs -> 0 .. LAST + 1]
          /\ pc'[p] = "while" /\ k'[p] = 0
          /\ \A q \in Procs \ {p} : pc'[q] = pc[q] /\ k'[q] = k[q]
      BY <2>1, <2>2, Moves DEF SegmentInv
    <2>4. TypesOK'
      BY <1>1, <1>2, <1>3, <2>3, SegmentAssumption DEF SegmentInv, TypesOK, InTurn, Procs
    <2> SUFFICES ASSUME ~torn PROVE (TurnHeld /\ LoadStays /\ Cleared /\ Counted)'
      BY <1>1, <2>4 DEF SegmentInv
    <2>5. tmp[p] = ar[0] /\ ~Clearing
      BY <1>1, <2>1, OneClears DEF SegmentInv, TurnHeld, LoadStays
    <2>6. \A q \in Procs : ~InTurn(q)'
      BY <1>1, <2>3, OneHolds DEF SegmentInv, InTurn, Procs
    <2>7. ~Clearing'
      BY <2>3, <2>5 DEF Clearing, Procs
    <2>8. \A c \in Cells \ {0} : Ahead(c)
      BY <1>1, <2>1, SegmentAssumption DEF Ahead, Cells
    <2>9. \A c \in Cells \ {0} : ar'[c] = ar'[0]
      BY <1>3, <2>1, <2>5, <2>8 DEF SegmentInv, Counted
    <2>10. TurnHeld' /\ LoadStays' /\ Cleared' /\ Counted'
      BY <2>6, <2>7, <2>9 DEF TurnHeld, LoadStays, Cleared, Counted, Ahead, InTurn
    <2>11. QED
      BY <2>10
  <1>6. QED
    BY <1>4, <1>5

(* Clearing starts with ar[0].  Only a turn that P2 is in just then can    *)
(* still be on: the parity 0 lets nobody in but P1.                        *)
LEMMA ClearStep == ASSUME SegmentInv, Clear PROVE SegmentInv'
  <1> DEFINE n == k["P1"]
  <1>1. /\ "P1" \in Procs /\ pc["P1"] = "clear" /\ n \in 0 .. LAST /\ 0 \in Cells
        /\ UNCHANGED tmp /\ torn' = IF n = 0 THEN InTurn("P2") ELSE torn
    BY SegmentAssumption DEF Clear, SegmentInv, TypesOK, Procs, Cells
  <1>2. /\ ar' \in [Cells -> Nat] /\ ar'[n] = 0
        /\ \A c \in Cells \ {n} : ar'[c] = ar[c]
    BY <1>1 DEF Clear, SegmentInv, TypesOK, Cells
  <1>3. /\ pc' \in [Procs -> Points] /\ k' \in [Procs -> 0 .. LAST + 1]
        /\ IF n < LAST THEN pc'["P1"] = "clear" /\ k'["P1"] = n + 1
                       ELSE pc'["P1"] = "translate" /\ k'["P1"] = 0
        /\ pc'["P2"] = pc["P2"] /\ k'["P2"] = k["P2"]
    <2>1. n + 1 \in 0 .. LAST + 1 /\ 0 \in 0 .. LAST + 1
          /\ "clear" \in Points /\ "translate" \in Points
      BY <1>1, SegmentAssumption DEF Points
    <2>2. CASE n < LAST
      BY <1>1, <2>1, <2>2, Moves DEF Clear, SegmentInv, Procs
    <2>3. CASE ~(n < LAST)
      BY <1>1, <2>1, <2>3, Moves DEF Clear, SegmentInv, Procs
    <2>4. QED
      BY <2>2, <2>3
  <1>4. TypesOK'
    BY <1>1, <1>2, <1>3, SegmentAssumption DEF SegmentInv, TypesOK, InTurn, Procs
  <1> SUFFICES ASSUME ~torn' PROVE (TurnHeld /\ LoadStays /\ Cleared /\ Counted)'
    BY <1>4 DEF SegmentInv
  <1>5. ~InTurn("P2")
    <2>1. CASE n = 0
      BY <1>1, <2>1
    <2>2. CASE n # 0
      <3>1. ~torn /\ Clearing /\ ar[0] = 0
        BY <1>1, <2>2, SegmentAssumption DEF SegmentInv, Cleared, Clearing
      <3>2. QED
        BY <3>1, OneClears DEF SegmentInv, Procs
    <2>3. QED
      BY <2>1, <2>2
  <1>6. \A q \in Procs : ~InTurn(q)'
    BY <1>1, <1>3, <1>5 DEF InTurn, Procs
  <1>7. \A c \in Cells : c < n + 1 => ar'[c] = 0
    <2> SUFFICES ASSUME NEW c \in Cells, c < n + 1 PROVE ar'[c] = 0
      OBVIOUS
    <2>1. CASE c = n
      BY <1>2, <2>1
    <2>2. CASE c # n
      <3>1. c < n /\ n > 0 /\ n # 0
        BY <1>1, <2>2, SegmentAssumption DEF Cells
      <3>2. ar[c] = 0
        BY <1>1, <3>1 DEF SegmentInv, Cleared, Clearing
      <3>3. QED
        BY <1>2, <2>2, <3>2
    <2>3. QED
      BY <2>1, <2>2
  <1>8. Cleared'
    BY <1>3, <1>7 DEF Cleared, Clearing
  <1>9. ~Clearing' => \A c \in Cells : ar'[c] = 0
    <2>1. CASE n < LAST
      BY <1>1, <1>3, <2>1, SegmentAssumption DEF Clearing
    <2>2. CASE ~(n < LAST)
      <3>1. \A c \in Cells : c < n + 1
        BY <1>1, <2>2, SegmentAssumption DEF Cells
      <3>2. QED
        BY <1>7, <3>1
    <2>3. QED
      BY <2>1, <2>2
  <1>10. QED
    BY <1>1, <1>6, <1>8, <1>9 DEF TurnHeld, LoadStays, Counted, Ahead, InTurn

(* The inductive invariant holds throughout.                               *)
THEOREM SegmentInvariance == Spec => []SegmentInv
  <1>1. Init => SegmentInv
    BY SegmentInitInv
  <1>2. SegmentInv /\ [Next]_vars => SegmentInv'
    <2> SUFFICES ASSUME SegmentInv, [Next]_vars PROVE SegmentInv'
      OBVIOUS
    <2>1. CASE UNCHANGED vars
      BY <2>1 DEF vars, SegmentInv, TypesOK, InTurn, TurnHeld, LoadStays, Cleared, Clearing,
                  Counted, Ahead
    <2>2. CASE Next
      <3>1. PICK p \in Procs : Start(p) \/ Kill(p) \/ Process(p)
        BY <2>2 DEF Next
      <3>2. CASE Start(p) \/ Kill(p)
        BY <3>2, UserStep
      <3>3. CASE Attach(p) \/ Translate(p) \/ While(p)
        BY <3>3, WaitingStep
      <3>4. CASE Test(p)
        BY <3>4, WaitingStep, TurnStep
      <3>5. CASE Load(p)
        BY <3>5, LoadStep
      <3>6. CASE Store(p)
        BY <3>6, StoreStep
      <3>7. CASE Clear
        BY <3>7, ClearStep
      <3>8. QED
        BY <3>1, <3>2, <3>3, <3>4, <3>5, <3>6, <3>7 DEF Process
    <2>3. QED
      BY <2>1, <2>2
  <1>3. QED
    BY <1>1, <1>2, PTL DEF Spec

(* The parity of ar[0] lets one process at a time increment, also when     *)
(* processes are killed between their turns and started again.             *)
THEOREM TurnsExclusive == Spec => []OneTurn
  <1>1. SegmentInv => OneTurn
    BY OneHolds DEF SegmentInv, OneTurn
  <1>2. QED
    BY <1>1, SegmentInvariance, PTL

(* When no turn is half done and the segment is not half cleared all its   *)
(* counters are equal, whatever was started and was killed between turns   *)
(* before; while the segment is not torn.                                  *)
THEOREM CountersEqual == Spec => []InStep
  <1>1. SegmentInv => InStep
    <2> SUFFICES ASSUME SegmentInv, ~torn, ~Clearing, ~HalfDone("P1"), ~HalfDone("P2"),
                        NEW c \in Cells
                 PROVE  ar[c] = ar[0]
      BY DEF InStep
    <2>1. CASE c = 0
      BY <2>1
    <2>2. CASE c # 0
      <3>1. c >= 1
        BY <2>2, SegmentAssumption DEF Cells
      <3>2. \A p \in Procs : InTurn(p) => ~(c < k[p])
        BY <3>1, SegmentAssumption DEF HalfDone, SegmentInv, TypesOK, Procs, Cells
      <3>3. ~Ahead(c)
        BY <3>2 DEF Ahead
      <3>4. QED
        BY <2>2, <3>3 DEF SegmentInv, Counted
    <2>3. QED
      BY <2>1, <2>2
  <1>2. QED
    BY <1>1, SegmentInvariance, PTL

-----------------------------------------------------------------------------
(***************************************************************************)
(* SpmcRing, for every number of consumers, of slots and of rounds: the    *)
(* indices count the items that are in the ring, as long as no two         *)
(* consumers raced.                                                        *)
(***************************************************************************)

ThreadPoints ==
  {"unborn", "failed", "pin", "full", "bump", "wrap", "first", "second", "load", "store", "done"}

(* The place of an index that may not have been wrapped yet, and the       *)
(* number of places from one index to another.                             *)
Home(x)       == IF x = BUFF_MAX THEN 0 ELSE x
Between(x, y) == Home(x) - Home(y) + (IF Home(x) >= Home(y) THEN 0 ELSE BUFF_MAX)

(* The items consumer by consumer, one by one.                             *)
Units(f, S) == {u \in S \X Nat : u[2] \in 1 .. f[u[1]]}

SpmcTypes ==
  /\ i \in Threads /\ point \in [Threads -> ThreadPoints]
  /\ in \in Nat /\ out \in Nat /\ reg \in [Consumers -> Nat]
  /\ sent \in Nat /\ taken \in [Consumers -> Nat]
  /\ IsFiniteSet(Units(taken, Consumers))
  /\ main = "perf" => i = 0
  /\ main \in {"perf", "create"} => \A t \in Threads : t >= i => point[t] = "unborn"

(* A consumer that has moved out and not yet wrapped it.                   *)
Moving(c) == point[c] \in {"load", "store"}

(* The indices count the items; the producer that found a free place still *)
(* has it.                                                                 *)
Indices ==
  /\ in <= BUFF_MAX /\ (point[0] # "wrap" => in < BUFF_MAX)
  /\ out <= BUFF_MAX /\ ((\A c \in Consumers : ~Moving(c)) => out < BUFF_MAX)
  /\ Between(in, out) = sent - Taken
  /\ point[0] = "bump" => sent - Taken <= BUFF_MAX - 2

(* What a consumer has loaded is no more than what there is, as long as no *)
(* other consumer moved out since.                                         *)
Loaded ==
  /\ \A c, d \in Consumers : Moving(c) /\ Moving(d) => c = d
  /\ \A c \in Consumers :
       /\ point[c] = "second" => reg[c] <= BUFF_MAX /\ Between(reg[c], out) <= sent - Taken
       /\ point[c] = "bump" => sent - Taken >= 1
       /\ point[c] = "store" => reg[c] = out

(* The inductive invariant.                                                *)
SpmcInv == SpmcTypes /\ (~raced => Indices /\ Loaded)

-----------------------------------------------------------------------------
(* The remainders of the code, by cases.                                   *)
LEMMA Wraps ==
  ASSUME NEW x \in 0 .. BUFF_MAX
  PROVE  x % BUFF_MAX = Home(x) /\ Home(x) \in 0 .. BUFF_MAX - 1
  BY SpmcAssumption DEF Home

(* The distance of two indices is their difference modulo BUFF_MAX.        *)
LEMMA Distance ==
  ASSUME NEW x \in 0 .. BUFF_MAX, NEW y \in 0 .. BUFF_MAX
  PROVE  (x - y) % BUFF_MAX = Between(x, y) /\ Between(x, y) \in 0 .. BUFF_MAX - 1
  BY SpmcAssumption DEF Home, Between

(* Moving the first index on by one place adds one to the distance, unless *)
(* it meets the second; moving the second takes one away.                  *)
LEMMA Further ==
  ASSUME NEW x \in 0 .. BUFF_MAX - 1, NEW y \in 0 .. BUFF_MAX
  PROVE  /\ Between(x, y) <= BUFF_MAX - 2 => Between(x + 1, y) = Between(x, y) + 1
         /\ Between(y, x) >= 1 => Between(y, x + 1) = Between(y, x) - 1
  BY SpmcAssumption DEF Home, Between

(* After the test for a full ring there is room for one more.              *)
LEMMA Apart ==
  ASSUME NEW x \in 0 .. BUFF_MAX - 1, NEW y \in 0 .. BUFF_MAX
  PROVE  Home(x + 1) # Home(y) => Between(x, y) <= BUFF_MAX - 2
  BY SpmcAssumption DEF Home, Between

(* Indices at different places have something between them.                *)
LEMMA NotEmpty ==
  ASSUME NEW x \in 0 .. BUFF_MAX, NEW y \in 0 .. BUFF_MAX
  PROVE  Home(x) # Home(y) => Between(x, y) \in Int /\ Between(x, y) >= 1
  BY SpmcAssumption DEF Home, Between

(* Only the place of an index counts.                                      *)
LEMMA SamePlace ==
  ASSUME NEW x \in 0 .. BUFF_MAX
  PROVE  /\ x % BUFF_MAX \in 0 .. BUFF_MAX - 1
         /\ \A y : Between(x % BUFF_MAX, y) = Between(x, y)
         /\ \A y : Between(y, x % BUFF_MAX) = Between(y, x)
  BY Wraps, SpmcAssumption DEF Home, Between

(* Thread 0 produces, the others consume.                                  *)
LEMMA SpmcThreads ==
  /\ 0 \in Threads /\ 0 \notin Consumers /\ Consumers \subseteq Threads /\ IsFiniteSet(Consumers)
  /\ Threads \subseteq Nat
  <1>1. IsFiniteSet(Consumers)
    BY FS_Interval, SpmcAssumption DEF Consumers
  <1>2. QED
    BY <1>1, SpmcAssumption DEF Consumers, Threads

-----------------------------------------------------------------------------
(* The sum of the consumers' counts *)

SumOver(f, S) == MapThenSumSet(LAMBDA c : f[c], S)

(* One step of the recursion by which the sum is defined.                  *)
SumStep(f, S, h) ==
  [s \in SUBSET S |-> IF s = {} THEN 0 ELSE LET x == CHOOSE x \in s : TRUE IN f[x] + h[s \ {x}]]

(* A set of subsets of a finite set has a least one.                       *)
LEMMA LeastSubset ==
  ASSUME NEW S, IsFiniteSet(S), NEW T, T \subseteq SUBSET S, T # {}
  PROVE  \E x \in T : \A y \in T : ~(y \subseteq x /\ y # x)
  <1>1. IsWellFoundedOn(StrictSubsetOrdering(S), FiniteSubsetsOf(S))
    BY FS_StrictSubsetOrderingWellFounded
  <1>2. T \subseteq FiniteSubsetsOf(S)
    BY FS_Subset DEF FiniteSubsetsOf
  <1>3. PICK x \in T : \A y \in T : <<y, x>> \notin StrictSubsetOrdering(S)
    BY <1>1, <1>2, WFMin
  <1>4. QED
    BY <1>3 DEF StrictSubsetOrdering

(* One count is as many units.                                             *)
LEMMA UnitsOfOne ==
  ASSUME NEW f, NEW x, f[x] \in Nat
  PROVE  IsFiniteSet(Units(f, {x})) /\ Cardinality(Units(f, {x})) = f[x]
  <1> DEFINE g == [n \in 1 .. f[x] |-> <<x, n>>]
  <1>1. IsFiniteSet(1 .. f[x]) /\ Cardinality(1 .. f[x]) = f[x]
    <2>1. PICK n \in Nat : n = f[x]
      OBVIOUS
    <2>2. IsFiniteSet(1 .. n) /\ Cardinality(1 .. n) = n
      BY FS_Interval
    <2>3. QED
      BY <2>1, <2>2
  <1>2. g \in Bijection(1 .. f[x], Units(f, {x}))
    <2>1. \A n \in 1 .. f[x] : g[n] = <<x, n>> /\ <<x, n>> \in Units(f, {x})
      BY DEF Units
    <2>2. g \in [1 .. f[x] -> Units(f, {x})]
      BY <2>1
    <2>3. \A n, l \in 1 .. f[x] : g[n] = g[l] => n = l
      BY <2>1
    <2>4. \A u \in Units(f, {x}) : \E n \in 1 .. f[x] : g[n] = u
      BY <2>1 DEF Units
    <2> HIDE DEF g
    <2>5. QED
      BY <2>2, <2>3, <2>4 DEF Bijection, Injection, Surjection, IsInjective
  <1>3. QED
    BY <1>1, <1>2, FS_Bijection DEF ExistsBijection

(* The sum of the counts of a finite set is the number of its units.       *)
LEMMA SumCounts ==
  ASSUME NEW f, NEW S, IsFiniteSet(S), IsFiniteSet(Units(f, S)),
         \A b \in S : f[b] \in Nat
  PROVE  SumOver(f, S) = Cardinality(Units(f, S))
  <1> DEFINE h == CHOOSE h : h = SumStep(f, S, h)
             g == [s \in SUBSET S |-> Cardinality(Units(f, s))]
  <1>1. SumOver(f, S) = h[S]
    BY DEF SumOver, MapThenSumSet, MapThenFoldSet, SumStep
  <1>2. ASSUME NEW s \in SUBSET S, NEW x \in s
        PROVE  Cardinality(Units(f, s)) = f[x] + Cardinality(Units(f, s \ {x}))
    <2>1. /\ Units(f, s) = Units(f, {x}) \cup Units(f, s \ {x})
          /\ Units(f, {x}) \cap Units(f, s \ {x}) = {}
      BY DEF Units
    <2>2. IsFiniteSet(Units(f, s \ {x}))
      <3>1. Units(f, s \ {x}) \in SUBSET Units(f, S)
        BY DEF Units
      <3>2. QED
        BY <3>1, FS_Subset
    <2>3. IsFiniteSet(Units(f, {x})) /\ Cardinality(Units(f, {x})) = f[x] /\ f[x] \in Nat
      BY UnitsOfOne
    <2>4. Cardinality(Units(f, s \ {x})) \in Nat
      BY <2>2, FS_CardinalityType
    <2>5. Cardinality(Units(f, s)) =
            Cardinality(Units(f, {x})) + Cardinality(Units(f, s \ {x})) - Cardinality({})
      <3> PICK A, B : A = Units(f, {x}) /\ B = Units(f, s \ {x})
        OBVIOUS
      <3>1. Cardinality(A \cup B) = Cardinality(A) + Cardinality(B) - Cardinality(A \cap B)
        <4>1. IsFiniteSet(A) /\ IsFiniteSet(B)
          BY <2>2, <2>3
        <4>2. QED
          BY <4>1, FS_Union
      <3>2. QED
        BY <2>1, <3>1, Zenon
    <2>6. Cardinality({}) = 0
      BY FS_EmptySet
    <2>7. QED
      BY <2>3, <2>4, <2>5, <2>6
  <1>3. Cardinality(Units(f, {})) = 0
    <2>1. Units(f, {}) = {}
      BY DEF Units
    <2>2. QED
      BY <2>1, FS_EmptySet
  <1>4. g = SumStep(f, S, g)
    <2>1. ASSUME NEW s \in SUBSET S
          PROVE  g[s] = IF s = {} THEN 0 ELSE LET x == CHOOSE x \in s : TRUE IN f[x] + g[s \ {x}]
      <3>1. CASE s = {}
        BY <1>3, <3>1
      <3>2. CASE s # {}
        <4> PICK x \in s : x = CHOOSE y \in s : TRUE
          BY <3>2
        <4>1. g[s] = f[x] + g[s \ {x}]
          BY <1>2
        <4>2. QED
          BY <3>2, <4>1
      <3>3. QED
        BY <3>1, <3>2
    <2>2. QED
      BY <2>1 DEF SumStep
  <1>5. h = SumStep(f, S, h)
    BY <1>4, Zenon
  <1> HIDE DEF h
  <1>6. ASSUME NEW s \in SUBSET S PROVE h[s] = g[s]
    <2> DEFINE Bad == {t \in SUBSET S : h[t] # g[t]}
    <2>1. SUFFICES ASSUME Bad # {} PROVE FALSE
      OBVIOUS
    <2>2. \A t \in SUBSET S : t \in Bad <=> h[t] # g[t]
      OBVIOUS
    <2>3. Bad \subseteq SUBSET S
      OBVIOUS
    <2> HIDE DEF Bad
    <2>4. PICK t \in Bad : \A y \in Bad : ~(y \subseteq t /\ y # t)
      BY <2>1, <2>3, LeastSubset
    <2>5. t \in SUBSET S /\ h[t] # g[t]
      BY <2>2, <2>3
    <2>6. CASE t = {}
      BY <1>4, <1>5, <2>5, <2>6 DEF SumStep
    <2>7. CASE t # {}
      <3> PICK x \in t : x = CHOOSE y \in t : TRUE
        BY <2>7
      <3>1. t \ {x} \in SUBSET S /\ t \ {x} \subseteq t /\ t \ {x} # t
        BY <2>5
      <3>2. h[t \ {x}] = g[t \ {x}]
        BY <2>2, <2>4, <3>1
      <3> HIDE DEF g
      <3>3. h[t] = f[x] + h[t \ {x}]
        BY <1>5, <2>5, <2>7 DEF SumStep
      <3>4. g[t] = f[x] + g[t \ {x}]
        BY <1>4, <2>5, <2>7 DEF SumStep
      <3>5. QED
        BY <2>5, <3>2, <3>3, <3>4
    <2>8. QED
      BY <2>6, <2>7
  <1>7. QED
    BY <1>1, <1>6

(* Nothing is taken at first.                                              *)
LEMMA NoneTaken ==
  ASSUME taken = [c \in Consumers |-> 0]
  PROVE  IsFiniteSet(Units(taken, Consumers)) /\ Taken = 0
  <1>1. Units(taken, Consumers) = {}
    BY DEF Units
  <1>2. IsFiniteSet({}) /\ Cardinality({}) = 0
    BY FS_EmptySet
  <1>3. IsFiniteSet(Units(taken, Consumers)) /\ Cardinality(Units(taken, Consumers)) = 0
    BY <1>1, <1>2, Zenon
  <1>4. \A c \in Consumers : taken[c] \in Nat
    OBVIOUS
  <1>5. SumOver(taken, Consumers) = 0
    BY <1>3, <1>4, SumCounts, SpmcThreads
  <1>6. QED
    BY <1>3, <1>5 DEF Taken, SumOver

(* An item more in one consumer's count is one more taken.                 *)
LEMMA OneTaken ==
  ASSUME SpmcTypes, NEW c \in Consumers, taken' = [taken EXCEPT ![c] = @ + 1]
  PROVE  /\ taken' \in [Consumers -> Nat] /\ IsFiniteSet(Units(taken', Consumers))
         /\ Taken \in Int /\ Taken' = Taken + 1
  <1> PICK f : f = taken
    OBVIOUS
  <1> PICK g : g = taken'
    OBVIOUS
  <1>1. /\ f \in [Consumers -> Nat] /\ g \in [Consumers -> Nat]
        /\ g[c] = f[c] + 1 /\ \A d \in Consumers \ {c} : g[d] = f[d]
    BY DEF SpmcTypes
  <1> DEFINE u == <<c, f[c] + 1>>
  <1>2. Units(g, Consumers) = Units(f, Consumers) \cup {u} /\ u \notin Units(f, Consumers)
    BY <1>1 DEF Units
  <1>3. IsFiniteSet(Units(f, Consumers))
    BY DEF SpmcTypes
  <1>4. /\ IsFiniteSet(Units(f, Consumers) \cup {u})
        /\ Cardinality(Units(f, Consumers) \cup {u}) = Cardinality(Units(f, Consumers)) + 1
    <2> PICK A : A = Units(f, Consumers)
      OBVIOUS
    <2>1. IsFiniteSet(A \cup {u}) /\ Cardinality(A \cup {u}) = Cardinality(A) + 1
      BY <1>2, <1>3, FS_AddElement
    <2>2. QED
      BY <2>1
  <1>5. /\ IsFiniteSet(Units(g, Consumers))
        /\ Cardinality(Units(g, Consumers)) = Cardinality(Units(f, Consumers)) + 1
    BY <1>2, <1>4, Zenon
  <1>6. Cardinality(Units(f, Consumers)) \in Nat
    BY <1>3, FS_CardinalityType
  <1>7. /\ SumOver(f, Consumers) = Cardinality(Units(f, Consumers))
        /\ SumOver(g, Consumers) = Cardinality(Units(g, Consumers))
    BY <1>1, <1>3, <1>5, SumCounts, SpmcThreads
  <1>8. Taken = SumOver(taken, Consumers)
    BY DEF Taken, SumOver
  <1>9. Taken' = SumOver(taken', Consumers)
    BY DEF Taken, SumOver, MapThenSumSet, MapThenFoldSet
  <1>10. QED
    BY <1>1, <1>5, <1>6, <1>7, <1>8, <1>9

(* What has been taken is a number.                                        *)
LEMMA TakenType == ASSUME SpmcTypes PROVE Taken \in Nat
  <1>1. SumOver(taken, Consumers) = Cardinality(Units(taken, Consumers))
    BY SumCounts, SpmcThreads DEF SpmcTypes
  <1>2. QED
    BY <1>1, FS_CardinalityType DEF SpmcTypes, Taken, SumOver

-----------------------------------------------------------------------------
(* The steps *)

(* Initially the ring is empty and no thread was created.                  *)
LEMMA SpmcInitInv == SpmcInit => SpmcInv
  <1> SUFFICES ASSUME SpmcInit PROVE SpmcInv
    OBVIOUS
  <1>1. IsFiniteSet(Units(taken, Consumers)) /\ Taken = 0
    BY NoneTaken DEF SpmcInit
  <1>2. SpmcTypes
    BY <1>1, SpmcThreads DEF SpmcInit, SpmcTypes, ThreadPoints
  <1>3. Indices
    BY <1>1, SpmcThreads, SpmcAssumption DEF SpmcInit, Indices, Between, Home
  <1>4. Loaded
    BY SpmcThreads DEF SpmcInit, Loaded, Moving
  <1>5. QED
    BY <1>2, <1>3, <1>4 DEF SpmcInv

(* What a thread's move changes of the control points.                     *)
LEMMA MoveStep ==
  ASSUME SpmcTypes, NEW t \in Threads, NEW from, from # "unborn", NEW to \in ThreadPoints,
         Move(t, from, to)
  PROVE  /\ point[t] = from /\ point'[t] = to /\ \A q \in Threads \ {t} : point'[q] = point[q]
         /\ i' \in Threads /\ point' \in [Threads -> ThreadPoints]
         /\ main' = "perf" => i' = 0
         /\ main' \in {"perf", "create"} => \A q \in Threads : q >= i' => point'[q] = "unborn"
  BY DEF SpmcTypes, Move

Outside == {"unborn", "failed", "pin", "full", "first", "done"}

(* A step of a thread that is not within a round, or of main.              *)
LEMMA OutsideStep ==
  ASSUME SpmcInv, SpmcTypes', UNCHANGED <<in, out, reg, sent, taken, raced>>,
         \A q \in Threads : point'[q] = point[q] \/ (point[q] \in Outside /\ point'[q] \in Outside)
  PROVE  SpmcInv'
  <1>1. Taken' = Taken
    BY DEF Taken, MapThenSumSet, MapThenFoldSet
  <1>2. \A q \in Threads, s \in {"bump", "wrap", "second", "load", "store"} :
          point'[q] = s <=> point[q] = s
    BY DEF Outside
  <1>3. \A c \in Consumers : Moving(c)' <=> Moving(c)
    BY <1>2, SpmcThreads DEF Moving
  <1>4. ASSUME Indices PROVE Indices'
    BY <1>1, <1>2, <1>3, <1>4, SpmcThreads DEF Indices, Between, Home
  <1>5. ASSUME Loaded PROVE Loaded'
    BY <1>1, <1>2, <1>3, <1>5, SpmcThreads DEF Loaded, Between, Home
  <1>6. QED
    BY <1>4, <1>5 DEF SpmcInv

(* main moves none of the indices.                                         *)
LEMMA MainStep == ASSUME SpmcInv, Main PROVE SpmcInv'
  <1>1. UNCHANGED <<in, out, reg, sent, taken, raced>>
    BY DEF Main, InitializePerf, Create, MallocFails, Join, counts
  <1>2. IsFiniteSet(Units(taken', Consumers))
    BY <1>1 DEF SpmcInv, SpmcTypes
  <1>3. CASE InitializePerf \/ MallocFails \/ Join
    <2>1. point' = point /\ main' \notin {"perf"} /\ i' \in Threads /\ (main' = "create" => i' = i /\ main = "perf")
      BY <1>3, SpmcThreads DEF InitializePerf, MallocFails, Join, SpmcInv, SpmcTypes
    <2>2. SpmcTypes'
      BY <1>1, <1>2, <2>1 DEF SpmcInv, SpmcTypes
    <2>3. QED
      BY <1>1, <2>1, <2>2, OutsideStep
  <1>4. CASE Create
    <2>1. main = "create" /\ point[i] = "unborn" /\ i \in Threads
      BY <1>4 DEF Create, SpmcInv, SpmcTypes, Threads
    <2>2. PICK at \in {"pin", "failed"} : point' = [point EXCEPT ![i] = at]
      BY <1>4 DEF Create
    <2>3. /\ point' \in [Threads -> ThreadPoints] /\ point'[i] \in {"pin", "failed"}
          /\ \A q \in Threads \ {i} : point'[q] = point[q]
      BY <2>1, <2>2 DEF SpmcInv, SpmcTypes, ThreadPoints
    <2>4. i' \in Threads /\ main' \in {"create", "join"} /\ (main' = "create" => i' = i + 1)
      BY <1>4, <2>1, SpmcThreads DEF Create
    <2>5. SpmcTypes'
      BY <1>1, <1>2, <2>1, <2>3, <2>4, SpmcThreads DEF SpmcInv, SpmcTypes
    <2>6. QED
      BY <1>1, <2>1, <2>3, <2>5, OutsideStep DEF Outside
  <1>5. QED
    BY <1>3, <1>4 DEF Main

(* Pinning a thread, and returning from it.                                *)
LEMMA EndStep ==
  ASSUME SpmcInv, NEW t \in Threads,
         Pin(t) \/ (t = 0 /\ ProducerReturns) \/ (t \in Consumers /\ ConsumerReturns(t))
  PROVE  SpmcInv'
  <1>1. UNCHANGED <<in, out, reg, sent, taken, raced>>
    BY DEF Pin, ProducerReturns, ConsumerReturns, counts
  <1>2. IsFiniteSet(Units(taken', Consumers))
    BY <1>1 DEF SpmcInv, SpmcTypes
  <1>3. ASSUME NEW from \in Outside \ {"unborn"}, NEW to \in Outside, Move(t, from, to)
        PROVE  SpmcInv'
    <2>1. to \in ThreadPoints
      BY DEF Outside, ThreadPoints
    <2>2. SpmcTypes'
      BY <1>1, <1>2, <1>3, <2>1, MoveStep DEF SpmcInv, SpmcTypes
    <2>3. QED
      BY <1>1, <1>3, <2>1, <2>2, MoveStep, OutsideStep DEF SpmcInv
  <1>4. ASSUME main' = "exited", UNCHANGED <<i, point>> PROVE SpmcInv'
    <2>1. SpmcTypes'
      BY <1>1, <1>2, <1>4 DEF SpmcInv, SpmcTypes
    <2>2. QED
      BY <1>1, <1>4, <2>1, OutsideStep
  <1>5. CASE Pin(t)
    BY <1>3, <1>4, <1>5 DEF Pin, Outside
  <1>6. CASE t = 0 /\ ProducerReturns
    BY <1>3, <1>6 DEF ProducerReturns, Outside
  <1>7. CASE t \in Consumers /\ ConsumerReturns(t)
    BY <1>3, <1>7 DEF ConsumerReturns, Outside
  <1>8. QED
    BY <1>5, <1>6, <1>7

(* The producer finds a free place, moves in, and wraps it.                *)
LEMMA ProducerStep == ASSUME SpmcInv, SeeSpace \/ BumpIn \/ WrapIn PROVE SpmcInv'
  <1> PICK n : n = sent - Taken
    OBVIOUS
  <1>1. UNCHANGED <<out, reg, taken>> /\ Taken' = Taken /\ Taken \in Nat
    <2>1. UNCHANGED <<out, reg, taken>>
      BY DEF SeeSpace, BumpIn, WrapIn, counts
    <2>2. QED
      BY <2>1, TakenType DEF SpmcInv, Taken, MapThenSumSet, MapThenFoldSet
  <1>2. IsFiniteSet(Units(taken', Consumers))
    BY <1>1 DEF SpmcInv, SpmcTypes
  <1>3. SpmcTypes /\ 0 \in Threads /\ 0 \notin Consumers /\ Consumers \subseteq Threads
    BY SpmcThreads DEF SpmcInv
  <1>4. PICK from \in {"full", "bump", "wrap"}, to \in {"full", "bump", "wrap"} : Move(0, from, to)
    BY DEF SeeSpace, BumpIn, WrapIn
  <1>5. /\ point[0] = from /\ point'[0] = to
        /\ \A c \in Consumers : point'[c] = point[c]
        /\ i' \in Threads /\ point' \in [Threads -> ThreadPoints]
        /\ main' = "perf" => i' = 0
        /\ main' \in {"perf", "create"} => \A q \in Threads : q >= i' => point'[q] = "unborn"
    <2>1. to \in ThreadPoints /\ from # "unborn"
      BY DEF ThreadPoints
    <2>2. QED
      BY <1>3, <1>4, <2>1, MoveStep
  <1>6. \A c \in Consumers : Moving(c)' <=> Moving(c)
    BY <1>5 DEF Moving
  <1>7. CASE SeeSpace
    <2>1. /\ from = "full" /\ to = "bump" /\ in' = in /\ sent' = sent
          /\ (in + 1) % BUFF_MAX # out
          /\ ~raced' => ~raced /\ ~(out >= BUFF_MAX /\ (in + 1) % BUFF_MAX = out % BUFF_MAX)
      <3>1. Move(0, "full", "bump") /\ in' = in /\ sent' = sent /\ (in + 1) % BUFF_MAX # out
        BY <1>7 DEF SeeSpace, counts
      <3>2. raced' = (raced \/ (out >= BUFF_MAX /\ (in + 1) % BUFF_MAX = out % BUFF_MAX))
        BY <1>7 DEF SeeSpace
      <3>3. from = "full" /\ to = "bump"
        BY <1>3, <1>4, <3>1 DEF Move, SpmcTypes
      <3>4. ~raced' => ~raced /\ ~(out >= BUFF_MAX /\ (in + 1) % BUFF_MAX = out % BUFF_MAX)
        BY <3>2, Zenon
      <3>5. QED
        BY <3>1, <3>3, <3>4
    <2>2. SpmcTypes'
      BY <1>1, <1>2, <1>3, <1>5, <2>1 DEF SpmcTypes
    <2>3. ASSUME ~raced' PROVE Indices' /\ Loaded'
      <3>1. Indices /\ Loaded
        BY <2>1, <2>3 DEF SpmcInv
      <3>2. in \in 0 .. BUFF_MAX - 1 /\ out \in 0 .. BUFF_MAX /\ in + 1 \in 0 .. BUFF_MAX
        BY <1>3, <1>5, <2>1, <3>1, SpmcAssumption DEF Indices, SpmcTypes
      <3>3. (in + 1) % BUFF_MAX = Home(in + 1) /\ out % BUFF_MAX = Home(out)
        BY <3>2, Wraps
      <3>4. Home(in + 1) # Home(out)
        BY <2>1, <2>3, <3>2, <3>3, SpmcAssumption DEF Home
      <3>5. sent - Taken <= BUFF_MAX - 2
        BY <3>1, <3>2, <3>4, Apart DEF Indices
      <3>6. Between(in', out') = Between(in, out)
        BY <1>1, <2>1
      <3>7. Indices'
        BY <1>1, <1>5, <1>6, <2>1, <3>1, <3>2, <3>5, <3>6 DEF Indices
      <3>8. Loaded'
        BY <1>1, <1>5, <1>6, <2>1, <3>1 DEF Loaded, Between, Home
      <3>9. QED
        BY <3>7, <3>8
    <2>4. QED
      BY <2>2, <2>3 DEF SpmcInv
  <1>8. CASE BumpIn
    <2>1. from = "bump" /\ to = "wrap" /\ in' = in + 1 /\ sent' = sent + 1 /\ raced' = raced
      BY <1>4, <1>5, <1>8 DEF BumpIn, Move
    <2>2. SpmcTypes'
      BY <1>1, <1>2, <1>3, <1>5, <2>1 DEF SpmcTypes
    <2>3. ASSUME ~raced' PROVE Indices' /\ Loaded'
      <3>1. Indices /\ Loaded
        BY <2>1, <2>3 DEF SpmcInv
      <3>2. in \in 0 .. BUFF_MAX - 1 /\ out \in 0 .. BUFF_MAX
        BY <1>3, <1>5, <2>1, <3>1, SpmcAssumption DEF Indices, SpmcTypes
      <3>3. Between(in, out) = sent - Taken /\ sent - Taken <= BUFF_MAX - 2
        BY <1>5, <2>1, <3>1 DEF Indices
      <3>4. Between(in', out') = sent' - Taken'
        BY <1>1, <1>3, <2>1, <3>2, <3>3, Further DEF SpmcTypes
      <3>5. Indices'
        BY <1>1, <1>5, <1>6, <2>1, <3>1, <3>2, <3>4, SpmcAssumption DEF Indices
      <3>6. sent' - Taken' = sent - Taken + 1 /\ sent - Taken \in Int
        BY <1>1, <1>3, <2>1 DEF SpmcTypes
      <3>7. ASSUME NEW c \in Consumers, point[c] = "second" PROVE Between(reg[c], out) \in Int
        BY <1>3, <3>1, <3>2, <3>7, Distance DEF Loaded, SpmcTypes
      <3>8. \A c \in Consumers : Between(reg'[c], out') = Between(reg[c], out)
        BY <1>1
      <3>9. Loaded'
        <4> PICK m : m = sent - Taken
          OBVIOUS
        <4>1. m \in Int /\ sent' - Taken' = m + 1
          BY <3>6
        <4>2. \A c \in Consumers :
                /\ point'[c] = "second" => reg'[c] <= BUFF_MAX /\ Between(reg'[c], out') <= m + 1
                /\ point'[c] = "bump" => m + 1 >= 1
                /\ point'[c] = "store" => reg'[c] = out'
          BY <1>1, <1>5, <3>1, <3>7, <3>8, <4>1 DEF Loaded
        <4>3. QED
          BY <1>6, <3>1, <4>1, <4>2 DEF Loaded
      <3>10. QED
        BY <3>5, <3>9
    <2>4. QED
      BY <2>2, <2>3 DEF SpmcInv
  <1>9. CASE WrapIn
    <2>1. from = "wrap" /\ to = "full" /\ in' = in % BUFF_MAX /\ sent' = sent /\ raced' = raced
      BY <1>4, <1>5, <1>9 DEF WrapIn, Move, counts
    <2>2. SpmcTypes'
      <3>1. in' \in Nat
        BY <1>3, <2>1, SpmcAssumption DEF SpmcTypes
      <3>2. QED
        BY <1>1, <1>2, <1>3, <1>5, <2>1, <3>1 DEF SpmcTypes
    <2>3. ASSUME ~raced' PROVE Indices' /\ Loaded'
      <3>1. Indices /\ Loaded
        BY <2>1, <2>3 DEF SpmcInv
      <3>2. in \in 0 .. BUFF_MAX
        BY <1>3, <3>1, SpmcAssumption DEF Indices, SpmcTypes
      <3>3. in' \in 0 .. BUFF_MAX - 1 /\ Between(in', out') = Between(in, out)
        BY <1>1, <2>1, <3>2, SamePlace
      <3>4. Indices'
        BY <1>1, <1>5, <1>6, <2>1, <3>1, <3>3, SpmcAssumption DEF Indices
      <3>5. Loaded'
        BY <1>1, <1>5, <1>6, <2>1, <3>1 DEF Loaded, Between, Home
      <3>6. QED
        BY <3>4, <3>5
    <2>4. QED
      BY <2>2, <2>3 DEF SpmcInv
  <1>10. QED
    BY <1>7, <1>8, <1>9

(* What a move of a consumer leaves as it is.                              *)
LEMMA ConsumerFrame ==
  ASSUME SpmcTypes, NEW c \in Consumers,
         NEW from \in ThreadPoints \ {"unborn"}, NEW to \in ThreadPoints, Move(c, from, to)
  PROVE  /\ point[c] = from /\ point'[c] = to /\ point'[0] = point[0]
         /\ \A d \in Consumers \ {c} : point'[d] = point[d] /\ (Moving(d)' <=> Moving(d))
         /\ i' \in Threads /\ point' \in [Threads -> ThreadPoints]
         /\ main' = "perf" => i' = 0
         /\ main' \in {"perf", "create"} => \A q \in Threads : q >= i' => point'[q] = "unborn"
  <1>1. c \in Threads /\ 0 \in Threads \ {c} /\ Consumers \subseteq Threads
    BY SpmcThreads
  <1>2. QED
    BY <1>1, MoveStep DEF Moving

(* A consumer evaluates the test for an empty ring.                        *)
LEMMA TestStep ==
  ASSUME SpmcInv, NEW c \in Consumers, LoadIn(c) \/ LoadOut(c)
  PROVE  SpmcInv'
  <1>1. UNCHANGED <<in, out, sent, taken>> /\ Taken' = Taken /\ Taken \in Nat
    <2>1. UNCHANGED <<in, out, sent, taken>>
      BY DEF LoadIn, LoadOut, counts
    <2>2. QED
      BY <2>1, TakenType DEF SpmcInv, Taken, MapThenSumSet, MapThenFoldSet
  <1>2. IsFiniteSet(Units(taken', Consumers)) /\ SpmcTypes
    BY <1>1 DEF SpmcInv, SpmcTypes
  <1>3. Between(in', out') = Between(in, out)
    BY <1>1
  <1>4. CASE LoadIn(c)
    <2>1. Move(c, "first", "second") /\ reg' = [reg EXCEPT ![c] = in] /\ raced' = raced
      BY <1>4 DEF LoadIn, counts
    <2>2. /\ point[c] = "first" /\ point'[c] = "second" /\ point'[0] = point[0]
          /\ \A d \in Consumers \ {c} : point'[d] = point[d] /\ (Moving(d)' <=> Moving(d))
          /\ i' \in Threads /\ point' \in [Threads -> ThreadPoints]
          /\ main' = "perf" => i' = 0
          /\ main' \in {"perf", "create"} => \A q \in Threads : q >= i' => point'[q] = "unborn"
      BY <1>2, <2>1, ConsumerFrame DEF ThreadPoints
    <2>3. reg' \in [Consumers -> Nat] /\ reg'[c] = in /\ \A d \in Consumers \ {c} : reg'[d] = reg[d]
      BY <1>2, <2>1 DEF SpmcTypes
    <2>4. SpmcTypes'
      BY <1>1, <1>2, <2>2, <2>3 DEF SpmcTypes
    <2>5. ASSUME ~raced' PROVE Indices' /\ Loaded'
      <3>1. Indices /\ Loaded
        BY <2>1, <2>5 DEF SpmcInv
      <3>2. ~Moving(c) /\ ~Moving(c)'
        BY <2>2 DEF Moving
      <3>3. Indices'
        BY <1>1, <1>3, <2>2, <3>1, <3>2 DEF Indices
      <3>4. reg'[c] <= BUFF_MAX /\ Between(reg'[c], out') = sent' - Taken' /\ sent' - Taken' \in Int
        BY <1>1, <1>2, <2>3, <3>1 DEF Indices, SpmcTypes
      <3>5. \A d \in Consumers \ {c} : Between(reg'[d], out') = Between(reg[d], out)
        BY <1>1, <2>3
      <3>6. \A d, e \in Consumers : Moving(d)' /\ Moving(e)' => d = e
        BY <2>2, <3>1, <3>2 DEF Loaded
      <3>7. ASSUME NEW d \in Consumers
            PROVE  /\ point'[d] = "second" => reg'[d] <= BUFF_MAX /\ Between(reg'[d], out') <= sent' - Taken'
                   /\ point'[d] = "bump" => sent' - Taken' >= 1
                   /\ point'[d] = "store" => reg'[d] = out'
        <4>1. CASE d = c
          BY <2>2, <3>4, <4>1
        <4>2. CASE d # c
          BY <1>1, <2>2, <2>3, <3>1, <3>5, <4>2 DEF Loaded
        <4>3. QED
          BY <4>1, <4>2
      <3>8. QED
        BY <3>3, <3>6, <3>7 DEF Loaded
    <2>6. QED
      BY <2>4, <2>5 DEF SpmcInv
  <1>5. CASE LoadOut(c)
    <2>1. reg' = reg
      BY <1>5 DEF LoadOut
    <2> DEFINE to == IF reg[c] = out THEN "first" ELSE "bump"
    <2>2. to \in {"first", "bump"} /\ Move(c, "second", to)
      BY <1>5 DEF LoadOut
    <2>3. ~raced' => ~raced
      BY <1>5 DEF LoadOut
    <2>4. ~raced' /\ to = "bump" => reg[c] % BUFF_MAX # out % BUFF_MAX
      BY <1>5 DEF LoadOut
    <2> HIDE DEF to
    <2>5. /\ point[c] = "second" /\ point'[c] = to /\ point'[0] = point[0]
          /\ \A d \in Consumers \ {c} : point'[d] = point[d] /\ (Moving(d)' <=> Moving(d))
          /\ i' \in Threads /\ point' \in [Threads -> ThreadPoints]
          /\ main' = "perf" => i' = 0
          /\ main' \in {"perf", "create"} => \A q \in Threads : q >= i' => point'[q] = "unborn"
      BY <1>2, <2>2, ConsumerFrame DEF ThreadPoints
    <2>6. SpmcTypes'
      BY <1>1, <1>2, <2>1, <2>5 DEF SpmcTypes
    <2>7. ASSUME ~raced' PROVE Indices' /\ Loaded'
      <3>1. Indices /\ Loaded
        BY <2>3, <2>7 DEF SpmcInv
      <3>2. ~Moving(c) /\ ~Moving(c)'
        BY <2>2, <2>5 DEF Moving
      <3>3. Indices'
        BY <1>1, <1>3, <2>5, <3>1, <3>2 DEF Indices
      <3>4. ASSUME to = "bump" PROVE sent' - Taken' >= 1
        <4>1. reg[c] \in 0 .. BUFF_MAX /\ out \in 0 .. BUFF_MAX
          BY <1>2, <2>5, <3>1, SpmcAssumption DEF Indices, Loaded, SpmcTypes
        <4>2. Home(reg[c]) # Home(out)
          BY <2>4, <2>7, <3>4, <4>1, Wraps
        <4>3. Between(reg[c], out) \in Int /\ Between(reg[c], out) >= 1
          BY <4>1, <4>2, NotEmpty
        <4>4. Between(reg[c], out) <= sent - Taken
          BY <2>5, <3>1 DEF Loaded
        <4>5. QED
          BY <1>1, <1>2, <4>3, <4>4 DEF SpmcTypes
      <3>5. \A d \in Consumers \ {c} : Between(reg'[d], out') = Between(reg[d], out)
        BY <1>1, <2>1
      <3>6. \A d, e \in Consumers : Moving(d)' /\ Moving(e)' => d = e
        BY <2>5, <3>1, <3>2 DEF Loaded
      <3>7. ASSUME NEW d \in Consumers
            PROVE  /\ point'[d] = "second" => reg'[d] <= BUFF_MAX /\ Between(reg'[d], out') <= sent' - Taken'
                   /\ point'[d] = "bump" => sent' - Taken' >= 1
                   /\ point'[d] = "store" => reg'[d] = out'
        <4>1. CASE d = c
          BY <2>2, <2>5, <3>4, <4>1
        <4>2. CASE d # c
          BY <1>1, <2>1, <2>5, <3>1, <3>5, <4>2 DEF Loaded
        <4>3. QED
          BY <4>1, <4>2
      <3>8. QED
        BY <3>3, <3>6, <3>7 DEF Loaded
    <2>8. QED
      BY <2>6, <2>7 DEF SpmcInv
  <1>6. QED
    BY <1>4, <1>5

(* A consumer moves out: nobody else is within a round, or it is a race.   *)
LEMMA BumpOutStep ==
  ASSUME SpmcInv, NEW c \in Consumers, BumpOut(c)
  PROVE  SpmcInv'
  <1>1. SpmcTypes /\ UNCHANGED <<in, reg, sent>> /\ out' = out + 1 /\ Taken \in Nat
    BY TakenType DEF BumpOut, SpmcInv
  <1>2. taken' = [taken EXCEPT ![c] = @ + 1]
    BY DEF BumpOut
  <1>3. /\ taken' \in [Consumers -> Nat] /\ IsFiniteSet(Units(taken', Consumers))
        /\ Taken' = Taken + 1
    BY <1>1, <1>2, OneTaken
  <1>4. /\ point[c] = "bump" /\ point'[c] = "load" /\ point'[0] = point[0]
        /\ \A d \in Consumers \ {c} : point'[d] = point[d] /\ (Moving(d)' <=> Moving(d))
        /\ i' \in Threads /\ point' \in [Threads -> ThreadPoints]
        /\ main' = "perf" => i' = 0
        /\ main' \in {"perf", "create"} => \A q \in Threads : q >= i' => point'[q] = "unborn"
    <2>1. Move(c, "bump", "load")
      BY DEF BumpOut
    <2>2. QED
      BY <1>1, <2>1, ConsumerFrame DEF ThreadPoints
  <1>5. SpmcTypes'
    BY <1>1, <1>3, <1>4 DEF SpmcTypes
  <1>6. ASSUME ~raced' PROVE Indices' /\ Loaded'
    <2>1. ~raced /\ ~(\E d \in Consumers \ {c} : Inside(d))
      BY <1>6 DEF BumpOut
    <2>2. Indices /\ Loaded
      BY <2>1 DEF SpmcInv
    <2>3. \A d \in Consumers \ {c} : point[d] \notin {"second", "bump", "load", "store"}
      BY <2>1 DEF Inside
    <2>4. \A d \in Consumers : ~Moving(d)
      BY <1>4, <2>3 DEF Moving
    <2>5. in \in 0 .. BUFF_MAX /\ out \in 0 .. BUFF_MAX - 1
      BY <1>1, <2>2, <2>4, SpmcAssumption DEF Indices, SpmcTypes
    <2>6. Between(in, out) = sent - Taken /\ sent - Taken >= 1
      BY <1>4, <2>2 DEF Indices, Loaded
    <2>7. Between(in', out') = Between(in, out) - 1
      BY <1>1, <2>5, <2>6, Further
    <2>8. Between(in', out') = sent' - Taken' /\ sent' - Taken' <= sent - Taken /\ sent - Taken \in Int
          /\ sent' - Taken' \in Int
      BY <1>1, <1>3, <2>6, <2>7 DEF SpmcTypes
    <2>9. Moving(c)'
      BY <1>4 DEF Moving
    <2>10. Indices'
      BY <1>1, <1>4, <2>2, <2>5, <2>8, <2>9, SpmcAssumption DEF Indices
    <2>11. Loaded'
      BY <1>4, <2>3, <2>4 DEF Loaded
    <2>12. QED
      BY <2>10, <2>11
  <1>7. QED
    BY <1>5, <1>6 DEF SpmcInv

(* It wraps out, which nobody else has moved in between, or it is a race.  *)
LEMMA WrapOutStep ==
  ASSUME SpmcInv, NEW c \in Consumers, LoadWrap(c) \/ StoreWrap(c)
  PROVE  SpmcInv'
  <1>1. UNCHANGED <<in, sent, taken>> /\ raced' = raced /\ Taken' = Taken
    <2>1. UNCHANGED <<in, sent, taken>> /\ raced' = raced
      BY DEF LoadWrap, StoreWrap, counts
    <2>2. QED
      BY <2>1 DEF Taken, MapThenSumSet, MapThenFoldSet
  <1>2. IsFiniteSet(Units(taken', Consumers)) /\ SpmcTypes
    BY <1>1 DEF SpmcInv, SpmcTypes
  <1>3. CASE LoadWrap(c)
    <2>1. Move(c, "load", "store") /\ reg' = [reg EXCEPT ![c] = out] /\ out' = out
      BY <1>3 DEF LoadWrap
    <2>2. /\ point[c] = "load" /\ point'[c] = "store" /\ point'[0] = point[0]
          /\ \A d \in Consumers \ {c} : point'[d] = point[d] /\ (Moving(d)' <=> Moving(d))
          /\ i' \in Threads /\ point' \in [Threads -> ThreadPoints]
          /\ main' = "perf" => i' = 0
          /\ main' \in {"perf", "create"} => \A q \in Threads : q >= i' => point'[q] = "unborn"
      BY <1>2, <2>1, ConsumerFrame DEF ThreadPoints
    <2>3. reg' \in [Consumers -> Nat] /\ reg'[c] = out /\ \A d \in Consumers \ {c} : reg'[d] = reg[d]
      BY <1>2, <2>1 DEF SpmcTypes
    <2>4. SpmcTypes'
      BY <1>1, <1>2, <2>1, <2>2, <2>3 DEF SpmcTypes
    <2>5. ASSUME ~raced' PROVE Indices' /\ Loaded'
      <3>1. Indices /\ Loaded
        BY <1>1, <2>5 DEF SpmcInv
      <3>2. Moving(c) /\ Moving(c)'
        BY <2>2 DEF Moving
      <3>3. Between(in', out') = Between(in, out)
            /\ \A d \in Consumers \ {c} : Between(reg'[d], out') = Between(reg[d], out)
        BY <1>1, <2>1, <2>3
      <3>4. Indices'
        BY <1>1, <2>1, <2>2, <3>1, <3>2, <3>3 DEF Indices
      <3>5. Loaded'
        BY <1>1, <2>1, <2>2, <2>3, <3>1, <3>2, <3>3 DEF Loaded
      <3>6. QED
        BY <3>4, <3>5
    <2>6. QED
      BY <2>4, <2>5 DEF SpmcInv
  <1>4. CASE StoreWrap(c)
    <2>1. Move(c, "store", "first") /\ reg' = reg /\ out' = reg[c] % BUFF_MAX
      BY <1>4 DEF StoreWrap
    <2>2. /\ point[c] = "store" /\ point'[c] = "first" /\ point'[0] = point[0]
          /\ \A d \in Consumers \ {c} : point'[d] = point[d] /\ (Moving(d)' <=> Moving(d))
          /\ i' \in Threads /\ point' \in [Threads -> ThreadPoints]
          /\ main' = "perf" => i' = 0
          /\ main' \in {"perf", "create"} => \A q \in Threads : q >= i' => point'[q] = "unborn"
      BY <1>2, <2>1, ConsumerFrame DEF ThreadPoints
    <2>3. out' \in Nat
      BY <1>2, <2>1, SpmcAssumption DEF SpmcTypes
    <2>4. SpmcTypes'
      BY <1>1, <1>2, <2>1, <2>2, <2>3 DEF SpmcTypes
    <2>5. ASSUME ~raced' PROVE Indices' /\ Loaded'
      <3>1. Indices /\ Loaded
        BY <1>1, <2>5 DEF SpmcInv
      <3>2. Moving(c) /\ ~Moving(c)'
        BY <2>2 DEF Moving
      <3>3. out \in 0 .. BUFF_MAX /\ reg[c] = out
        BY <1>2, <2>2, <3>1, SpmcAssumption DEF Indices, Loaded, SpmcTypes
      <3>4. out' \in 0 .. BUFF_MAX - 1 /\ Between(in', out') = Between(in, out)
            /\ \A d \in Consumers \ {c} : Between(reg'[d], out') = Between(reg[d], out)
        BY <1>1, <2>1, <3>3, SamePlace
      <3>5. Indices'
        BY <1>1, <2>2, <3>1, <3>4, SpmcAssumption DEF Indices
      <3>6. \A d \in Consumers : ~Moving(d)' /\ point'[d] # "store"
        BY <2>2, <3>1, <3>2 DEF Loaded, Moving
      <3>7. Loaded'
        BY <1>1, <2>1, <2>2, <3>1, <3>4, <3>6 DEF Loaded
      <3>8. QED
        BY <3>5, <3>7
    <2>6. QED
      BY <2>4, <2>5 DEF SpmcInv
  <1>5. QED
    BY <1>3, <1>4

(* Every step keeps the invariant.                                         *)
LEMMA SpmcNextInv == SpmcInv /\ [SpmcNext]_spmc_vars => SpmcInv'
  <1> SUFFICES ASSUME SpmcInv, [SpmcNext]_spmc_vars PROVE SpmcInv'
    OBVIOUS
  <1>1. CASE UNCHANGED spmc_vars
    <2>1. UNCHANGED <<main, i, point, in, out, reg, sent, taken, raced>>
      BY <1>1 DEF spmc_vars, counts
    <2>2. IsFiniteSet(Units(taken', Consumers))
      BY <2>1 DEF SpmcInv, SpmcTypes
    <2>3. SpmcTypes'
      BY <2>1, <2>2 DEF SpmcInv, SpmcTypes
    <2>4. QED
      BY <2>1, <2>3, OutsideStep
  <1>2. CASE Main
    BY <1>2, MainStep
  <1>3. CASE Producer
    BY <1>3, EndStep, ProducerStep, SpmcThreads DEF Producer
  <1>4. ASSUME NEW c \in Consumers, Consumer(c) PROVE SpmcInv'
    <2>1. c \in Threads
      BY SpmcThreads
    <2>2. QED
      BY <1>4, <2>1, EndStep, TestStep, BumpOutStep, WrapOutStep DEF Consumer
  <1>5. QED
    BY <1>1, <1>2, <1>3, <1>4 DEF SpmcNext

(* For every number of consumers, slots and rounds: as long as no consumer *)
(* moved out within another's round, and nobody was misled by an index at  *)
(* BUFF_MAX, the indices tell how many items are in the ring, and there    *)
(* are never more than BUFF_MAX - 1.                                       *)
THEOREM IndicesCountUnlessRaced == SpmcSpec => []CountsUnlessRaced
  <1>1. SpmcInv => CountsUnlessRaced
    <2> SUFFICES ASSUME SpmcInv, ~raced PROVE sent - Taken \in 0 .. BUFF_MAX - 1 /\ (in - out) % BUFF_MAX = sent - Taken
      BY DEF CountsUnlessRaced
    <2>1. in \in 0 .. BUFF_MAX /\ out \in 0 .. BUFF_MAX /\ Between(in, out) = sent - Taken
      BY SpmcAssumption DEF SpmcInv, SpmcTypes, Indices
    <2>2. QED
      BY <2>1, Distance
  <1>2. QED
    BY SpmcInitInv, SpmcNextInv, <1>1, PTL DEF SpmcSpec

-----------------------------------------------------------------------------
(***************************************************************************)
(* PerfRing, for every number of cores and size of the buffers: what the   *)
(* detector hands on of a buffer is the samples the kernel wrote.          *)
(***************************************************************************)

RecordKinds == {"SAMPLE", "THROTTLE", "TASK", "LOST"}
ReadStages  == {"head", "copy", "parse", "tail"}

PerfTypes ==
  /\ prog \in Versions /\ core \in Cores
  /\ stage \in {"counting", "opening", "sampling", "done", "exited", "crashed"} \cup ReadStages
  /\ DOMAIN ring = Cores /\ DOMAIN got = Cores
  /\ data_head \in [Cores -> Nat] /\ data_tail \in [Cores -> Nat]
  /\ \A c \in Cores : got[c] \in Seq([at : Nat, kind : {"SAMPLE", "torn"}])

(* A place in the buffer of c where a record starts or will start.         *)
Boundary(c, p) == p = data_head[c] \/ \E r \in ring[c] : r.at = p

(* The records of a buffer follow one another without gaps up to its head. *)
RingOK(c) ==
  /\ \A r \in ring[c] : r \in [at : Nat, kind : RecordKinds] /\ Boundary(c, r.at + Words(r.kind))
  /\ \A r \in ring[c] : r.at + Words(r.kind) <= data_head[c]
  /\ \A r, s \in ring[c] : r = s \/ r.at + Words(r.kind) <= s.at \/ s.at + Words(s.kind) <= r.at
  /\ Boundary(c, 0)

(* What was handed on of buffer c when its head was read as head.          *)
HandedOn(c, head) ==
  /\ Lists(got[c], Sampled(c, head)) \/ OneBeyond(c, head)
  /\ prog.stop = "DISABLE" => Lists(got[c], Sampled(c, head))

(* What was found of the head is a boundary, and the head itself when the  *)
(* events are disabled.                                                    *)
HeadFound ==
  /\ size \in Nat /\ size <= data_head[core] /\ Boundary(core, size)
  /\ prog.stop = "DISABLE" => size = data_head[core]

(* Before size the copy holds what the buffer does; at size nothing when   *)
(* the events are disabled.                                                *)
Copied ==
  /\ \A r \in data : r.at < size => r \in ring[core]
  /\ \A r \in ring[core] : r.at < size => r \in data
  /\ \A r \in data : r \in [at : Nat, kind : RecordKinds \cup {"torn"}]
  /\ \A r, s \in data : r.at = s.at => r = s
  /\ prog.stop = "DISABLE" => \A r \in data : r.at < size

(* The walk: at a record before size; at size; or past it, after one       *)
(* header more than there was.                                             *)
Before ==
  /\ loffset < size /\ offset <= loffset /\ (\E r \in ring[core] : r.at = loffset)
  /\ Lists(got[core], Sampled(core, loffset))
AtSize ==
  /\ loffset = size /\ offset <= size
  /\ Lists(got[core], Sampled(core, size))
  /\ offset < size => \E r \in ring[core] : /\ r.at + Words(r.kind) = size
                                            /\ r.kind \notin {"SAMPLE", "THROTTLE"}
Past == offset >= size /\ HandedOn(core, size)

Walk == loffset \in Nat /\ offset \in Nat /\ (Before \/ AtSize \/ Past)

Unread(c) == \/ c > core /\ stage # "done"
             \/ c = core /\ stage \in {"counting", "opening", "sampling", "head", "copy"}

(* The inductive invariant.                                                *)
PerfInv ==
  /\ PerfTypes
  /\ \A c \in Cores : RingOK(c)
  /\ stage \in {"counting", "opening"} =>
       core = 0 /\ \A c \in Cores : data_head[c] = 0 /\ data_tail[c] = 0 /\ ring[c] = {}
  /\ stage = "sampling" => core = 0
  /\ \A c \in Cores : Unread(c) => got[c] = << >>
  /\ \A c \in Cores : WasRead(c) =>
       /\ HandedOn(c, data_tail[c]) /\ data_tail[c] <= data_head[c]
       /\ prog.stop = "DISABLE" => data_tail[c] = data_head[c]
  /\ stage \in {"copy", "parse", "tail"} => HeadFound
  /\ stage = "parse" => Copied /\ Walk
  /\ stage = "tail" => HandedOn(core, size)

-----------------------------------------------------------------------------
(* The versions ask for the same fields, and parse all they ask for.       *)
LEMMA Versions8 ==
  ASSUME prog \in Versions
  PROVE  /\ prog.asked = Asked /\ prog.read.fields = Fields /\ prog.stop \in {"DISABLE", "REFRESH"}
         /\ prog.counts \subseteq {"opening", "exited", "done"}
  <1> USE DEF parsed_new6, parsed_new5, parsed_new4, parsed_new3, parsed_PCB_new3, parsed_new2,
              parsed_PCB_new2, parsed_PCB_test, counted_new6, counted_new5, counted_new4,
              counted_new3, counted_PCB_test, counted_PCB_new2, uncounted
  <1>1. prog \in {hardcore_new6, hardcore_new5, hardcore_new4, hardcore_new3, PCB_hardcore_new3,
                  hardcore_new2, PCB_hardcore_new2, PCB_hardcore_test}
    BY DEF Versions
  <1>2. CASE prog = hardcore_new6
    BY <1>2 DEF hardcore_new6
  <1>3. CASE prog = hardcore_new5
    BY <1>3 DEF hardcore_new5
  <1>4. CASE prog = hardcore_new4
    BY <1>4 DEF hardcore_new4
  <1>5. CASE prog = hardcore_new3
    BY <1>5 DEF hardcore_new3
  <1>6. CASE prog = PCB_hardcore_new3
    BY <1>6 DEF PCB_hardcore_new3
  <1>7. CASE prog = hardcore_new2
    BY <1>7 DEF hardcore_new2
  <1>8. CASE prog = PCB_hardcore_new2
    BY <1>8 DEF PCB_hardcore_new2
  <1>9. CASE prog = PCB_hardcore_test
    BY <1>9 DEF PCB_hardcore_test
  <1>10. QED
    BY <1>1, <1>2, <1>3, <1>4, <1>5, <1>6, <1>7, <1>8, <1>9

(* Every record has a length; a sample and a throttle record are stepped   *)
(* over whole, of any other only the header is.                            *)
LEMMA Lengths ==
  ASSUME prog \in Versions
  PROVE  /\ \A kind \in RecordKinds \cup {"torn"} : Words(kind) \in Nat /\ Words(kind) >= 1
         /\ Words("LOST") = 3 /\ Words("zero") = 0
         /\ \A kind \in {"SAMPLE", "torn", "THROTTLE"} : Parsed(kind) = Words(kind)
         /\ \A kind \in {"TASK", "LOST", "zero"} : Parsed(kind) = 1
  <1>1. prog.asked = Asked /\ prog.asked \cap prog.read.fields = Asked
    BY Versions8 DEF Asked, Fields
  <1>2. Cardinality(Asked) \in Nat
    <2>1. \A x : IsFiniteSet({x})
      BY FS_Singleton
    <2>2. \A A, B : IsFiniteSet(A) /\ IsFiniteSet(B) => IsFiniteSet(A \cup B)
      BY FS_Union
    <2>3. /\ IsFiniteSet(({"IP"} \cup {"TID"}) \cup ({"ADDR"} \cup {"CPU"}))
          /\ IsFiniteSet(({"PERIOD"} \cup {"WEIGHT"}) \cup {"DATA_SRC"})
      BY <2>1, <2>2, Zenon
    <2>4. Asked = (({"IP"} \cup {"TID"}) \cup ({"ADDR"} \cup {"CPU"}))
                  \cup (({"PERIOD"} \cup {"WEIGHT"}) \cup {"DATA_SRC"})
      BY DEF Asked
    <2>5. IsFiniteSet(Asked)
      BY <2>2, <2>3, <2>4, Zenon
    <2>6. QED
      BY <2>5, FS_CardinalityType
  <1>3. /\ Words("SAMPLE") = 1 + Cardinality(Asked) /\ Words("torn") = 1 + Cardinality(Asked)
        /\ Parsed("SAMPLE") = 1 + Cardinality(Asked) /\ Parsed("torn") = 1 + Cardinality(Asked)
    BY <1>1 DEF Words, Parsed
  <1>4. /\ Words("THROTTLE") = 4 /\ Words("TASK") = 4 /\ Words("LOST") = 3 /\ Words("zero") = 0
        /\ Parsed("THROTTLE") = 4 /\ Parsed("TASK") = 1 /\ Parsed("LOST") = 1 /\ Parsed("zero") = 1
    BY DEF Words, Parsed
  <1>5. QED
    BY <1>2, <1>3, <1>4 DEF RecordKinds

(* Initially the buffers are empty and nothing was read.                   *)
LEMMA PerfInitInv == PerfInit => PerfInv
  <1> SUFFICES ASSUME PerfInit PROVE PerfInv
    OBVIOUS
  <1>1. core = 0 /\ 0 \in Cores /\ \A c \in Cores : ~(c < 0) /\ c \in Nat
    BY PerfAssumption DEF PerfInit, Cores
  <1>2. PerfTypes
    BY <1>1, PerfAssumption DEF PerfInit, PerfTypes, ReadStages
  <1>3. \A c \in Cores : RingOK(c)
    BY DEF PerfInit, RingOK, Boundary
  <1>4. QED
    BY <1>1, <1>2, <1>3 DEF PerfInit, PerfInv, WasRead

-----------------------------------------------------------------------------
(* Lists *)

(* The empty sequence lists the empty set.                                 *)
LEMMA ListsEmpty == ASSUME NEW S, S = {} PROVE Lists(<< >>, S)
  BY DEF Lists

(* A record appended behind all others.                                    *)
LEMMA ListsAppend ==
  ASSUME NEW T, NEW s \in Seq(T), NEW S, Lists(s, S), NEW x \in T, \A r \in S : r.at < x.at
  PROVE  Lists(Append(s, x), S \cup {x})
  <1>1. /\ DOMAIN Append(s, x) = 1 .. Len(s) + 1 /\ DOMAIN s = 1 .. Len(s) /\ Len(s) \in Nat
        /\ \A n \in 1 .. Len(s) : Append(s, x)[n] = s[n]
        /\ Append(s, x)[Len(s) + 1] = x
    OBVIOUS
  <1> PICK f, l : f = Append(s, x) /\ l = Len(s)
    OBVIOUS
  <1>2. /\ \A n \in DOMAIN f : n \in 1 .. l \/ n = l + 1
        /\ \A n \in 1 .. l : f[n] = s[n] /\ s[n] \in S
        /\ f[l + 1] = x /\ l \in Nat
    BY <1>1 DEF Lists
  <1>3. \A n \in DOMAIN f : f[n] \in S \cup {x}
    BY <1>2
  <1>4. \A r \in S \cup {x} : \E n \in DOMAIN f : f[n] = r
    BY <1>1 DEF Lists
  <1>5. ASSUME NEW n \in DOMAIN f, NEW m \in DOMAIN f, n < m PROVE f[n].at < f[m].at
    <2>1. CASE m \in 1 .. l
      BY <1>1, <1>2, <1>5, <2>1 DEF Lists
    <2>2. CASE m = l + 1
      BY <1>1, <1>2, <1>5, <2>2
    <2>3. QED
      BY <1>2, <2>1, <2>2
  <1>6. Lists(f, S \cup {x})
    BY <1>3, <1>4, <1>5 DEF Lists
  <1>7. QED
    BY <1>6

(* Behind a record, the samples are those before it, and the record if it  *)
(* is a sample.                                                            *)
LEMMA SampledBehind ==
  ASSUME PerfTypes, NEW c \in Cores, RingOK(c), NEW r \in ring[c]
  PROVE  /\ r.kind = "SAMPLE" => Sampled(c, r.at + Words(r.kind)) = Sampled(c, r.at) \cup {r}
         /\ r.kind # "SAMPLE" => Sampled(c, r.at + Words(r.kind)) = Sampled(c, r.at)
         /\ \A s \in Sampled(c, r.at) : s.at < r.at
  <1> PICK w : w = Words(r.kind)
    OBVIOUS
  <1>1. r.at \in Nat /\ r.kind \in RecordKinds
    BY DEF RingOK
  <1>2. w \in Nat /\ w >= 1
    BY <1>1, Lengths DEF PerfTypes
  <1>3. ASSUME NEW s \in ring[c] PROVE s.at < r.at + w <=> s = r \/ s.at < r.at
    <2>1. s.at \in Nat /\ s.kind \in RecordKinds
      BY DEF RingOK
    <2>2. Words(s.kind) \in Nat /\ Words(s.kind) >= 1
      BY <2>1, Lengths DEF PerfTypes
    <2>3. s = r \/ s.at + Words(s.kind) <= r.at \/ r.at + w <= s.at
      BY DEF RingOK
    <2>4. QED
      BY <1>1, <1>2, <2>1, <2>2, <2>3
  <1>4. QED
    BY <1>3 DEF Sampled

-----------------------------------------------------------------------------
(* The kernel *)

(* What a write changes: one record more, or two, behind the old head.     *)
LEMMA Written ==
  ASSUME PerfTypes, NEW c \in Cores, NEW kind \in Kinds, KernelWrites(c, kind)
  PROVE  \E l \in {0, 3} :
           /\ DOMAIN ring' = Cores /\ data_head' \in [Cores -> Nat]
           /\ \A d \in Cores \ {c} : ring'[d] = ring[d] /\ data_head'[d] = data_head[d]
           /\ data_head'[c] = data_head[c] + l + Words(kind)
           /\ ring[c] \subseteq ring'[c]
           /\ [at |-> data_head[c] + l, kind |-> kind] \in ring'[c]
           /\ l = 3 => [at |-> data_head[c], kind |-> "LOST"] \in ring'[c]
           /\ \A r \in ring'[c] : \/ r \in ring[c]
                                  \/ r = [at |-> data_head[c] + l, kind |-> kind]
                                  \/ l = 3 /\ r = [at |-> data_head[c], kind |-> "LOST"]
  <1> PICK l : l = LostWords(c)
    OBVIOUS
  <1>1. Words("LOST") = 3 /\ Words(kind) \in Nat
    BY Lengths DEF PerfTypes, Kinds, RecordKinds
  <1>2. l \in {0, 3} /\ (l = 3 <=> lost[c])
    BY <1>1 DEF LostWords
  <1> PICK new : new = [at |-> data_head[c] + l, kind |-> kind]
    OBVIOUS
  <1> PICK note : note = [at |-> data_head[c], kind |-> "LOST"]
    OBVIOUS
  <1>3. ring' = [ring EXCEPT ![c] = (ring[c] \cup {new}) \cup (IF lost[c] THEN {note} ELSE {})]
    BY DEF KernelWrites
  <1>4. data_head' = [data_head EXCEPT ![c] = data_head[c] + l + Words(kind)]
    BY DEF KernelWrites
  <1>5. data_head' \in [Cores -> Nat] /\ data_head'[c] = data_head[c] + l + Words(kind)
        /\ \A d \in Cores \ {c} : data_head'[d] = data_head[d]
    BY <1>1, <1>2, <1>4 DEF PerfTypes
  <1>6. /\ DOMAIN ring' = Cores /\ \A d \in Cores \ {c} : ring'[d] = ring[d]
        /\ ring'[c] = (ring[c] \cup {new}) \cup (IF lost[c] THEN {note} ELSE {})
    BY <1>3 DEF PerfTypes
  <1>7. ring[c] \subseteq ring'[c] /\ new \in ring'[c] /\ (l = 3 => note \in ring'[c])
    BY <1>2, <1>6
  <1>8. \A r \in ring'[c] : r \in ring[c] \/ r = new \/ (l = 3 /\ r = note)
    BY <1>2, <1>6
  <1>9. QED
    BY <1>2, <1>5, <1>6, <1>7, <1>8

(* The records still follow one another without gaps.                      *)
LEMMA RingGrows ==
  ASSUME PerfTypes, NEW c \in Cores, RingOK(c), prog' = prog, NEW l \in {0, 3}, NEW kind \in Kinds,
         data_head'[c] = data_head[c] + l + Words(kind),
         ring[c] \subseteq ring'[c],
         [at |-> data_head[c] + l, kind |-> kind] \in ring'[c],
         l = 3 => [at |-> data_head[c], kind |-> "LOST"] \in ring'[c],
         \A r \in ring'[c] : \/ r \in ring[c]
                             \/ r = [at |-> data_head[c] + l, kind |-> kind]
                             \/ l = 3 /\ r = [at |-> data_head[c], kind |-> "LOST"]
  PROVE  /\ RingOK(c)' /\ data_head[c] <= data_head'[c]
         /\ \A r \in ring'[c] : r \in ring[c] \/ r.at >= data_head[c]
         /\ \A p : Boundary(c, p) => Boundary(c, p)'
  <1> PICK h, w : h = data_head[c] /\ w = Words(kind)
    OBVIOUS
  <1> PICK new : new = [at |-> h + l, kind |-> kind]
    OBVIOUS
  <1> PICK note : note = [at |-> h, kind |-> "LOST"]
    OBVIOUS
  <1>1. \A x : Words(x)' = Words(x)
    BY DEF Words
  <1>2. h \in Nat /\ w \in Nat /\ w >= 1 /\ Words("LOST") = 3
    BY Lengths DEF PerfTypes, Kinds, RecordKinds
  <1>3. /\ new.at = h + l /\ Words(new.kind) = w /\ new \in [at : Nat, kind : RecordKinds]
        /\ note.at = h /\ Words(note.kind) = 3 /\ note \in [at : Nat, kind : RecordKinds]
    BY <1>2 DEF Kinds, RecordKinds
  <1>4. \A r \in ring'[c] : r \in ring[c] \/ r = new \/ (l = 3 /\ r = note)
    OBVIOUS
  <1>5. new \in ring'[c] /\ (l = 3 => note \in ring'[c]) /\ data_head'[c] = h + l + w
    OBVIOUS
  <1>6. \A r \in ring[c] : /\ r \in [at : Nat, kind : RecordKinds] /\ r.at \in Nat
                           /\ Words(r.kind) \in Nat /\ Words(r.kind) >= 1 /\ r.at + Words(r.kind) <= h
    <2> TAKE r \in ring[c]
    <2>1. r \in [at : Nat, kind : RecordKinds] /\ r.at + Words(r.kind) <= h
      BY DEF RingOK
    <2>2. r.at \in Nat /\ r.kind \in RecordKinds
      BY <2>1
    <2>3. Words(r.kind) \in Nat /\ Words(r.kind) >= 1
      BY <2>2, Lengths DEF PerfTypes
    <2>4. QED
      BY <2>1, <2>2, <2>3
  <1>7. \E r \in ring'[c] : r.at = h
    <2>1. CASE l = 0
      BY <1>2, <1>3, <1>5, <2>1
    <2>2. CASE l = 3
      BY <1>3, <1>5, <2>2
    <2>3. QED
      BY <2>1, <2>2
  <1>8. ASSUME NEW p, Boundary(c, p) PROVE Boundary(c, p)'
    BY <1>7, <1>8 DEF Boundary
  <1>9. \A r \in ring'[c] : r \in ring[c] \/ r.at >= h
    BY <1>2, <1>3, <1>4
  <1>10. ASSUME NEW r \in ring'[c]
         PROVE  /\ r \in [at : Nat, kind : RecordKinds]
                /\ \A e : e = r.at + Words(r.kind) => Boundary(c, e)' /\ e <= h + l + w
    <2> PICK e : e = r.at + Words(r.kind)
      OBVIOUS
    <2>1. CASE r \in ring[c]
      <3>1. Boundary(c, e) /\ e <= h
        BY <2>1 DEF RingOK
      <3>2. e \in Nat
        BY <1>6, <2>1
      <3>3. Boundary(c, e)' /\ e <= h + l + w
        BY <1>2, <1>8, <3>1, <3>2
      <3>4. QED
        BY <1>6, <2>1, <3>3
    <2>2. CASE r = new
      <3>1. e = data_head'[c] /\ e = h + l + w
        BY <1>3, <1>5, <2>2
      <3>2. QED
        BY <1>2, <1>3, <2>2, <3>1 DEF Boundary
    <2>3. CASE l = 3 /\ r = note
      <3>1. e = new.at /\ new.at = h + 3
        BY <1>3, <2>3
      <3>2. Boundary(c, e)'
        BY <1>5, <3>1 DEF Boundary
      <3>3. QED
        BY <1>2, <1>3, <2>3, <3>1, <3>2
    <2>4. QED
      BY <1>4, <2>1, <2>2, <2>3
  <1>11. ASSUME NEW r \in ring'[c], NEW s \in ring'[c]
         PROVE  r = s \/ r.at + Words(r.kind) <= s.at \/ s.at + Words(s.kind) <= r.at
    <2>1. CASE r \in ring[c] /\ s \in ring[c]
      BY <2>1 DEF RingOK
    <2>2. CASE r \in ring[c] /\ s \notin ring[c]
      BY <1>2, <1>3, <1>4, <1>6, <2>2
    <2>3. CASE r \notin ring[c] /\ s \in ring[c]
      BY <1>2, <1>3, <1>4, <1>6, <2>3
    <2>4. CASE r \notin ring[c] /\ s \notin ring[c]
      BY <1>2, <1>3, <1>4, <2>4
    <2>5. QED
      BY <2>1, <2>2, <2>3, <2>4
  <1>12. Boundary(c, 0)'
    BY <1>8 DEF RingOK
  <1>13. RingOK(c)'
    <2>1. \A r \in ring'[c] : /\ r \in [at : Nat, kind : RecordKinds]
                             /\ Boundary(c, r.at + Words(r.kind))'
                             /\ r.at + Words(r.kind)' <= data_head'[c]
      BY <1>1, <1>5, <1>10
    <2>2. QED
      BY <1>1, <1>11, <1>12, <2>1 DEF RingOK
  <1>14. QED
    BY <1>2, <1>5, <1>8, <1>9, <1>13

(* What was handed on of the records before h stays so while the kernel    *)
(* writes behind the head.                                                 *)
LEMMA HandedOnStays ==
  ASSUME PerfTypes, prog' = prog, NEW d \in Cores, RingOK(d)', NEW h \in Nat, h <= data_head[d],
         got'[d] = got[d], ring[d] \subseteq ring'[d],
         \A r \in ring'[d] : r \in ring[d] \/ r.at >= data_head[d]
  PROVE  Sampled(d, h)' = Sampled(d, h) /\ (HandedOn(d, h) => HandedOn(d, h)')
  <1>1. \A x : Words(x)' = Words(x)
    BY DEF Words
  <1>2. Sampled(d, h)' = Sampled(d, h)
    <2>1. \A r \in ring'[d] : r.at \in Nat
      BY DEF RingOK
    <2>2. data_head[d] \in Nat
      BY DEF PerfTypes
    <2>3. \A r : r \in ring'[d] /\ r.at < h <=> r \in ring[d] /\ r.at < h
      BY <2>1, <2>2
    <2>4. QED
      BY <2>3 DEF Sampled
  <1>3. ASSUME OneBeyond(d, h) PROVE OneBeyond(d, h)'
    BY <1>1, <1>2, <1>3 DEF OneBeyond
  <1>4. QED
    BY <1>2, <1>3 DEF HandedOn

(* A kernel that only adds records behind the head keeps the invariant, as *)
(* long as it adds none to a buffer whose event is disabled.               *)
LEMMA KernelKeeps ==
  ASSUME PerfInv, UNCHANGED <<prog, stage, core, data_tail, size, data, offset, loffset, got>>,
         PerfTypes', stage \notin {"counting", "opening"},
         \A d \in Cores :
           /\ RingOK(d)' /\ ring[d] \subseteq ring'[d]
           /\ \A r \in ring'[d] : r \in ring[d] \/ r.at >= data_head[d]
           /\ data_head[d] <= data_head'[d] /\ (data_head'[d] # data_head[d] => Running(d))
           /\ \A p : Boundary(d, p) => Boundary(d, p)'
  PROVE  PerfInv'
  <1>1. PerfTypes /\ core \in Cores /\ \A d \in Cores : data_head[d] \in Nat /\ data_tail[d] \in Nat
    BY DEF PerfInv, PerfTypes
  <1>2. ASSUME NEW d \in Cores, NEW h \in Nat, h <= data_head[d]
        PROVE  Sampled(d, h)' = Sampled(d, h) /\ (HandedOn(d, h) => HandedOn(d, h)')
    BY <1>1, <1>2, HandedOnStays
  <1>3. \A x : Words(x)' = Words(x)
    BY DEF Words
  <1>4. ASSUME prog.stop = "DISABLE", stage # "sampling", NEW d \in Cores PROVE data_head'[d] = data_head[d]
    BY <1>4 DEF Running
  <1>5. ASSUME NEW c \in Cores, WasRead(c)
        PROVE  /\ HandedOn(c, data_tail[c])' /\ data_tail'[c] <= data_head'[c]
               /\ prog.stop = "DISABLE" => data_tail'[c] = data_head'[c]
    <2> PICK t : t = data_tail[c]
      OBVIOUS
    <2>1. HandedOn(c, t) /\ t <= data_head[c] /\ (prog.stop = "DISABLE" => t = data_head[c])
      BY <1>5 DEF PerfInv
    <2>2. HandedOn(c, t)'
      BY <1>1, <1>2, <2>1
    <2>3. stage # "sampling"
      BY <1>5, PerfAssumption DEF WasRead, PerfInv, Cores
    <2>4. t <= data_head'[c]
      BY <1>1, <2>1, PerfTypes' DEF PerfTypes
    <2>5. QED
      BY <1>1, <1>4, <2>1, <2>2, <2>3, <2>4
  <1>6. ASSUME stage \in {"copy", "parse", "tail"} PROVE HeadFound'
    <2> PICK h : h = size
      OBVIOUS
    <2>1. h \in Nat /\ h <= data_head[core] /\ Boundary(core, h) /\ (prog.stop = "DISABLE" => h = data_head[core])
      BY <1>6 DEF PerfInv, HeadFound
    <2>2. Boundary(core, h)' /\ h <= data_head'[core] /\ (prog.stop = "DISABLE" => h = data_head'[core])
      BY <1>1, <1>4, <1>6, <2>1, PerfTypes' DEF PerfTypes
    <2>3. QED
      BY <2>1, <2>2 DEF HeadFound
  <1>7. ASSUME stage = "parse" PROVE Copied'
    <2>1. HeadFound /\ Copied
      BY <1>7 DEF PerfInv
    <2>2. \A r \in ring'[core] : r.at \in Nat
      BY <1>1 DEF RingOK
    <2>3. \A r \in ring'[core] : r.at < size => r \in ring[core]
      BY <1>1, <2>1, <2>2 DEF HeadFound
    <2>4. QED
      BY <1>1, <2>1, <2>3 DEF Copied
  <1>8. ASSUME stage = "parse" PROVE Walk'
    <2> PICK h, l : h = size /\ l = loffset
      OBVIOUS
    <2>1. h \in Nat /\ h <= data_head[core] /\ Walk
      BY <1>8 DEF PerfInv, HeadFound
    <2>2. Sampled(core, h)' = Sampled(core, h) /\ (HandedOn(core, h) => HandedOn(core, h)')
      BY <1>1, <1>2, <2>1
    <2>3. CASE Before
      <3>1. l < h /\ l \in Nat
        BY <2>1, <2>3 DEF Before, Walk
      <3>2. Sampled(core, l)' = Sampled(core, l)
        BY <1>1, <1>2, <2>1, <3>1
      <3>3. Lists(got'[core], Sampled(core, l)')
        BY <2>3, <3>2 DEF Before
      <3>4. \E r \in ring'[core] : r.at = l
        BY <1>1, <2>3 DEF Before
      <3>5. Before'
        BY <2>3, <3>3, <3>4 DEF Before
      <3>6. QED
        BY <2>1, <3>5 DEF Walk
    <2>4. CASE AtSize
      <3>1. Lists(got'[core], Sampled(core, h)')
        BY <2>2, <2>4 DEF AtSize
      <3>2. offset < h => \E r \in ring'[core] : r.at + Words(r.kind)' = h /\ r.kind \notin {"SAMPLE", "THROTTLE"}
        BY <1>1, <1>3, <2>4 DEF AtSize
      <3>3. AtSize'
        BY <2>4, <3>1, <3>2 DEF AtSize
      <3>4. QED
        BY <2>1, <3>3 DEF Walk
    <2>5. CASE Past
      <3>1. HandedOn(core, h)'
        BY <2>2, <2>5 DEF Past
      <3>2. Past'
        BY <2>5, <3>1 DEF Past
      <3>3. QED
        BY <2>1, <3>2 DEF Walk
    <2>6. QED
      BY <2>1, <2>3, <2>4, <2>5 DEF Walk
  <1>9. ASSUME stage = "tail" PROVE HandedOn(core, size)'
    <2> PICK h : h = size
      OBVIOUS
    <2>1. h \in Nat /\ h <= data_head[core] /\ HandedOn(core, h)
      BY <1>9 DEF PerfInv, HeadFound
    <2>2. HandedOn(core, h)'
      BY <1>1, <1>2, <2>1
    <2>3. QED
      BY <2>2
  <1>10. \A c \in Cores : (WasRead(c)' <=> WasRead(c)) /\ (Unread(c)' <=> Unread(c))
    BY DEF WasRead, Unread
  <1>11. /\ stage' = "sampling" => core' = 0
         /\ \A c \in Cores : Unread(c)' => got'[c] = << >>
    BY <1>10 DEF PerfInv
  <1>12. QED
    BY <1>5, <1>6, <1>7, <1>8, <1>9, <1>10, <1>11 DEF PerfInv

(* A buffer that is left alone.                                            *)
LEMMA BufferStays ==
  ASSUME PerfTypes, prog' = prog, NEW d \in Cores, RingOK(d),
         ring'[d] = ring[d], data_head'[d] = data_head[d]
  PROVE  /\ RingOK(d)' /\ data_head[d] <= data_head'[d]
         /\ \A p : Boundary(d, p)' <=> Boundary(d, p)
  <1>1. \A x : Words(x)' = Words(x)
    BY DEF Words
  <1>2. \A p : Boundary(d, p)' <=> Boundary(d, p)
    BY DEF Boundary
  <1>3. \A r \in ring'[d] : /\ r \in [at : Nat, kind : RecordKinds]
                            /\ Boundary(d, r.at + Words(r.kind))'
                            /\ r.at + Words(r.kind)' <= data_head'[d]
    BY <1>1, <1>2 DEF RingOK
  <1>4. \A r, s \in ring'[d] : r = s \/ r.at + Words(r.kind)' <= s.at \/ s.at + Words(s.kind)' <= r.at
    BY <1>1 DEF RingOK
  <1>5. Boundary(d, 0)'
    BY <1>2 DEF RingOK
  <1>6. RingOK(d)'
    BY <1>3, <1>4, <1>5 DEF RingOK
  <1>7. QED
    BY <1>2, <1>6 DEF PerfTypes

(* The kernel writes or drops a record.                                    *)
LEMMA KernelStep ==
  ASSUME PerfInv, NEW c \in Cores, NEW kind \in Kinds, KernelWrites(c, kind) \/ KernelDrops(c, kind)
  PROVE  PerfInv'
  <1>1. UNCHANGED <<prog, stage, core, data_tail, size, data, offset, loffset, got>> /\ Running(c)
    BY DEF KernelWrites, KernelDrops, reader
  <1>2. stage \notin {"counting", "opening"}
    BY <1>1 DEF Running
  <1>3. PerfTypes /\ \A d \in Cores : RingOK(d)
    BY DEF PerfInv
  <1>4. CASE KernelWrites(c, kind)
    <2> PICK l \in {0, 3} :
           /\ DOMAIN ring' = Cores /\ data_head' \in [Cores -> Nat]
           /\ \A d \in Cores \ {c} : ring'[d] = ring[d] /\ data_head'[d] = data_head[d]
           /\ data_head'[c] = data_head[c] + l + Words(kind)
           /\ ring[c] \subseteq ring'[c]
           /\ [at |-> data_head[c] + l, kind |-> kind] \in ring'[c]
           /\ l = 3 => [at |-> data_head[c], kind |-> "LOST"] \in ring'[c]
           /\ \A r \in ring'[c] : \/ r \in ring[c]
                                  \/ r = [at |-> data_head[c] + l, kind |-> kind]
                                  \/ l = 3 /\ r = [at |-> data_head[c], kind |-> "LOST"]
      BY <1>3, <1>4, Written
    <2>1. PerfTypes'
      BY <1>1, <1>3 DEF PerfTypes
    <2>2. /\ RingOK(c)' /\ data_head[c] <= data_head'[c]
          /\ \A r \in ring'[c] : r \in ring[c] \/ r.at >= data_head[c]
          /\ \A p : Boundary(c, p) => Boundary(c, p)'
      BY <1>1, <1>3, RingGrows
    <2>3. ASSUME NEW d \in Cores \ {c}
          PROVE  /\ RingOK(d)' /\ data_head[d] <= data_head'[d] /\ data_head'[d] = data_head[d]
                 /\ ring'[d] = ring[d] /\ \A p : Boundary(d, p) => Boundary(d, p)'
      <3>1. RingOK(d)
        BY <1>3
      <3>2. QED
        BY <1>1, <1>3, <3>1, BufferStays
    <2>4. QED
      BY <1>1, <1>2, <2>1, <2>2, <2>3, KernelKeeps
  <1>5. CASE KernelDrops(c, kind)
    <2>1. UNCHANGED <<ring, data_head>>
      BY <1>5 DEF KernelDrops
    <2>2. PerfTypes'
      BY <1>1, <1>3, <2>1 DEF PerfTypes
    <2>3. ASSUME NEW d \in Cores
          PROVE  /\ RingOK(d)' /\ data_head[d] <= data_head'[d]
                 /\ \A p : Boundary(d, p) => Boundary(d, p)'
      <3>1. RingOK(d)
        BY <1>3
      <3>2. QED
        BY <1>1, <1>3, <2>1, <3>1, BufferStays
    <2>4. QED
      BY <1>1, <1>2, <2>1, <2>2, <2>3, KernelKeeps
  <1>6. QED
    BY <1>4, <1>5

-----------------------------------------------------------------------------
(* The detector *)

(* The detector does not write to the buffers.                             *)
LEMMA BuffersStay ==
  ASSUME PerfInv, UNCHANGED <<prog, ring, data_head>>
  PROVE  /\ \A c \in Cores : RingOK(c)'
         /\ \A c \in Cores : \A p : Boundary(c, p)' <=> Boundary(c, p)
         /\ \A c \in Cores : \A h : Sampled(c, h)' = Sampled(c, h)
         /\ \A x : Words(x)' = Words(x)
         /\ \A c \in Cores : \A h : got'[c] = got[c] => (HandedOn(c, h) => HandedOn(c, h)')
  <1>1. \A c \in Cores : RingOK(c)' /\ \A p : Boundary(c, p)' <=> Boundary(c, p)
    BY BufferStays DEF PerfInv
  <1>2. \A c \in Cores : \A h : Sampled(c, h)' = Sampled(c, h)
    BY DEF Sampled
  <1>3. \A x : Words(x)' = Words(x)
    BY DEF Words
  <1>4. ASSUME NEW c \in Cores, NEW h, got'[c] = got[c], HandedOn(c, h) PROVE HandedOn(c, h)'
    BY <1>2, <1>3, <1>4 DEF HandedOn, OneBeyond
  <1>5. QED
    BY <1>1, <1>2, <1>3, <1>4

(* A step within perf_mmap_read: the other cores' samples are left alone.  *)
LEMMA ReaderStep ==
  ASSUME PerfInv, PerfTypes', UNCHANGED <<prog, core, ring, data_head, data_tail>>,
         stage \in ReadStages, stage' \in {"copy", "parse", "tail", "crashed"},
         \A d \in Cores \ {core} : got'[d] = got[d],
         stage' = "copy" => got'[core] = << >>,
         stage' # "crashed" => HeadFound',
         stage' = "parse" => Copied' /\ Walk',
         stage' = "tail" => HandedOn(core, size)'
  PROVE  PerfInv'
  <1>1. core \in Cores /\ \A c \in Cores : c \in Nat
    BY PerfAssumption DEF PerfInv, PerfTypes, Cores
  <1>2. ASSUME NEW c \in Cores, WasRead(c)'
        PROVE  /\ HandedOn(c, data_tail[c])' /\ data_tail'[c] <= data_head'[c]
               /\ prog'.stop = "DISABLE" => data_tail'[c] = data_head'[c]
    <2> PICK t : t = data_tail[c]
      OBVIOUS
    <2>1. c < core /\ c # core /\ WasRead(c)
      BY <1>1, <1>2 DEF WasRead
    <2>2. HandedOn(c, t) /\ t <= data_head[c] /\ (prog.stop = "DISABLE" => t = data_head[c])
      BY <2>1 DEF PerfInv
    <2>3. HandedOn(c, t)'
      BY <2>1, <2>2, BuffersStay
    <2>4. QED
      BY <2>2, <2>3
  <1>3. ASSUME NEW c \in Cores, Unread(c)' PROVE got'[c] = << >>
    <2>1. CASE c = core
      BY <1>1, <1>3, <2>1 DEF Unread
    <2>2. CASE c # core
      <3>1. c > core /\ Unread(c)
        BY <1>3, <2>2 DEF Unread, ReadStages
      <3>2. QED
        BY <2>2, <3>1 DEF PerfInv
    <2>3. QED
      BY <2>1, <2>2
  <1>4. \A c \in Cores : RingOK(c)'
    BY BuffersStay
  <1>5. QED
    BY <1>2, <1>3, <1>4 DEF PerfInv

(* Before the buffers are read.                                            *)
LEMMA EarlyStep == ASSUME PerfInv, CountEvents \/ Open \/ Wake PROVE PerfInv'
  <1>1. UNCHANGED <<prog, core, ring, data_head, data_tail, got>>
    BY DEF CountEvents, Open, Wake, kernel
  <1>2. PerfTypes /\ core = 0 /\ \A c \in Cores : c \in Nat
    BY PerfAssumption DEF CountEvents, Open, Wake, PerfInv, PerfTypes, Cores
  <1>3. \/ stage = "counting" /\ stage' \in {"opening", "exited", "done"}
        \/ stage = "opening" /\ stage' \in {"sampling", "exited"}
        \/ stage = "sampling" /\ stage' = "head"
    <2>1. prog.counts \subseteq {"opening", "exited", "done"}
      BY <1>2, Versions8 DEF PerfTypes
    <2>2. QED
      BY <2>1 DEF CountEvents, Open, Wake
  <1>4. PerfTypes'
    BY <1>1, <1>2, <1>3 DEF PerfTypes, ReadStages
  <1>5. \A c \in Cores : RingOK(c)'
    BY <1>1, BuffersStay
  <1>6. ASSUME NEW c \in Cores PROVE got[c] = << >>
    <2>1. Unread(c)
      BY <1>2, <1>3 DEF Unread, Cores
    <2>2. QED
      BY <2>1 DEF PerfInv
  <1>7. ASSUME NEW c \in Cores, WasRead(c)'
        PROVE  /\ HandedOn(c, data_tail[c])' /\ data_tail'[c] <= data_head'[c]
               /\ prog'.stop = "DISABLE" => data_tail'[c] = data_head'[c]
    <2>1. stage = "counting"
      BY <1>1, <1>2, <1>3, <1>7 DEF WasRead
    <2>2. data_head[c] = 0 /\ data_tail[c] = 0 /\ ring[c] = {}
      BY <2>1 DEF PerfInv
    <2>3. Lists(got'[c], Sampled(c, data_tail[c])')
      <3>1. Sampled(c, data_tail[c])' = {}
        BY <1>1, <2>2 DEF Sampled
      <3>2. QED
        BY <1>1, <1>6, <3>1, ListsEmpty
    <2>4. HandedOn(c, data_tail[c])'
      BY <2>3 DEF HandedOn
    <2>5. QED
      BY <1>1, <2>2, <2>4
  <1>8. QED
    BY <1>1, <1>2, <1>3, <1>4, <1>5, <1>6, <1>7 DEF PerfInv

(* The head that is read is a boundary, and stays one.                     *)
LEMMA ReadHeadStep == ASSUME PerfInv, ReadHead PROVE PerfInv'
  <1>1. UNCHANGED <<prog, core, ring, data_head, data_tail, got>> /\ stage = "head"
    BY DEF ReadHead, kernel
  <1>2. PerfTypes /\ core \in Cores /\ data_head[core] \in Nat
    BY DEF PerfInv, PerfTypes
  <1>3. got[core] = << >>
    BY <1>1, <1>2 DEF PerfInv, Unread
  <1>4. CASE stage' = "crashed"
    <2>1. PerfTypes'
      BY <1>1, <1>2, <1>4 DEF PerfTypes
    <2>2. QED
      BY <1>1, <1>4, <2>1, ReaderStep DEF ReadStages
  <1>5. CASE size' = data_head[core] /\ stage' = IF size' = 0 THEN "tail" ELSE "copy"
    <2>1. PerfTypes'
      BY <1>1, <1>2, <1>5 DEF PerfTypes, ReadStages
    <2> PICK h : h = data_head[core]
      OBVIOUS
    <2>2. HeadFound'
      <3>1. Boundary(core, h)'
        BY <1>1, <1>2, BuffersStay DEF Boundary
      <3>2. QED
        BY <1>1, <1>2, <1>5, <3>1 DEF HeadFound
    <2>3. ASSUME size' = 0 PROVE HandedOn(core, size)'
      <3>1. \A r \in ring[core] : r.at \in Nat
        BY <1>2 DEF PerfInv, RingOK
      <3>2. Sampled(core, size)' = {}
        BY <1>1, <2>3, <3>1 DEF Sampled
      <3>3. Lists(got'[core], Sampled(core, size)')
        BY <1>1, <1>3, <3>2, ListsEmpty
      <3>4. QED
        BY <1>1, <3>3 DEF HandedOn
    <2>4. QED
      BY <1>1, <1>3, <1>5, <2>1, <2>2, <2>3, ReaderStep DEF ReadStages
  <1>6. QED
    BY <1>4, <1>5 DEF ReadHead

(* The copy holds what the buffer does up to size.                         *)
LEMMA CopyStep == ASSUME PerfInv, Copy PROVE PerfInv'
  <1>1. UNCHANGED <<prog, core, ring, data_head, data_tail, size, got>> /\ stage = "copy"
    BY DEF Copy, kernel
  <1>2. PerfTypes /\ core \in Cores /\ data_head[core] \in Nat /\ RingOK(core) /\ HeadFound
    BY <1>1 DEF PerfInv, PerfTypes
  <1>3. got[core] = << >>
    BY <1>1, <1>2 DEF PerfInv, Unread
  <1>4. HeadFound'
    <2> PICK h : h = size
      OBVIOUS
    <2>1. h \in Nat /\ h <= data_head[core] /\ Boundary(core, h) /\ (prog.stop = "DISABLE" => h = data_head[core])
      BY <1>2 DEF HeadFound
    <2>2. Boundary(core, h)'
      BY <1>1, <1>2, <2>1, BuffersStay DEF Boundary
    <2>3. QED
      BY <1>1, <2>1, <2>2 DEF HeadFound
  <1>5. CASE stage' = "crashed"
    <2>1. PerfTypes'
      BY <1>1, <1>2, <1>5 DEF PerfTypes
    <2>2. QED
      BY <1>1, <1>5, <2>1, ReaderStep DEF ReadStages
  <1>6. CASE stage' = "parse" /\ stage' # "crashed"
    <2> PICK tear : tear = [at |-> data_head[core], kind |-> "torn"]
      OBVIOUS
    <2>1. /\ offset' = 0 /\ loffset' = 0
          /\ data' = ring[core] \/ (data' = ring[core] \cup {tear} /\ Running(core))
      BY <1>6 DEF Copy
    <2>2. PerfTypes'
      BY <1>1, <1>2, <1>6 DEF PerfTypes, ReadStages
    <2>3. \A r \in ring[core] : /\ r \in [at : Nat, kind : RecordKinds] /\ r.at \in Nat
                                /\ r.at < data_head[core]
      <3> TAKE r \in ring[core]
      <3>1. r \in [at : Nat, kind : RecordKinds] /\ r.at + Words(r.kind) <= data_head[core]
        BY <1>2 DEF RingOK
      <3>2. r.at \in Nat /\ r.kind \in RecordKinds
        BY <3>1
      <3>3. Words(r.kind) \in Nat /\ Words(r.kind) >= 1
        BY <1>2, <3>2, Lengths DEF PerfTypes
      <3>4. QED
        BY <1>2, <3>1, <3>2, <3>3
    <2>4. tear.at = data_head[core] /\ tear \in [at : Nat, kind : RecordKinds \cup {"torn"}]
      BY <1>2
    <2>5. \A r, s \in ring[core] : r.at = s.at => r = s
      <3> SUFFICES ASSUME NEW r \in ring[core], NEW s \in ring[core], r.at = s.at PROVE r = s
        OBVIOUS
      <3>1. r = s \/ r.at + Words(r.kind) <= s.at \/ s.at + Words(s.kind) <= r.at
        BY <1>2 DEF RingOK
      <3>2. r.kind \in RecordKinds /\ s.kind \in RecordKinds
        BY <2>3
      <3>3. Words(r.kind) \in Nat /\ Words(r.kind) >= 1 /\ Words(s.kind) \in Nat /\ Words(s.kind) >= 1
        BY <1>2, <3>2, Lengths DEF PerfTypes
      <3>4. QED
        BY <2>3, <3>1, <3>3
    <2>6. prog.stop = "DISABLE" => data' = ring[core] /\ size = data_head[core]
      BY <1>1, <1>2, <2>1 DEF Running, HeadFound
    <2>7. Copied'
      <3>1. \A r \in data' : r.at < size => r \in ring[core]
        BY <1>2, <2>1, <2>4 DEF HeadFound
      <3>2. \A r \in ring[core] : r \in data'
        BY <2>1
      <3>3. \A r \in data' : r \in [at : Nat, kind : RecordKinds \cup {"torn"}]
        <4> TAKE r \in data'
        <4>1. CASE r = tear
          BY <2>4, <4>1
        <4>2. CASE r \in ring[core]
          <5>1. r \in [at : Nat, kind : RecordKinds]
            BY <2>3, <4>2
          <5>2. QED
            BY <5>1
        <4>3. QED
          BY <2>1, <4>1, <4>2
      <3>4. \A r, s \in data' : r.at = s.at => r = s
        BY <1>2, <2>1, <2>3, <2>4, <2>5
      <3>5. prog.stop = "DISABLE" => \A r \in data' : r.at < size
        BY <2>3, <2>6
      <3>6. QED
        BY <1>1, <3>1, <3>2, <3>3, <3>4, <3>5 DEF Copied
    <2>8. Lists(got'[core], Sampled(core, 0)')
      <3>1. Sampled(core, 0)' = {}
        BY <1>1, <2>3 DEF Sampled
      <3>2. QED
        BY <1>1, <1>3, <3>1, ListsEmpty
    <2>9. Walk'
      <3>1. CASE size = 0
        <4>1. AtSize'
          BY <1>1, <2>1, <2>8, <3>1 DEF AtSize
        <4>2. QED
          BY <2>1, <4>1 DEF Walk
      <3>2. CASE size # 0
        <4>1. size > 0 /\ data_head[core] > 0
          BY <1>2, <3>2 DEF HeadFound
        <4>2. \E r \in ring[core] : r.at = 0
          BY <1>2, <4>1 DEF RingOK, Boundary
        <4>3. Before'
          BY <1>1, <2>1, <2>8, <4>1, <4>2 DEF Before
        <4>4. QED
          BY <2>1, <4>3 DEF Walk
      <3>3. QED
        BY <3>1, <3>2
    <2>10. QED
      BY <1>1, <1>4, <1>6, <2>2, <2>7, <2>9, ReaderStep DEF ReadStages
  <1>7. QED
    BY <1>5, <1>6 DEF Copy

(* The walk is over: everything before size was handed on.                 *)
LEMMA EndOfRecordsStep == ASSUME PerfInv, EndOfRecords PROVE PerfInv'
  <1>1. /\ UNCHANGED <<prog, core, ring, data_head, data_tail, size, offset, loffset, got>>
        /\ stage = "parse" /\ stage' = "tail" /\ offset >= size
    BY DEF EndOfRecords, kernel, reader
  <1>2. PerfTypes /\ core \in Cores /\ HeadFound /\ Walk
    BY <1>1 DEF PerfInv, PerfTypes
  <1>3. PerfTypes'
    BY <1>1, <1>2 DEF PerfTypes, ReadStages
  <1> PICK h : h = size
    OBVIOUS
  <1>4. HeadFound'
    <2>1. h \in Nat /\ h <= data_head[core] /\ Boundary(core, h) /\ (prog.stop = "DISABLE" => h = data_head[core])
      BY <1>2 DEF HeadFound
    <2>2. Boundary(core, h)'
      BY <1>1, <1>2, <2>1, BuffersStay DEF Boundary
    <2>3. QED
      BY <1>1, <2>1, <2>2 DEF HeadFound
  <1>5. HandedOn(core, h)
    <2>1. CASE Before
      BY <1>1, <1>2, <2>1 DEF Before, Walk, HeadFound
    <2>2. CASE AtSize
      BY <2>2 DEF AtSize, HandedOn
    <2>3. CASE Past
      BY <2>3 DEF Past
    <2>4. QED
      BY <1>2, <2>1, <2>2, <2>3 DEF Walk
  <1>6. HandedOn(core, h)'
    BY <1>1, <1>2, <1>5, BuffersStay
  <1>7. QED
    BY <1>1, <1>3, <1>4, <1>6, ReaderStep DEF ReadStages

(* data_tail is set, and the next buffer is read.                          *)
LEMMA SetTailStep == ASSUME PerfInv, SetTail PROVE PerfInv'
  <1>1. /\ UNCHANGED <<prog, ring, data_head, got>> /\ stage = "tail"
        /\ data_tail' = [data_tail EXCEPT ![core] = size]
        /\ \/ core < CORES - 1 /\ core' = core + 1 /\ stage' = "head"
           \/ ~(core < CORES - 1) /\ core' = core /\ stage' = "done"
    BY DEF SetTail, kernel
  <1>2. /\ PerfTypes /\ core \in Cores /\ core \in Nat /\ HeadFound /\ HandedOn(core, size)
        /\ \A c \in Cores : c \in Nat /\ c <= CORES - 1
    <2>1. PerfTypes /\ core \in Cores /\ HeadFound /\ HandedOn(core, size)
      BY <1>1 DEF PerfInv, PerfTypes
    <2>2. \A c \in Cores : c \in Nat /\ c <= CORES - 1
      BY PerfAssumption DEF Cores
    <2>3. QED
      BY <2>1, <2>2
  <1>3. PerfTypes'
    <2>1. core' \in Cores
      BY <1>1, <1>2, PerfAssumption DEF Cores
    <2>2. data_tail' \in [Cores -> Nat]
      BY <1>1, <1>2 DEF PerfTypes, HeadFound
    <2>3. stage' \in {"done"} \cup ReadStages
      BY <1>1 DEF ReadStages
    <2>4. QED
      BY <1>1, <1>2, <2>1, <2>2, <2>3 DEF PerfTypes
  <1> PICK h : h = size
    OBVIOUS
  <1>4. ASSUME NEW c \in Cores, WasRead(c)'
        PROVE  /\ HandedOn(c, data_tail[c])' /\ data_tail'[c] <= data_head'[c]
               /\ prog'.stop = "DISABLE" => data_tail'[c] = data_head'[c]
    <2>1. c < core \/ c = core
      BY <1>1, <1>2, <1>4, PerfAssumption DEF WasRead
    <2>2. CASE c = core
      <3>1. data_tail'[c] = h /\ HandedOn(c, h)
        BY <1>1, <1>2, <2>2 DEF PerfTypes
      <3>2. HandedOn(c, h)'
        BY <1>1, <3>1, BuffersStay
      <3>3. h <= data_head[c] /\ (prog.stop = "DISABLE" => h = data_head[c])
        BY <1>2, <2>2 DEF HeadFound
      <3>4. QED
        BY <1>1, <3>1, <3>2, <3>3
    <2>3. CASE c < core
      <3> PICK t : t = data_tail[c]
        OBVIOUS
      <3>1. HandedOn(c, t) /\ t <= data_head[c] /\ (prog.stop = "DISABLE" => t = data_head[c])
        BY <2>3 DEF PerfInv, WasRead
      <3>2. data_tail'[c] = t
        BY <1>1, <1>2, <2>3 DEF PerfTypes
      <3>3. HandedOn(c, t)'
        BY <1>1, <3>1, BuffersStay
      <3>4. QED
        BY <1>1, <3>1, <3>2, <3>3
    <2>4. QED
      BY <2>1, <2>2, <2>3
  <1>5. ASSUME NEW c \in Cores, Unread(c)' PROVE got'[c] = << >>
    <2>1. c > core
      BY <1>1, <1>2, <1>5 DEF Unread
    <2>2. Unread(c)
      BY <1>1, <2>1 DEF Unread
    <2>3. QED
      BY <1>1, <2>2 DEF PerfInv
  <1>6. \A c \in Cores : RingOK(c)'
    BY <1>1, BuffersStay
  <1>7. QED
    BY <1>1, <1>3, <1>4, <1>5, <1>6 DEF PerfInv

(* The record that the walk has come to.                                   *)
LEMMA EventIs ==
  /\ \A r \in data : r.at = loffset => Event \in data /\ Event.at = loffset
  /\ ~(\E r \in data : r.at = loffset) => Event.at = loffset /\ Event.kind = "zero"
  <1>1. ASSUME \E r \in data : r.at = loffset PROVE Event \in data /\ Event.at = loffset
    <2>1. Event = CHOOSE r \in data : r.at = loffset
      BY <1>1 DEF Event
    <2>2. QED
      BY <1>1, <2>1
  <1>2. QED
    BY <1>1 DEF Event

(* One record of the walk.                                                 *)
LEMMA ParseStep == ASSUME PerfInv, Parse PROVE PerfInv'
  <1> PICK h, l, e : h = size /\ l = loffset /\ e = Event
    OBVIOUS
  <1>1. /\ UNCHANGED <<prog, stage, core, ring, data_head, data_tail, size, data>>
        /\ stage = "parse" /\ offset < h
        /\ offset' = l + Parsed(e.kind) /\ loffset' = l + Words(e.kind)
        /\ got' = IF e.kind \in {"SAMPLE", "torn"} THEN [got EXCEPT ![core] = Append(@, e)] ELSE got
    BY DEF Parse, kernel
  <1>2. PerfTypes /\ core \in Cores /\ HeadFound /\ Copied /\ Walk /\ RingOK(core)
    BY <1>1 DEF PerfInv, PerfTypes
  <1>3. h \in Nat /\ h <= data_head[core] /\ l \in Nat /\ offset \in Nat /\ data_head[core] \in Nat
    BY <1>2 DEF HeadFound, Walk, PerfTypes
  <1> PICK g : g = got[core]
    OBVIOUS
  <1> DEFINE T == [at : Nat, kind : {"SAMPLE", "torn"}]
  <1>4. g \in Seq(T)
    BY <1>2 DEF PerfTypes
  <1>5. HeadFound'
    <2>1. Boundary(core, h) /\ (prog.stop = "DISABLE" => h = data_head[core])
      BY <1>2 DEF HeadFound
    <2>2. Boundary(core, h)'
      BY <1>1, <1>2, <2>1, BuffersStay DEF Boundary
    <2>3. QED
      BY <1>1, <1>3, <2>1, <2>2 DEF HeadFound
  <1>6. Copied'
    BY <1>1, <1>2 DEF Copied
  <1>7. ASSUME e.kind \in {"SAMPLE", "torn"}, e \in T
        PROVE  got'[core] = Append(g, e) /\ Append(g, e) \in Seq(T)
    BY <1>1, <1>2, <1>4, <1>7 DEF PerfTypes
  <1>8. e.kind \notin {"SAMPLE", "torn"} => got'[core] = g
    BY <1>1
  <1>9. DOMAIN got' = Cores /\ \A d \in Cores \ {core} : got'[d] = got[d]
    BY <1>1, <1>2 DEF PerfTypes
  <1>10. ASSUME Walk', e.kind \in {"SAMPLE", "torn"} => e \in T PROVE PerfInv'
    <2>1. \A d \in Cores : got'[d] \in Seq(T)
      BY <1>2, <1>4, <1>7, <1>8, <1>9, <1>10 DEF PerfTypes
    <2>2. PerfTypes'
      BY <1>1, <1>2, <1>9, <2>1 DEF PerfTypes
    <2>3. QED
      BY <1>1, <1>5, <1>6, <1>9, <1>10, <2>2, ReaderStep DEF ReadStages
  <1> HIDE DEF T
  <1>11. CASE Before
    <2>1. PICK r \in ring[core] : r.at = l
      BY <1>11 DEF Before
    <2>2. l < h /\ Lists(g, Sampled(core, l))
      BY <1>11 DEF Before
    <2>3. r \in data /\ \A s \in data : s.at = l => s = r
      BY <1>1, <1>2, <2>1, <2>2 DEF Copied
    <2>4. e = r
      BY <2>1, <2>3, EventIs
    <2> PICK w : w = Words(r.kind)
      OBVIOUS
    <2>5. r \in [at : Nat, kind : RecordKinds] /\ r.kind \in RecordKinds
      BY <1>2 DEF RingOK
    <2>6. /\ w \in Nat /\ w >= 1
          /\ Parsed(r.kind) \in 1 .. w
          /\ Parsed(r.kind) < w => r.kind \notin {"SAMPLE", "THROTTLE"}
      BY <1>2, <2>5, Lengths DEF PerfTypes, RecordKinds
    <2>7. offset' = l + Parsed(r.kind) /\ loffset' = l + w
      BY <1>1, <2>4
    <2> PICK x : x = l + w
      OBVIOUS
    <2>8. x <= h
      <3>1. CASE h = data_head[core]
        BY <1>2, <2>1, <3>1 DEF RingOK
      <3>2. CASE \E s \in ring[core] : s.at = h
        <4> PICK s \in ring[core] : s.at = h
          BY <3>2
        <4>1. r = s \/ r.at + w <= s.at \/ s.at + Words(s.kind) <= r.at
          BY <1>2 DEF RingOK
        <4>2. s.kind \in RecordKinds
          BY <1>2 DEF RingOK
        <4>3. Words(s.kind) \in Nat
          BY <1>2, <4>2, Lengths DEF PerfTypes
        <4>4. QED
          BY <1>3, <2>1, <2>2, <2>6, <4>1, <4>3
      <3>3. QED
        BY <1>2, <3>1, <3>2 DEF HeadFound, Boundary
    <2>9. Lists(got'[core], Sampled(core, x))
      <3>1. /\ r.kind = "SAMPLE" => Sampled(core, x) = Sampled(core, l) \cup {r}
            /\ r.kind # "SAMPLE" => Sampled(core, x) = Sampled(core, l)
            /\ \A s \in Sampled(core, l) : s.at < r.at
        BY <1>2, <2>1, SampledBehind
      <3>2. CASE r.kind = "SAMPLE"
        <4>1. r \in T
          BY <2>5, <3>2 DEF T
        <4>2. Lists(Append(g, r), Sampled(core, l) \cup {r})
          BY <1>4, <2>2, <3>1, <4>1, ListsAppend
        <4>3. QED
          BY <1>7, <2>4, <3>1, <3>2, <4>1, <4>2
      <3>3. CASE r.kind # "SAMPLE"
        <4>1. r.kind \notin {"SAMPLE", "torn"}
          BY <2>5, <3>3 DEF RecordKinds
        <4>2. QED
          BY <1>8, <2>2, <2>4, <3>1, <3>3, <4>1
      <3>4. QED
        BY <3>2, <3>3
    <2>10. Lists(got'[core], Sampled(core, x)')
      BY <1>1, <2>9 DEF Sampled
    <2>11. CASE x = h
      <3>1. offset' <= h
        BY <1>3, <2>6, <2>7, <2>11
      <3>2. offset' < h => r.kind \notin {"SAMPLE", "THROTTLE"}
        BY <1>3, <2>6, <2>7, <2>11
      <3>3. \A y : Words(y)' = Words(y)
        BY <1>1 DEF Words
      <3>4. r \in ring'[core] /\ r.at + Words(r.kind)' = h
        BY <1>1, <2>1, <2>11, <3>3
      <3>5. AtSize'
        BY <1>1, <2>7, <2>10, <2>11, <3>1, <3>2, <3>4 DEF AtSize
      <3>6. loffset' \in Nat /\ offset' \in Nat
        BY <1>3, <2>6, <2>7
      <3>7. Walk'
        BY <3>5, <3>6 DEF Walk
      <3>8. e.kind \in {"SAMPLE", "torn"} => e \in T
        BY <2>4, <2>5 DEF T, RecordKinds
      <3>9. QED
        BY <1>10, <3>7, <3>8
    <2>12. CASE x # h
      <3>1. x < h /\ x \in Nat
        BY <1>3, <2>6, <2>8, <2>12
      <3>2. Boundary(core, x) /\ x # data_head[core]
        BY <1>2, <1>3, <2>1, <3>1 DEF RingOK
      <3>3. \E s \in ring'[core] : s.at = x
        BY <1>1, <3>2 DEF Boundary
      <3>4. offset' <= x /\ offset' \in Nat
        BY <1>3, <2>6, <2>7
      <3>5. Before'
        BY <1>1, <2>7, <2>10, <3>1, <3>3, <3>4 DEF Before
      <3>6. Walk'
        BY <2>7, <3>1, <3>4, <3>5 DEF Walk
      <3>7. e.kind \in {"SAMPLE", "torn"} => e \in T
        BY <2>4, <2>5 DEF T, RecordKinds
      <3>8. QED
        BY <1>10, <3>6, <3>7
    <2>13. QED
      BY <2>11, <2>12
  <1>12. CASE AtSize
    <2>1. /\ l = h /\ Lists(g, Sampled(core, h))
          /\ \E r \in ring[core] : r.at + Words(r.kind) = h /\ r.kind \notin {"SAMPLE", "THROTTLE"}
      BY <1>1, <1>12 DEF AtSize
    <2>2. e.at = h /\ (e \in data \/ e.kind = "zero")
      BY <2>1, EventIs
    <2>3. e \in data => e \in [at : Nat, kind : RecordKinds \cup {"torn"}]
      BY <1>2 DEF Copied
    <2>4. /\ Parsed(e.kind) \in Nat /\ Words(e.kind) \in Nat
      <3>1. e.kind \in RecordKinds \cup {"torn", "zero"}
        BY <2>2, <2>3
      <3>2. QED
        BY <1>2, <3>1, Lengths DEF PerfTypes, RecordKinds
    <2>5. offset' >= h /\ offset' \in Nat /\ loffset' \in Nat
      BY <1>1, <1>3, <2>1, <2>4
    <2>6. e.kind \in {"SAMPLE", "torn"} => e \in data /\ e \in T
      BY <2>2, <2>3 DEF T
    <2>7. HandedOn(core, h)'
      <3>1. CASE e.kind \in {"SAMPLE", "torn"}
        <4>1. e \in data /\ e \in T /\ got'[core] = Append(g, e)
          BY <1>7, <2>6, <3>1
        <4>2. prog.stop # "DISABLE"
          BY <1>2, <1>3, <2>2, <4>1 DEF Copied
        <4>3. Len(g) \in Nat /\ Len(Append(g, e)) = Len(g) + 1 /\ Append(g, e)[Len(g) + 1] = e
              /\ SubSeq(Append(g, e), 1, Len(g)) = g /\ Append(g, e) # << >>
          BY <1>4, <4>1
        <4>4. Front(Append(g, e)) = g /\ Last(Append(g, e)) = e
          BY <4>3 DEF Front, Last
        <4>5. \A y : Words(y)' = Words(y)
          BY <1>1 DEF Words
        <4>6. Sampled(core, h)' = Sampled(core, h)
          BY <1>1 DEF Sampled
        <4>7. OneBeyond(core, h)'
          BY <1>1, <2>1, <2>2, <4>1, <4>3, <4>4, <4>5, <4>6 DEF OneBeyond
        <4>8. QED
          BY <1>1, <4>2, <4>7 DEF HandedOn
      <3>2. CASE e.kind \notin {"SAMPLE", "torn"}
        <4>1. Sampled(core, h)' = Sampled(core, h)
          BY <1>1 DEF Sampled
        <4>2. QED
          BY <1>1, <1>8, <2>1, <3>2, <4>1 DEF HandedOn
      <3>3. QED
        BY <3>1, <3>2
    <2>8. Past'
      BY <1>1, <2>5, <2>7 DEF Past
    <2>9. Walk'
      BY <2>5, <2>8 DEF Walk
    <2>10. QED
      BY <1>10, <2>6, <2>9
  <1>13. CASE Past
    BY <1>1, <1>3, <1>13 DEF Past
  <1>14. QED
    BY <1>2, <1>11, <1>12, <1>13 DEF Walk

(* Every step keeps the invariant.                                         *)
LEMMA PerfNextInv == PerfInv /\ [PerfNext]_perf_vars => PerfInv'
  <1> SUFFICES ASSUME PerfInv, [PerfNext]_perf_vars PROVE PerfInv'
    OBVIOUS
  <1>1. CASE UNCHANGED perf_vars
    <2>1. /\ UNCHANGED <<prog, stage, core, data_tail, size, data, offset, loffset, got>>
          /\ UNCHANGED <<ring, data_head>>
      BY <1>1 DEF perf_vars, kernel, reader
    <2>2. PerfTypes /\ PerfTypes'
      BY <2>1 DEF PerfInv, PerfTypes
    <2>3. \A c \in Cores : RingOK(c)' /\ \A p : Boundary(c, p)' <=> Boundary(c, p)
      BY <2>1, BuffersStay
    <2>4. CASE stage \notin {"counting", "opening"}
      <3>1. \A c \in Cores : data_head[c] <= data_head'[c]
        BY <2>1, <2>2 DEF PerfTypes
      <3>2. QED
        BY <2>1, <2>2, <2>3, <2>4, <3>1, KernelKeeps
    <2>5. CASE stage \in {"counting", "opening"}
      <3>1. core = 0 /\ \A c \in Cores : ~(c < 0)
        BY <2>5, PerfAssumption DEF PerfInv, Cores
      <3>2. \A c \in Cores : (Unread(c)' <=> Unread(c)) /\ ~WasRead(c)'
        BY <2>1, <2>5, <3>1 DEF Unread, WasRead
      <3>3. QED
        BY <2>1, <2>2, <2>3, <2>5, <3>2 DEF PerfInv
    <2>6. QED
      BY <2>4, <2>5
  <1>2. CASE Detector
    BY <1>2, EarlyStep, ReadHeadStep, CopyStep, ParseStep, EndOfRecordsStep, SetTailStep DEF Detector
  <1>3. ASSUME NEW c \in Cores, NEW kind \in Kinds, KernelWrites(c, kind) \/ KernelDrops(c, kind)
        PROVE  PerfInv'
    BY <1>3, KernelStep
  <1>4. QED
    BY <1>1, <1>2, <1>3 DEF PerfNext

-----------------------------------------------------------------------------
(* For every number of cores, size of the buffers and set of versions: a   *)
(* read hands on, once and in order, the samples before the head it saw,   *)
(* and at most one record that begins there.                               *)
THEOREM ReadsAtMostOneBeyond == PerfSpec => []AtMostOneBeyond
  <1>1. PerfInv => AtMostOneBeyond
    BY DEF PerfInv, HandedOn, AtMostOneBeyond
  <1>2. QED
    BY PerfInitInv, PerfNextInv, <1>1, PTL DEF PerfSpec

(* The versions that disable the events before they read hand on every     *)
(* sample of every buffer, once and in the order in which the kernel wrote *)
(* them.                                                                   *)
THEOREM ReadsEverySampleOnce == PerfSpec => []EverySampleOnce
  <1>1. PerfInv => EverySampleOnce
    <2> SUFFICES ASSUME PerfInv, stage = "done", prog.stop = "DISABLE", NEW c \in Cores
                 PROVE  Lists(got[c], {r \in ring[c] : r.kind = "SAMPLE"})
      BY DEF EverySampleOnce
    <2>1. Lists(got[c], Sampled(c, data_head[c]))
      BY DEF PerfInv, WasRead, HandedOn
    <2>2. \A r \in ring[c] : r.at < data_head[c]
      <3> TAKE r \in ring[c]
      <3>1. r \in [at : Nat, kind : RecordKinds] /\ r.at + Words(r.kind) <= data_head[c]
        BY DEF PerfInv, RingOK
      <3>2. r.at \in Nat /\ r.kind \in RecordKinds
        BY <3>1
      <3>3. Words(r.kind) \in Nat /\ Words(r.kind) >= 1 /\ data_head[c] \in Nat
        BY <3>2, Lengths DEF PerfInv, PerfTypes
      <3>4. QED
        BY <3>1, <3>2, <3>3
    <2>3. Sampled(c, data_head[c]) = {r \in ring[c] : r.kind = "SAMPLE"}
      BY <2>2 DEF Sampled
    <2>4. QED
      BY <2>1, <2>3, Zenon
  <1>2. QED
    BY PerfInitInv, PerfNextInv, <1>1, PTL DEF PerfSpec
=============================================================================
