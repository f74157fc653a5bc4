-------------------------- MODULE AtomicRingProofs --------------------------
(***************************************************************************)
(* Proofs about AtomicRing, for every number of slots, rounds and items:   *)
(* the indices never lead outside the array, and the ring is a queue as    *)
(* long as no spin was left on an index about to be wrapped: it then       *)
(* implements BoundedFifo.  So the one race the module records is the only *)
(* way the ring can fail.                                                  *)
(***************************************************************************)
EXTENDS AtomicRing, SequenceTheorems, TLAPS

(* The two moduli of the code: of an index after its increment, and of the *)
(* place the producer would move to.                                       *)
LEMMA Wrapped ==
  ASSUME NEW i \in 0 .. BUFF_MAX
  PROVE  i % BUFF_MAX = Home(i) /\ Home(i) \in Slots
  BY AtomicAssumption DEF Home, Slots

(* An index in the array is wrapped, and stays within its type when it is  *)
(* incremented.                                                            *)
LEMMA InSlots == ASSUME NEW i \in Slots PROVE Home(i) = i /\ i + 1 \in 0 .. BUFF_MAX
  BY AtomicAssumption DEF Home, Slots

(* The occupied slots are slots of the array, without the one the producer *)
(* writes next.                                                            *)
LEMMA OccupiedSlots ==
  ASSUME in \in 0 .. BUFF_MAX, out \in 0 .. BUFF_MAX
  PROVE  /\ Occupancy \in 0 .. BUFF_MAX - 1
         /\ \A k \in 1 .. Occupancy : SlotOf(k) \in Slots /\ SlotOf(k) # Home(in)
  BY AtomicAssumption DEF Occupancy, SlotOf, Slots, Home

(* Initially the ring is empty and no thread was created.                  *)
LEMMA InitIInv == Init => IInv
  <1> SUFFICES ASSUME Init PROVE IInv
    OBVIOUS
  <1> USE AtomicAssumption DEF Init
  <1>1. LocalsOK
    <2>1. sent \in Seq(Items) /\ received \in Seq(Items \cup {Unwritten})
      OBVIOUS
    <2>3. raced \in BOOLEAN
      BY Zenon
    <2>2. pc \in [Threads -> Points] /\ pc["P"] = "unborn" /\ pc["C"] = "unborn"
      BY DEF Points, Threads
    <2>4. QED
      BY <2>1, <2>2, <2>3 DEF LocalsOK
  <1>2. IndicesInArray
    BY DEF IndicesInArray, Threads, Slots
  <1>3. TestsStayTrue /\ Prefix /\ UnreadItemsKept
    BY DEF TestsStayTrue, Prefix, UnreadItemsKept, Occupancy, Home, Threads
  <1>4. QED
    BY <1>1, <1>2, <1>3 DEF IInv

(* A step that leaves the ring and the histories alone.                    *)
LEMMA QuietStep ==
  ASSUME Prefix, UnreadItemsKept, UNCHANGED <<in, out, buff, sent, received>>
  PROVE  Prefix' /\ UnreadItemsKept'
  BY DEF Prefix, UnreadItemsKept, Occupancy, SlotOf, Home

(* main only creates and joins the threads.                                *)
LEMMA MainStep == IInv /\ Main => IInv'
  <1> SUFFICES ASSUME IInv, Main PROVE IInv'
    OBVIOUS
  <1> USE DEF Main, Create, Join
  <1>1. UNCHANGED <<in, out, buff, item, w, sent, received, raced>>
    BY DEF shared
  <1>2. /\ pc' \in [Threads -> Points]
        /\ \A t \in Threads : pc'[t] = pc[t] \/ (pc[t] = "unborn" /\ pc'[t] \in {"pin", "failed"})
    BY DEF IInv, LocalsOK, Threads, Points
  <1>3. LocalsOK'
    <2>1. /\ main' = "createP" => pc'["P"] = "unborn"
          /\ main' \in {"createP", "createC"} => pc'["C"] = "unborn"
      BY DEF IInv, LocalsOK, Threads
    <2>2. pc'["P"] \in {"full", "write", "bump"} => item \in Items
      BY <1>2 DEF IInv, LocalsOK, Threads
    <2>3. raced' \in BOOLEAN
      BY <1>1, Zenon DEF IInv, LocalsOK
    <2>4. /\ buff' \in [Slots -> Items \cup {Unwritten}]
          /\ item' \in Items \cup {Unwritten} /\ w' \in Items \cup {Unwritten}
          /\ sent' \in Seq(Items) /\ received' \in Seq(Items \cup {Unwritten})
      BY <1>1 DEF IInv, LocalsOK
    <2>5. QED
      BY <1>1, <1>2, <2>1, <2>2, <2>3, <2>4, Zenon DEF LocalsOK, Slots, Threads, Points
  <1>4. IndicesInArray'
    BY <1>1, <1>2 DEF IInv, LocalsOK, IndicesInArray, Threads, Slots
  <1>5. ~raced' => TestsStayTrue'
    BY <1>1, <1>2 DEF IInv, LocalsOK, TestsStayTrue, Threads, Home
  <1>6. QED
    BY <1>1, <1>3, <1>4, <1>5, QuietStep DEF IInv

(* What is known in every state, raced or not.                             *)
LEMMA Known ==
  ASSUME IInv
  PROVE  /\ in \in 0 .. BUFF_MAX /\ out \in 0 .. BUFF_MAX
         /\ sent \in Seq(Items) /\ received \in Seq(Items \cup {Unwritten})
         /\ pc["P"] # "wrap" => in \in Slots
         /\ pc["C"] # "wrap" => out \in Slots
  BY DEF IInv, IndicesInArray, LocalsOK

(* SeeSpace establishes the test, BumpIn appends the item, WrapIn changes  *)
(* nothing the other thread could tell.                                    *)
LEMMA ProducerStep == IInv /\ Producer => IInv'
  <1> SUFFICES ASSUME IInv, Producer PROVE IInv'
    OBVIOUS
  <1> USE AtomicAssumption, Known DEF Goto, shared
  <1>1. CASE Pin("P", "produce") \/ ProduceItem \/ ProducerReturns
    <2> USE <1>1 DEF Pin, ProduceItem, ProducerReturns
    <2>1. LocalsOK'
      BY DEF IInv, LocalsOK, Points, Threads
    <2>2. IndicesInArray'
      BY DEF IInv, LocalsOK, IndicesInArray, Threads
    <2>3. ~raced' => TestsStayTrue'
      BY DEF IInv, LocalsOK, TestsStayTrue, Threads, Home
    <2>4. QED
      BY <2>1, <2>2, <2>3, QuietStep DEF IInv
  <1>2. CASE SeeSpace
    <2> USE <1>2 DEF SeeSpace
    <2>1. LocalsOK'
      BY DEF IInv, LocalsOK, Points, Threads
    <2>2. IndicesInArray'
      BY DEF IInv, LocalsOK, IndicesInArray, Threads
    <2>3. ~raced' => ~raced /\ Home(in + 1) # Home(out)
      <3>1. in + 1 \in 0 .. BUFF_MAX /\ (in + 1) % BUFF_MAX = Home(in + 1)
        BY InSlots, Wrapped DEF IInv, LocalsOK, Threads
      <3>2. QED
        BY <3>1 DEF IInv, LocalsOK, Home
    <2>4. ~raced' => TestsStayTrue'
      BY <2>3 DEF IInv, LocalsOK, TestsStayTrue, Threads, Home
    <2>5. QED
      BY <2>1, <2>2, <2>3, <2>4, QuietStep DEF IInv
  <1>3. CASE WriteSlot
    <2> USE <1>3 DEF WriteSlot
    <2>1. in \in Slots /\ Home(in) = in /\ item \in Items
      BY InSlots DEF IInv, LocalsOK, Threads
    <2>2. LocalsOK'
      BY <2>1 DEF IInv, LocalsOK, Points, Threads
    <2>3. IndicesInArray'
      BY DEF IInv, LocalsOK, IndicesInArray, Threads
    <2>4. ~raced => TestsStayTrue'
      BY <2>1 DEF IInv, LocalsOK, TestsStayTrue, Threads, Home
    <2>5. ~raced => Prefix'
      BY DEF IInv, Prefix
    <2>6. ~raced => UnreadItemsKept'
      BY <2>1, OccupiedSlots DEF IInv, LocalsOK, UnreadItemsKept, Occupancy, SlotOf, Home
    <2>7. QED
      BY <2>2, <2>3, <2>4, <2>5, <2>6 DEF IInv
  <1>4. CASE BumpIn
    <2> USE <1>4 DEF BumpIn
    <2>1. in \in Slots /\ Home(in) = in /\ item \in Items /\ in + 1 \in 0 .. BUFF_MAX
      BY InSlots DEF IInv, LocalsOK, Threads
    <2>2. /\ sent' \in Seq(Items) /\ Len(sent') = Len(sent) + 1
          /\ sent'[Len(sent) + 1] = item
          /\ \A k \in 1 .. Len(sent) : sent'[k] = sent[k]
      BY <2>1
    <2>3. LocalsOK'
      BY <2>1, <2>2 DEF IInv, LocalsOK, Points, Threads
    <2>4. IndicesInArray'
      BY <2>1 DEF IInv, LocalsOK, IndicesInArray, Threads
    <2>5. SUFFICES ASSUME ~raced PROVE TestsStayTrue' /\ Prefix' /\ UnreadItemsKept'
      BY <2>3, <2>4 DEF IInv
    <2>6. Home(in + 1) # Home(out) /\ buff[in] = item
      BY <2>5 DEF IInv, TestsStayTrue
    <2>7. TestsStayTrue'
      BY <2>1, <2>5, <2>6 DEF IInv, LocalsOK, TestsStayTrue, Threads, Home, Slots
    <2>8. Prefix'
      BY <2>2, <2>5 DEF IInv, Prefix
    <2>9. /\ Occupancy \in Nat /\ Occupancy' = Occupancy + 1
          /\ SlotOf(Occupancy + 1) = in
          /\ \A k \in 1 .. Occupancy + 1 : SlotOf(k)' = SlotOf(k)
      <3>1. Home(out) \in Slots /\ Home(out)' = Home(out)
        BY Wrapped DEF Home
      <3>2. Home(in)' = (IF in + 1 = BUFF_MAX THEN 0 ELSE in + 1) /\ Home(in)' # Home(out)
        BY <2>1, <2>6 DEF Home
      <3>3. Occupancy \in Nat /\ Occupancy' = Occupancy + 1
        <4> DEFINE o == Home(out)
                   j == Home(in)'
        <4>1. o \in 0 .. BUFF_MAX - 1 /\ in \in 0 .. BUFF_MAX - 1
              /\ j = (IF in + 1 = BUFF_MAX THEN 0 ELSE in + 1) /\ j # o
          BY <2>1, <3>1, <3>2 DEF Slots
        <4>2. /\ Occupancy = (IF in >= o THEN in - o ELSE in - o + BUFF_MAX)
              /\ Occupancy' = (IF j >= o THEN j - o ELSE j - o + BUFF_MAX)
          BY <2>1, <3>1 DEF Occupancy
        <4> HIDE DEF o, j
        <4>3. QED
          BY <4>1, <4>2
      <3>4. SlotOf(Occupancy + 1) = in
        BY <2>1, <3>1 DEF Occupancy, SlotOf, Slots
      <3>5. \A k \in 1 .. Occupancy + 1 : SlotOf(k)' = SlotOf(k)
        BY <3>1 DEF SlotOf
      <3>6. QED
        BY <3>3, <3>4, <3>5
    <2>10. /\ Len(sent) = Len(received) + Occupancy /\ Len(received) \in Nat
           /\ \A k \in 1 .. Occupancy : buff[SlotOf(k)] = sent[Len(received) + k]
      BY <2>5, <2>9 DEF IInv, UnreadItemsKept
    <2>11. Len(sent') - Len(received') = Occupancy'
      BY <2>2, <2>9, <2>10
    <2>12. ASSUME NEW k \in 1 .. Occupancy'
           PROVE  buff'[SlotOf(k)'] = sent'[Len(received') + k]
      <3>1. k \in 1 .. Occupancy + 1 /\ buff' = buff /\ received' = received
        BY <2>9
      <3>2. CASE k = Occupancy + 1
        <4>1. SlotOf(k)' = in
          BY <3>1, <3>2, <2>9
        <4>2. sent'[Len(received') + k] = item
          BY <3>1, <3>2, <2>2, <2>9, <2>10, SMTT(30)
        <4>3. QED
          BY <4>1, <4>2, <3>1, <2>6
      <3>3. CASE k \in 1 .. Occupancy
        <4>1. SlotOf(k)' = SlotOf(k)
          BY <3>1, <2>9
        <4>2. sent'[Len(received') + k] = sent[Len(received) + k]
          BY <3>1, <3>3, <2>2, <2>9, <2>10
        <4>3. QED
          BY <4>1, <4>2, <3>1, <3>3, <2>10
      <3>4. k = Occupancy + 1 \/ k \in 1 .. Occupancy
        BY <3>1, <2>9
      <3>5. QED
        BY <3>2, <3>3, <3>4
    <2>13. QED
      BY <2>7, <2>8, <2>11, <2>12 DEF UnreadItemsKept
  <1>5. CASE WrapIn
    <2> USE <1>5 DEF WrapIn
    <2>1. in' = Home(in) /\ Home(in) \in Slots /\ Home(in)' = Home(in)
      BY Wrapped DEF Home, Slots
    <2>2. LocalsOK'
      BY DEF IInv, LocalsOK, Points, Threads
    <2>3. IndicesInArray'
      BY <2>1 DEF IInv, LocalsOK, IndicesInArray, Threads, Slots
    <2>4. ~raced => TestsStayTrue'
      BY <2>1 DEF IInv, LocalsOK, TestsStayTrue, Threads
    <2>5. ~raced => Prefix'
      BY DEF IInv, Prefix
    <2>6. ~raced => UnreadItemsKept'
      BY <2>1 DEF IInv, UnreadItemsKept, Occupancy, SlotOf
    <2>7. QED
      BY <2>2, <2>3, <2>4, <2>5, <2>6 DEF IInv
  <1>6. QED
    BY <1>1, <1>2, <1>3, <1>4, <1>5 DEF Producer

(* SeeItem establishes the test, BumpOut takes the first item, WrapOut     *)
(* changes nothing.                                                        *)
LEMMA ConsumerStep == IInv /\ Consumer => IInv'
  <1> SUFFICES ASSUME IInv, Consumer PROVE IInv'
    OBVIOUS
  <1> USE AtomicAssumption, Known DEF Goto, shared
  <1>1. CASE Pin("C", "empty") \/ ConsumerReturns
    <2> USE <1>1 DEF Pin, ConsumerReturns
    <2>1. LocalsOK'
      BY DEF IInv, LocalsOK, Points, Threads
    <2>2. IndicesInArray'
      BY DEF IInv, LocalsOK, IndicesInArray, Threads
    <2>3. ~raced' => TestsStayTrue'
      BY DEF IInv, LocalsOK, TestsStayTrue, Threads, Home
    <2>4. QED
      BY <2>1, <2>2, <2>3, QuietStep DEF IInv
  <1>2. CASE SeeItem
    <2> USE <1>2 DEF SeeItem
    <2>1. LocalsOK'
      BY DEF IInv, LocalsOK, Points, Threads
    <2>2. IndicesInArray'
      BY DEF IInv, LocalsOK, IndicesInArray, Threads
    <2>3. ~raced' => ~raced /\ Home(in) # out
      BY DEF IInv, LocalsOK, Home
    <2>4. ~raced' => TestsStayTrue'
      BY <2>3 DEF IInv, LocalsOK, TestsStayTrue, Threads, Home
    <2>5. QED
      BY <2>1, <2>2, <2>3, <2>4, QuietStep DEF IInv
  <1>3. CASE ReadSlot
    <2> USE <1>3 DEF ReadSlot
    <2>1. out \in Slots /\ buff[out] \in Items \cup {Unwritten}
      BY DEF IInv, LocalsOK
    <2>2. LocalsOK'
      BY <2>1 DEF IInv, LocalsOK, Points, Threads
    <2>3. IndicesInArray'
      BY DEF IInv, LocalsOK, IndicesInArray, Threads
    <2>4. ~raced' => TestsStayTrue'
      BY DEF IInv, LocalsOK, TestsStayTrue, Threads, Home
    <2>5. QED
      BY <2>2, <2>3, <2>4, QuietStep DEF IInv
  <1>4. CASE BumpOut
    <2> USE <1>4 DEF BumpOut
    <2>1. out \in Slots /\ Home(out) = out /\ out + 1 \in 0 .. BUFF_MAX
          /\ w \in Items \cup {Unwritten}
      BY InSlots DEF IInv, LocalsOK, Threads
    <2>2. /\ received' \in Seq(Items \cup {Unwritten})
          /\ Len(received') = Len(received) + 1
          /\ received'[Len(received) + 1] = w
          /\ \A k \in 1 .. Len(received) : received'[k] = received[k]
      BY <2>1
    <2>3. LocalsOK'
      BY <2>1, <2>2 DEF IInv, LocalsOK, Points, Threads
    <2>4. IndicesInArray'
      BY <2>1 DEF IInv, LocalsOK, IndicesInArray, Threads
    <2>5. SUFFICES ASSUME ~raced PROVE TestsStayTrue' /\ Prefix' /\ UnreadItemsKept'
      BY <2>3, <2>4 DEF IInv
    <2>6. Home(in) # out /\ w = buff[out]
      BY <2>5 DEF IInv, TestsStayTrue
    <2>7. /\ Home(in) \in Slots /\ Home(in)' = Home(in)
          /\ Home(out)' = (IF out + 1 = BUFF_MAX THEN 0 ELSE out + 1)
      BY <2>1, Wrapped DEF Home
    <2>8. TestsStayTrue'
      <3>1. pc' = [pc EXCEPT !["C"] = "wrap"] /\ pc["C"] = "bump"
        OBVIOUS
      <3>2. pc'["P"] = pc["P"] /\ pc'["C"] = "wrap"
        BY <3>1 DEF IInv, LocalsOK, Threads
      <3>3. pc["P"] \in {"write", "bump"} => Home(in + 1)' # Home(out)'
        BY <2>1, <2>5, <2>6, <2>7 DEF Home
      <3>4. QED
        BY <2>5, <3>2, <3>3 DEF IInv, TestsStayTrue
    <2>9. Occupancy \in Nat /\ Occupancy >= 1 /\ Occupancy' = Occupancy - 1
      <3> DEFINE i == Home(in)
                 j == Home(out)'
      <3>1. i \in 0 .. BUFF_MAX - 1 /\ out \in 0 .. BUFF_MAX - 1 /\ i # out
            /\ j = (IF out + 1 = BUFF_MAX THEN 0 ELSE out + 1)
        BY <2>1, <2>6, <2>7 DEF Slots
      <3>2. /\ Occupancy = (IF i >= out THEN i - out ELSE i - out + BUFF_MAX)
            /\ Occupancy' = (IF i >= j THEN i - j ELSE i - j + BUFF_MAX)
        BY <2>1, <2>7 DEF Occupancy
      <3> HIDE DEF i, j
      <3>3. QED
        BY <3>1, <3>2
    <2>10. SlotOf(1) = out /\ \A k \in 1 .. Occupancy - 1 : SlotOf(k)' = SlotOf(k + 1)
      <3>1. SlotOf(1) = out
        BY <2>1 DEF SlotOf, Slots
      <3>2. ASSUME NEW k \in 1 .. Occupancy - 1 PROVE SlotOf(k)' = SlotOf(k + 1)
        <4> DEFINE j == Home(out)'
        <4>1. out \in 0 .. BUFF_MAX - 1 /\ j = (IF out + 1 = BUFF_MAX THEN 0 ELSE out + 1)
              /\ k \in 1 .. BUFF_MAX - 2
          BY <2>1, <2>7, <2>9, OccupiedSlots DEF Slots
        <4>2. /\ SlotOf(k)' = (IF j + k - 1 < BUFF_MAX THEN j + k - 1 ELSE j + k - 1 - BUFF_MAX)
              /\ SlotOf(k + 1) = (IF out + (k + 1) - 1 < BUFF_MAX THEN out + (k + 1) - 1
                                  ELSE out + (k + 1) - 1 - BUFF_MAX)
          BY <2>1 DEF SlotOf
        <4> HIDE DEF j
        <4>3. QED
          BY <4>1, <4>2
      <3>3. QED
        BY <3>1, <3>2
    <2>11. /\ Len(sent) = Len(received) + Occupancy /\ Len(received) \in Nat
           /\ \A k \in 1 .. Occupancy : buff[SlotOf(k)] = sent[Len(received) + k]
      BY <2>5, <2>9 DEF IInv, UnreadItemsKept
    <2>12. w = sent[Len(received) + 1] /\ Len(received) < Len(sent)
      BY <2>6, <2>9, <2>10, <2>11
    <2>13. Prefix'
      BY <2>2, <2>5, <2>11, <2>12 DEF IInv, Prefix
    <2>14. UnreadItemsKept'
      <3>1. Len(sent') - Len(received') = Occupancy'
        BY <2>2, <2>9, <2>11
      <3>2. ASSUME NEW k \in 1 .. Occupancy'
            PROVE  buff'[SlotOf(k)'] = sent'[Len(received') + k]
        <4>1. k + 1 \in 1 .. Occupancy /\ SlotOf(k)' = SlotOf(k + 1)
          BY <2>9, <2>10
        <4>2. buff[SlotOf(k + 1)] = sent[Len(received) + (k + 1)]
          BY <4>1, <2>11
        <4>3. Len(received') + k = Len(received) + (k + 1)
          BY <2>2, <2>9, <2>11
        <4>4. QED
          BY <4>1, <4>2, <4>3
      <3>3. QED
        BY <3>1, <3>2 DEF UnreadItemsKept
    <2>15. QED
      BY <2>8, <2>13, <2>14
  <1>5. CASE WrapOut
    <2> USE <1>5 DEF WrapOut
    <2>1. out' = Home(out) /\ Home(out) \in Slots /\ Home(out)' = Home(out)
      BY Wrapped DEF Home, Slots
    <2>2. LocalsOK'
      BY DEF IInv, LocalsOK, Points, Threads
    <2>3. IndicesInArray'
      BY <2>1 DEF IInv, LocalsOK, IndicesInArray, Threads, Slots
    <2>4. ~raced => TestsStayTrue'
      BY <2>1 DEF IInv, LocalsOK, TestsStayTrue, Threads
    <2>5. ~raced => Prefix'
      BY DEF IInv, Prefix
    <2>6. ~raced => UnreadItemsKept'
      BY <2>1 DEF IInv, UnreadItemsKept, Occupancy, SlotOf
    <2>7. QED
      BY <2>2, <2>3, <2>4, <2>5, <2>6 DEF IInv
  <1>6. QED
    BY <1>1, <1>2, <1>3, <1>4, <1>5 DEF Consumer

(* IInv holds in every reachable state.                                    *)
THEOREM Invariance == Spec => []IInv
  <1>1. IInv /\ [Next]_vars => IInv'
    <2> SUFFICES ASSUME IInv, [Next]_vars PROVE IInv'
      OBVIOUS
    <2>1. CASE UNCHANGED vars
      <3>1. UNCHANGED <<main, pc, in, out, buff, item, w, sent, received, raced>>
        BY <2>1 DEF vars, shared
      <3>2. QED
        BY <3>1 DEF IInv, LocalsOK, IndicesInArray, TestsStayTrue, Prefix, UnreadItemsKept,
                    Occupancy, SlotOf, Home
    <2>2. QED
      BY <2>1, MainStep, ProducerStep, ConsumerStep DEF Next
  <1>2. QED
    BY <1>1, InitIInv, PTL DEF Spec

(* Raced or not, no thread writes or reads a slot outside the array, though *)
(* between fetch_add and the modulo an index does stand at BUFF_MAX.        *)
THEOREM IndicesSafe == Spec => []IndicesInArray
  BY Invariance, PTL DEF IInv

(* Unless a spin was left on an index caught at BUFF_MAX, what is received  *)
(* was sent, in order, and no unread slot is overwritten.                   *)
THEOREM QueueUnlessRaced == Spec => []FifoUnlessRaced
  <1>1. IInv => FifoUnlessRaced
    BY DEF IInv, FifoUnlessRaced
  <1>2. QED
    BY <1>1, Invariance, PTL

-----------------------------------------------------------------------------
(* Refinement: unless raced the ring implements BoundedFifo with           *)
(* BUFF_MAX - 1 places.  An item is put by the first half of the           *)
(* increment of in and taken by that of out; the wraps change nothing.     *)

(* The unread items, read off the slots.                                   *)
Contents == [k \in 1 .. Occupancy |-> buff[SlotOf(k)]]

Fifo == INSTANCE BoundedFifo WITH
  Capacity <- BUFF_MAX - 1, queue <- Contents, delivered <- received

(* The ring is empty at first, and every step up to a race puts an item,   *)
(* takes the first one, or leaves the queue as it is.                      *)
ImplementsFifoUnlessRaced ==
  /\ Fifo!Init
  /\ [][~raced' => Fifo!Next \/ UNCHANGED Fifo!vars]_vars

(* The slots hold what was sent and not received.                          *)
ContentsSent ==
  ~raced =>
    /\ Occupancy = Len(sent) - Len(received) /\ Len(sent) - Len(received) \in 0 .. BUFF_MAX - 1
    /\ Contents = [k \in 1 .. Len(sent) - Len(received) |-> sent[Len(received) + k]]

(* The content of the invariant.                                           *)
LEMMA ContentsAreSent == IInv => ContentsSent
  <1> SUFFICES ASSUME IInv, ~raced PROVE ContentsSent
    BY DEF ContentsSent
  <1>1. Len(sent) - Len(received) = Occupancy /\ \A k \in 1 .. Occupancy : buff[SlotOf(k)] = sent[Len(received) + k]
    BY DEF IInv, UnreadItemsKept
  <1>2. Occupancy \in 0 .. BUFF_MAX - 1
    BY Known, OccupiedSlots
  <1>3. QED
    BY <1>1, <1>2 DEF ContentsSent, Contents

(* A race is not undone, and only the two increments touch the histories.  *)
LEMMA StepsOfRing ==
  ASSUME [Next]_vars
  PROVE  /\ raced => raced'
         /\ UNCHANGED <<sent, received>> \/ BumpIn \/ BumpOut
  <1>1. CASE UNCHANGED vars
    BY <1>1 DEF vars, shared
  <1>2. CASE Main \/ Pin("P", "produce") \/ Pin("C", "empty") \/ ProduceItem \/ ProducerReturns
             \/ ReadSlot \/ ConsumerReturns
    BY <1>2 DEF Main, Create, Join, Pin, ProduceItem, ProducerReturns, ReadSlot, ConsumerReturns, shared
  <1>3. CASE WriteSlot \/ WrapIn \/ WrapOut
    BY <1>3 DEF WriteSlot, WrapIn, WrapOut
  <1>4. CASE SeeSpace \/ SeeItem
    <2>1. UNCHANGED <<sent, received>>
      BY <1>4 DEF SeeSpace, SeeItem
    <2>2. raced => raced'
      BY <1>4, Zenon DEF SeeSpace, SeeItem
    <2>3. QED
      BY <2>1, <2>2
  <1>5. CASE BumpIn \/ BumpOut
    BY <1>5 DEF BumpIn, BumpOut
  <1>6. QED
    BY <1>1, <1>2, <1>3, <1>4, <1>5 DEF Next, Producer, Consumer

(* The queue grows at its end.                                             *)
LEMMA BumpPuts ==
  ASSUME IInv, ContentsSent, ContentsSent', ~raced, ~raced', BumpIn
  PROVE  Fifo!Next
  <1> DEFINE m == Len(sent)
             r == Len(received)
  <1>1. sent' = Append(sent, item) /\ received' = received /\ pc["P"] = "bump"
    BY DEF BumpIn, Goto
  <1>2. sent \in Seq(Items) /\ item \in Items /\ m \in Nat /\ r \in Nat /\ BUFF_MAX \in Nat
    BY <1>1, AtomicAssumption DEF IInv, LocalsOK
  <1>3. Len(sent') = m + 1 /\ sent'[m + 1] = item /\ \A k \in 1 .. m : sent'[k] = sent[k]
    BY <1>1, <1>2
  <1>4. m - r \in Nat /\ m - r < BUFF_MAX - 1
    <2>1. m - r \in 0 .. BUFF_MAX - 1 /\ (m + 1) - r \in 0 .. BUFF_MAX - 1
      BY <1>1, <1>3 DEF ContentsSent
    <2> HIDE DEF m, r
    <2>2. QED
      BY <1>2, <2>1
  <1>5. /\ Contents = [k \in 1 .. m - r |-> sent[r + k]]
        /\ Contents' = [k \in 1 .. (m + 1) - r |-> sent'[r + k]]
    BY <1>1, <1>3 DEF ContentsSent
  <1> HIDE DEF m, r
  <1>6. ASSUME NEW k \in 1 .. m - r PROVE sent[r + k] \in Items /\ sent'[r + k] = sent[r + k]
    <2>1. r + k \in 1 .. m
      BY <1>2
    <2>2. QED
      BY <1>2, <1>3, <2>1 DEF m
  <1>7. Contents \in Seq(Items) /\ Len(Contents) = m - r
    BY <1>4, <1>5, <1>6
  <1>8. Contents' = Append(Contents, item)
    <2>1. ASSUME NEW k \in 1 .. (m + 1) - r PROVE sent'[r + k] = Append(Contents, item)[k]
      <3>1. CASE k \in 1 .. m - r
        BY <1>2, <1>5, <1>6, <1>7, <3>1
      <3>2. CASE k \notin 1 .. m - r
        <4>1. k = (m - r) + 1 /\ r + k = m + 1
          BY <1>2, <1>4, <3>2
        <4>2. QED
          BY <1>2, <1>3, <1>7, <4>1
      <3>3. QED
        BY <3>1, <3>2
    <2>2. Append(Contents, item) \in Seq(Items) /\ Len(Append(Contents, item)) = (m + 1) - r
      BY <1>2, <1>4, <1>7
    <2>3. Append(Contents, item) = [k \in 1 .. (m + 1) - r |-> Append(Contents, item)[k]]
      <3>1. PICK u \in Seq(Items) : u = Append(Contents, item)
        BY <2>2
      <3>2. u = [k \in 1 .. Len(u) |-> u[k]]
        OBVIOUS
      <3>3. Len(u) = (m + 1) - r
        BY <2>2, <3>1
      <3>4. QED
        BY <3>1, <3>2, <3>3
    <2>4. QED
      BY <1>5, <2>1, <2>3
  <1>9. Fifo!Put(item)
    BY <1>1, <1>4, <1>7, <1>8 DEF Fifo!Put
  <1>10. QED
    BY <1>2, <1>9 DEF Fifo!Next

(* Its first item is delivered.                                            *)
LEMMA BumpTakes ==
  ASSUME IInv, IInv', ContentsSent, ContentsSent', ~raced, ~raced', BumpOut
  PROVE  Fifo!Next
  <1> DEFINE m == Len(sent)
             r == Len(received)
             V == Items \cup {Unwritten}
  <1>1. received' = Append(received, w) /\ sent' = sent
    BY DEF BumpOut
  <1>2. sent \in Seq(V) /\ received \in Seq(V) /\ w \in V /\ m \in Nat /\ r \in Nat /\ BUFF_MAX \in Nat
    BY AtomicAssumption DEF IInv, LocalsOK
  <1>3. Len(received') = r + 1 /\ received'[r + 1] = w
    BY <1>1, <1>2
  <1>4. m - r > 0 /\ w = sent[r + 1]
    <2>1. Len(received') <= Len(sent') /\ \A k \in 1 .. Len(received') : received'[k] = sent'[k]
      BY DEF IInv, Prefix
    <2>2. r + 1 <= m /\ r + 1 \in 1 .. r + 1
      BY <1>1, <1>2, <1>3, <2>1
    <2>3. QED
      BY <1>1, <1>2, <1>3, <2>1, <2>2
  <1>5. /\ Contents = [k \in 1 .. m - r |-> sent[r + k]]
        /\ Contents' = [k \in 1 .. m - (r + 1) |-> sent[(r + 1) + k]]
    BY <1>1, <1>3 DEF ContentsSent
  <1> HIDE DEF m, r, V
  <1>6. ASSUME NEW k \in 1 .. m - r PROVE sent[r + k] \in V
    <2>1. r + k \in 1 .. m
      BY <1>2
    <2>2. QED
      BY <1>2, <2>1 DEF m
  <1>7. Contents \in Seq(V) /\ Len(Contents) = m - r
    BY <1>2, <1>4, <1>5, <1>6
  <1>8. Contents # << >> /\ Head(Contents) = w
    <2>1. 1 \in 1 .. m - r
      BY <1>2, <1>4
    <2>2. Contents[1] = w
      BY <1>4, <1>5, <2>1
    <2>3. Contents # << >>
      BY <1>4, <1>7
    <2>4. QED
      BY <1>7, <2>2, <2>3
  <1>9. Contents' = Tail(Contents)
    <2>1. /\ Tail(Contents) \in Seq(V) /\ Len(Tail(Contents)) = (m - r) - 1
          /\ \A k \in 1 .. (m - r) - 1 : Tail(Contents)[k] = Contents[k + 1]
      BY <1>7, <1>8, HeadTailProperties
    <2>2. (m - r) - 1 = m - (r + 1)
      BY <1>2
    <2>3. Tail(Contents) = [k \in 1 .. m - (r + 1) |-> Tail(Contents)[k]]
      <3>1. PICK u \in Seq(V) : u = Tail(Contents)
        BY <2>1
      <3>2. u = [k \in 1 .. Len(u) |-> u[k]]
        OBVIOUS
      <3>3. Len(u) = m - (r + 1)
        BY <2>1, <2>2, <3>1
      <3>4. QED
        BY <3>1, <3>2, <3>3
    <2>4. ASSUME NEW k \in 1 .. m - (r + 1) PROVE Tail(Contents)[k] = sent[(r + 1) + k]
      <3>1. k + 1 \in 1 .. m - r /\ r + (k + 1) = (r + 1) + k /\ k \in 1 .. (m - r) - 1
        BY <1>2
      <3>2. QED
        BY <1>5, <2>1, <3>1
    <2>5. QED
      BY <1>5, <2>3, <2>4
  <1>10. Fifo!Take
    BY <1>1, <1>8, <1>9 DEF Fifo!Take
  <1>11. QED
    BY <1>10 DEF Fifo!Next

(* As long as no spin was left on an index about to be wrapped, the ring   *)
(* of both programs is a bounded first-in first-out queue.                 *)
THEOREM Refinement == Spec => ImplementsFifoUnlessRaced
  <1>1. Init => Fifo!Init
    BY AtomicAssumption DEF Init, Fifo!Init, Contents, Occupancy, Home
  <1>2. IInv /\ IInv' /\ ContentsSent /\ ContentsSent' /\ [Next]_vars =>
          [~raced' => Fifo!Next \/ UNCHANGED Fifo!vars]_vars
    <2> SUFFICES ASSUME IInv, IInv', ContentsSent, ContentsSent', [Next]_vars, ~raced'
                 PROVE  Fifo!Next \/ UNCHANGED Fifo!vars
      OBVIOUS
    <2>1. ~raced /\ (UNCHANGED <<sent, received>> \/ BumpIn \/ BumpOut)
      BY StepsOfRing
    <2>2. CASE UNCHANGED <<sent, received>>
      <3>1. Contents' = Contents
        BY <2>1, <2>2 DEF ContentsSent
      <3>2. QED
        BY <2>2, <3>1 DEF Fifo!vars
    <2>3. QED
      BY <2>1, <2>2, BumpPuts, BumpTakes
  <1>3. QED
    BY <1>1, <1>2, ContentsAreSent, Invariance, PTL DEF Spec, ImplementsFifoUnlessRaced

=============================================================================
