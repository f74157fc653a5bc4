--------------------------- MODULE SpscRingProofs ---------------------------
(***************************************************************************)
(* Proofs about SpscRing, for every number of slots, rounds and items:     *)
(* type correctness, the inductive invariant that relates the occupied     *)
(* slots to the histories, the safety properties that follow from it, and  *)
(* the refinement of BoundedFifo.                                          *)
(***************************************************************************)
EXTENDS SpscRing, SequenceTheorems, TLAPS

(* The increment modulo BUFF_MAX of an index of the array is again one,    *)
(* and it differs from i + 1 only at the last slot.                        *)
LEMMA Next1Value ==
  ASSUME NEW i \in Slots
  PROVE  Next1(i) = (IF i + 1 = BUFF_MAX THEN 0 ELSE i + 1) /\ Next1(i) \in Slots
  BY SpscAssumption DEF Next1, Slots

(* The occupied slots are distinct slots of the array, and the slot the    *)
(* producer writes next is not one of them.                                *)
LEMMA OccupiedSlots ==
  ASSUME in \in Slots, out \in Slots
  PROVE  /\ Occupancy \in 0 .. BUFF_MAX - 1
         /\ \A k \in 1 .. Occupancy : SlotOf(k) \in Slots /\ SlotOf(k) # in
  BY SpscAssumption DEF Occupancy, SlotOf, Slots

(* Initially the ring is empty and both histories are. *)
LEMMA InitIInv == Init => IInv
  <1> SUFFICES ASSUME Init PROVE IInv
    OBVIOUS
  <1> USE SpscAssumption DEF Init
  <1>1. TypeOK
    BY DEF TypeOK, MainPoints, ProducerPoints, ConsumerPoints, Threads, Slots
  <1>2. TestsStayTrue /\ CountersAgree
    BY DEF TestsStayTrue, CountersAgree, Threads
  <1>3. FifoDelivery /\ UnreadItemsKept
    BY DEF FifoDelivery, UnreadItemsKept, Occupancy
  <1>4. QED
    BY <1>1, <1>2, <1>3 DEF IInv

(* A step of main, or of a thread that is only testing or returning,       *)
(* leaves the ring and the histories alone.                                *)
LEMMA QuietStep ==
  ASSUME IInv, UNCHANGED <<in, out, buff, sent, received>>
  PROVE  FifoDelivery' /\ UnreadItemsKept'
  BY DEF IInv, FifoDelivery, UnreadItemsKept, Occupancy, SlotOf

(* A step of main keeps the invariant.                                     *)
LEMMA MainStep == IInv /\ Main => IInv'
  <1> SUFFICES ASSUME IInv, Main PROVE IInv'
    OBVIOUS
  <1> USE DEF Main, OpenPerf, CreateProducer, CreateConsumer, JoinProducer, JoinConsumer,
              Create, Join
  <1>1. UNCHANGED <<in, out, buff, item, w, count, sent, received>>
    OBVIOUS
  <1>2. TypeOK'
    BY <1>1 DEF IInv, TypeOK, MainPoints, ProducerPoints, ConsumerPoints, Threads
  <1>3. TestsStayTrue'
    BY <1>1 DEF IInv, TypeOK, TestsStayTrue, Threads, Next1
  <1>4. CountersAgree'
    BY <1>1 DEF IInv, TypeOK, CountersAgree, Threads
  <1>5. QED
    BY <1>1, <1>2, <1>3, <1>4, QuietStep DEF IInv

(* So does a step of the producer.                                         *)
LEMMA ProducerStep == IInv /\ Producer => IInv'
  <1> SUFFICES ASSUME IInv, Producer PROVE IInv'
    OBVIOUS
  <1> USE SpscAssumption DEF Goto
  <1>1. CASE Pin("P", "produce") \/ ProduceItem \/ SeeSpace \/ ProducerReturns
    <2> USE <1>1 DEF Pin, ProduceItem, SeeSpace, ProducerReturns
    <2>1. TypeOK'
      BY DEF IInv, TypeOK, MainPoints, ProducerPoints, ConsumerPoints, Threads
    <2>2. TestsStayTrue'
      BY DEF IInv, TypeOK, TestsStayTrue, Threads, Next1
    <2>3. CountersAgree'
      BY DEF IInv, TypeOK, CountersAgree, Threads, Alive
    <2>4. QED
      BY <2>1, <2>2, <2>3, QuietStep DEF IInv
  <1>2. CASE WriteSlot
    <2> USE <1>2 DEF WriteSlot
    <2>1. in \in Slots /\ out \in Slots /\ item \in Items
      BY DEF IInv, TypeOK, CountersAgree
    <2>2. TypeOK'
      BY DEF IInv, TypeOK, MainPoints, ProducerPoints, ConsumerPoints, Threads
    <2>3. TestsStayTrue'
      BY <2>1 DEF IInv, TypeOK, TestsStayTrue, Threads, Next1
    <2>4. CountersAgree'
      BY DEF IInv, TypeOK, CountersAgree, Threads, Alive
    <2>5. UnreadItemsKept'
      BY <2>1, OccupiedSlots DEF IInv, TypeOK, UnreadItemsKept, Occupancy, SlotOf
    <2>6. FifoDelivery'
      BY DEF IInv, FifoDelivery
    <2>7. QED
      BY <2>2, <2>3, <2>4, <2>5, <2>6 DEF IInv
  <1>3. CASE PublishIn
    <2> USE <1>3 DEF PublishIn
    <2>1. /\ in \in Slots /\ out \in Slots /\ item \in Items
          /\ Next1(in) # out /\ buff[in] = item
          /\ sent \in Seq(Items) /\ received \in Seq(Items \cup {Unwritten})
      BY DEF IInv, TypeOK, CountersAgree, TestsStayTrue
    <2>2. Next1(in) = (IF in + 1 = BUFF_MAX THEN 0 ELSE in + 1) /\ Next1(in) \in Slots
      BY <2>1, Next1Value
    <2>3. /\ sent' \in Seq(Items) /\ Len(sent') = Len(sent) + 1
          /\ sent'[Len(sent) + 1] = item
          /\ \A k \in 1 .. Len(sent) : sent'[k] = sent[k]
      BY <2>1
    <2>4. /\ Occupancy' = Occupancy + 1
          /\ SlotOf(Occupancy + 1) = in
          /\ \A k \in 1 .. Occupancy : SlotOf(k)' = SlotOf(k)
      BY <2>1, <2>2 DEF Occupancy, SlotOf, Slots
    <2>5. TypeOK'
      BY <2>2, <2>3 DEF IInv, TypeOK, CountersAgree, MainPoints, ProducerPoints,
                        ConsumerPoints, Threads
    <2>6. TestsStayTrue'
      BY <2>1, <2>2 DEF IInv, TypeOK, TestsStayTrue, Threads
    <2>7. CountersAgree'
      BY <2>1, <2>3 DEF IInv, TypeOK, CountersAgree, Threads, Alive
    <2>8. FifoDelivery'
      BY <2>1, <2>3 DEF IInv, FifoDelivery
    <2>9. UnreadItemsKept'
      <3>1. Len(sent') - Len(received') = Occupancy'
        BY <2>1, <2>3, <2>4 DEF IInv, UnreadItemsKept
      <3>2. ASSUME NEW k \in 1 .. Occupancy'
            PROVE  buff'[SlotOf(k)'] = sent'[Len(received') + k]
        <4>1. CASE k = Occupancy + 1
          BY <4>1, <2>1, <2>3, <2>4 DEF IInv, UnreadItemsKept, SlotOf
        <4>2. CASE k \in 1 .. Occupancy
          BY <4>2, <2>1, <2>3, <2>4 DEF IInv, UnreadItemsKept
        <4>3. Occupancy \in Nat /\ k \in 1 .. Occupancy + 1
          BY <2>1, <2>4, OccupiedSlots
        <4>4. k = Occupancy + 1 \/ k \in 1 .. Occupancy
          BY <4>3
        <4>5. QED
          BY <4>1, <4>2, <4>4
      <3>3. QED
        BY <3>1, <3>2 DEF UnreadItemsKept
    <2>10. QED
      BY <2>5, <2>6, <2>7, <2>8, <2>9 DEF IInv
  <1>4. QED
    BY <1>1, <1>2, <1>3 DEF Producer

(* So does a step of the consumer.                                         *)
LEMMA ConsumerStep == IInv /\ Consumer => IInv'
  <1> SUFFICES ASSUME IInv, Consumer PROVE IInv'
    OBVIOUS
  <1> USE SpscAssumption DEF Goto
  <1>1. CASE Pin("C", "empty") \/ SeeItem \/ ReadSlot \/ ConsumerReturns
    <2> USE <1>1 DEF Pin, SeeItem, ReadSlot, ConsumerReturns
    <2>1. TypeOK'
      BY DEF IInv, TypeOK, MainPoints, ProducerPoints, ConsumerPoints, Threads
    <2>2. TestsStayTrue'
      BY DEF IInv, TypeOK, TestsStayTrue, Threads, Next1
    <2>3. CountersAgree'
      BY DEF IInv, TypeOK, CountersAgree, Threads, Alive
    <2>4. QED
      BY <2>1, <2>2, <2>3, QuietStep DEF IInv
  <1>2. CASE ReleaseOut
    <2> USE <1>2 DEF ReleaseOut
    <2>1. /\ in \in Slots /\ out \in Slots /\ in # out /\ w = buff[out]
          /\ w \in Items \cup {Unwritten}
          /\ sent \in Seq(Items) /\ received \in Seq(Items \cup {Unwritten})
      BY DEF IInv, TypeOK, TestsStayTrue
    <2>2. Next1(out) = (IF out + 1 = BUFF_MAX THEN 0 ELSE out + 1) /\ Next1(out) \in Slots
      BY <2>1, Next1Value
    <2>3. /\ received' \in Seq(Items \cup {Unwritten})
          /\ Len(received') = Len(received) + 1
          /\ received'[Len(received) + 1] = w
          /\ \A k \in 1 .. Len(received) : received'[k] = received[k]
      BY <2>1
    <2>4. /\ Occupancy >= 1 /\ Occupancy' = Occupancy - 1
          /\ SlotOf(1) = out
          /\ \A k \in 1 .. Occupancy - 1 : SlotOf(k)' = SlotOf(k + 1)
      BY <2>1, <2>2 DEF Occupancy, SlotOf, Slots
    <2>5. TypeOK'
      BY <2>2, <2>3 DEF IInv, TypeOK, CountersAgree, MainPoints, ProducerPoints,
                        ConsumerPoints, Threads
    <2>6. TestsStayTrue'
      BY <2>1, <2>2, Next1Value, SMTT(30) DEF IInv, TypeOK, TestsStayTrue, Threads, Slots
    <2>7. CountersAgree'
      BY <2>1, <2>3 DEF IInv, TypeOK, CountersAgree, Threads, Alive
    <2>8. w = sent[Len(received) + 1] /\ Len(received) < Len(sent)
      BY <2>1, <2>4, OccupiedSlots DEF IInv, UnreadItemsKept
    <2>9. FifoDelivery'
      BY <2>1, <2>3, <2>8 DEF IInv, FifoDelivery
    <2>10. UnreadItemsKept'
      <3>1. Len(sent') - Len(received') = Occupancy'
        BY <2>1, <2>3, <2>4, OccupiedSlots DEF IInv, UnreadItemsKept
      <3>2. ASSUME NEW k \in 1 .. Occupancy'
            PROVE  buff'[SlotOf(k)'] = sent'[Len(received') + k]
        <4>1. k + 1 \in 1 .. Occupancy /\ SlotOf(k)' = SlotOf(k + 1)
          BY <2>1, <2>4, OccupiedSlots
        <4>2. buff[SlotOf(k + 1)] = sent[Len(received) + (k + 1)]
          BY <4>1 DEF IInv, UnreadItemsKept
        <4>3. QED
          BY <4>1, <4>2, <2>1, <2>3
      <3>3. QED
        BY <3>1, <3>2 DEF UnreadItemsKept
    <2>11. QED
      BY <2>5, <2>6, <2>7, <2>9, <2>10 DEF IInv
  <1>3. QED
    BY <1>1, <1>2 DEF Consumer

(* IInv holds in every reachable state. *)
THEOREM Invariance == Spec => []IInv
  <1>1. IInv /\ [Next]_vars => IInv'
    <2> SUFFICES ASSUME IInv, [Next]_vars PROVE IInv'
      OBVIOUS
    <2>1. CASE UNCHANGED vars
      BY <2>1 DEF vars, IInv, TypeOK, TestsStayTrue, CountersAgree, FifoDelivery,
                  UnreadItemsKept, Occupancy, SlotOf, Next1
    <2>2. QED
      BY <2>1, MainStep, ProducerStep, ConsumerStep DEF Next
  <1>2. QED
    BY <1>1, InitIInv, PTL DEF Spec

(* The indices stay inside the array and every variable keeps its type. *)
THEOREM TypeCorrect == Spec => []TypeOK
  BY Invariance, PTL DEF IInv

(* Received items are a prefix of the sent ones, for every ring size and   *)
(* every number of rounds.                                                 *)
THEOREM FifoSafety == Spec => []FifoDelivery
  BY Invariance, PTL DEF IInv

(* No unread slot is ever overwritten. *)
THEOREM NoOverwrite == Spec => []UnreadItemsKept
  BY Invariance, PTL DEF IInv

(* The two threads are never at the same slot, though no lock is held. *)
THEOREM RaceFreedom == Spec => []SlotRaceFree
  <1>1. IInv => SlotRaceFree
    BY DEF IInv, TestsStayTrue, SlotRaceFree
  <1>2. QED
    BY <1>1, Invariance, PTL

(* When main returns, every thread that existed has moved its ITER items:  *)
(* main waits for ever over a thread whose partner was never created,      *)
(* unless there is nothing to move or it fits into the ring.               *)
THEOREM AllMoved == Spec => []NothingLeftBehind
  <1>1. IInv => NothingLeftBehind
    <2> SUFFICES ASSUME IInv, main = "done" PROVE NothingLeftBehind
      BY DEF NothingLeftBehind
    <2>1. /\ pc["P"] # "failed" => Len(sent) = ITER
          /\ pc["C"] # "failed" => Len(received) = ITER
          /\ pc["P"] = "failed" => Len(sent) = 0
          /\ pc["C"] = "failed" => Len(received) = 0
      BY DEF IInv, CountersAgree, Threads
    <2>2. /\ sent \in Seq(Items) /\ received \in Seq(Items \cup {Unwritten})
          /\ Len(sent) <= ITER /\ ITER \in Nat
      BY SpscAssumption DEF IInv, TypeOK, CountersAgree, Threads
    <2>3. Len(received) <= Len(sent) /\ \A k \in 1 .. Len(received) : received[k] = sent[k]
      BY DEF IInv, FifoDelivery
    <2>4. pc["C"] # "failed" => Len(sent) = ITER /\ received = sent
      <3> SUFFICES ASSUME pc["C"] # "failed" PROVE Len(sent) = ITER /\ received = sent
        OBVIOUS
      <3>1. Len(sent) = ITER /\ Len(received) = ITER
        BY <2>1, <2>2, <2>3
      <3>2. QED
        BY <2>2, <2>3, <3>1
    <2>5. pc["C"] = "failed" => received = << >> /\ Len(sent) < BUFF_MAX
      <3> SUFFICES ASSUME pc["C"] = "failed" PROVE received = << >> /\ Len(sent) < BUFF_MAX
        OBVIOUS
      <3>1. Len(sent) - Len(received) = Occupancy /\ Occupancy \in 0 .. BUFF_MAX - 1
        BY OccupiedSlots DEF IInv, TypeOK, UnreadItemsKept
      <3>2. QED
        BY <2>1, <2>2, <3>1, SpscAssumption
    <2>6. QED
      BY <2>1, <2>2, <2>4, <2>5 DEF NothingLeftBehind
  <1>2. QED
    BY <1>1, Invariance, PTL

-----------------------------------------------------------------------------
(* Refinement: SpscRing implements BoundedFifo with capacity BUFF_MAX - 1,  *)
(* the queue being read off the occupied slots.                             *)

(* The initial states are those of an empty queue.                         *)
LEMMA InitFifo == Init => Fifo!Init
  BY SpscAssumption DEF Init, Fifo!Init, Contents, Occupancy

(* Publishing in appends the item the producer wrote to the queue. *)
LEMMA PublishIsPut == IInv /\ PublishIn => \E i \in Items : Fifo!Put(i)
  <1> SUFFICES ASSUME IInv, PublishIn PROVE Fifo!Put(item) /\ item \in Items
    OBVIOUS
  <1> USE SpscAssumption DEF PublishIn, Goto
  <1>1. in \in Slots /\ out \in Slots /\ item \in Items
        /\ Next1(in) # out /\ buff[in] = item
    BY DEF IInv, TypeOK, CountersAgree, TestsStayTrue
  <1>2. Next1(in) = (IF in + 1 = BUFF_MAX THEN 0 ELSE in + 1)
    BY <1>1, Next1Value
  <1>3. /\ Occupancy \in Nat /\ Occupancy < BUFF_MAX - 1
        /\ Occupancy' = Occupancy + 1
        /\ SlotOf(Occupancy + 1) = in
        /\ \A k \in 1 .. Occupancy + 1 : SlotOf(k)' = SlotOf(k)
    BY <1>1, <1>2 DEF Occupancy, SlotOf, Slots
  <1>4. Contents' = [k \in 1 .. Occupancy + 1 |-> buff[SlotOf(k)]]
    BY <1>3 DEF Contents
  <1>5. Contents' = Append(Contents, item)
    BY <1>1, <1>3, <1>4 DEF Contents
  <1>6. Len(Contents) = Occupancy
    BY <1>3 DEF Contents
  <1>7. QED
    BY <1>1, <1>3, <1>5, <1>6 DEF Fifo!Put

(* Releasing out delivers the head of the queue. *)
LEMMA ReleaseIsTake == IInv /\ ReleaseOut => Fifo!Take
  <1> SUFFICES ASSUME IInv, ReleaseOut PROVE Fifo!Take
    OBVIOUS
  <1> USE SpscAssumption DEF ReleaseOut, Goto
  <1>1. in \in Slots /\ out \in Slots /\ in # out /\ w = buff[out]
    BY DEF IInv, TypeOK, TestsStayTrue
  <1>2. Next1(out) = (IF out + 1 = BUFF_MAX THEN 0 ELSE out + 1)
    BY <1>1, Next1Value
  <1>3. /\ Occupancy \in Nat /\ Occupancy >= 1
        /\ Occupancy' = Occupancy - 1
        /\ SlotOf(1) = out
        /\ \A k \in 1 .. Occupancy - 1 : SlotOf(k)' = SlotOf(k + 1)
    BY <1>1, <1>2 DEF Occupancy, SlotOf, Slots
  <1>4. Contents' = [k \in 1 .. Occupancy - 1 |-> buff[SlotOf(k + 1)]]
    BY <1>3 DEF Contents
  <1>5. Contents \in Seq(Items \cup {Unwritten}) /\ Len(Contents) = Occupancy
    <2>1. \A k \in 1 .. Occupancy : buff[SlotOf(k)] \in Items \cup {Unwritten}
      BY <1>1, OccupiedSlots DEF IInv, TypeOK
    <2>2. Contents \in [1 .. Occupancy -> Items \cup {Unwritten}]
      BY <2>1 DEF Contents
    <2>3. QED
      BY <1>3, <2>2
  <1>6. /\ Contents # << >> /\ Tail(Contents) \in Seq(Items \cup {Unwritten})
        /\ Len(Tail(Contents)) = Occupancy - 1
        /\ \A k \in 1 .. Occupancy - 1 : Tail(Contents)[k] = Contents[k + 1]
    BY <1>3, <1>5, HeadTailProperties
  <1>7. \A k \in 1 .. Occupancy - 1 :
           /\ Contents[k + 1] = buff[SlotOf(k + 1)]
           /\ buff[SlotOf(k + 1)] \in Items \cup {Unwritten}
    BY <1>1, <1>3, OccupiedSlots DEF Contents, IInv, TypeOK
  <1>8. Contents' = Tail(Contents)
    <2>1. Contents' \in Seq(Items \cup {Unwritten}) /\ Len(Contents') = Occupancy - 1
      <3>1. Contents' \in [1 .. Occupancy - 1 -> Items \cup {Unwritten}]
        BY <1>4, <1>7
      <3>2. QED
        BY <1>3, <3>1
    <2>2. \A k \in 1 .. Occupancy - 1 : Contents'[k] = Tail(Contents)[k]
      BY <1>4, <1>6, <1>7
    <2>3. QED
      BY <1>6, <2>1, <2>2, SeqEqual
  <1>9. Head(Contents) = w /\ Contents # << >>
    BY <1>1, <1>3, <1>5 DEF Contents
  <1>10. QED
    BY <1>8, <1>9 DEF Fifo!Take

(* Every other step is invisible to the queue: the slot the producer       *)
(* writes is not an occupied one.                                          *)
LEMMA OtherStepsStutter ==
  ASSUME IInv, [Next]_vars, ~PublishIn, ~ReleaseOut
  PROVE  UNCHANGED Fifo!vars
  <1>1. in' = in /\ out' = out /\ received' = received
    BY DEF Next, Main, Producer, Consumer, OpenPerf, CreateProducer, CreateConsumer, Create,
           JoinProducer, JoinConsumer, Join, Pin, ProduceItem, SeeSpace, WriteSlot,
           ProducerReturns, SeeItem, ReadSlot, ConsumerReturns, vars
  <1>2. buff' = buff \/ buff' = [buff EXCEPT ![in] = item]
    BY DEF Next, Main, Producer, Consumer, OpenPerf, CreateProducer, CreateConsumer, Create,
           JoinProducer, JoinConsumer, Join, Pin, ProduceItem, SeeSpace, WriteSlot,
           ProducerReturns, SeeItem, ReadSlot, ConsumerReturns, vars
  <1>3. in \in Slots /\ out \in Slots /\ buff \in [Slots -> Items \cup {Unwritten}]
    BY DEF IInv, TypeOK
  <1>4. Occupancy' = Occupancy /\ \A k \in 1 .. Occupancy : SlotOf(k)' = SlotOf(k)
    BY <1>1 DEF Occupancy, SlotOf
  <1>5. \A k \in 1 .. Occupancy : buff'[SlotOf(k)] = buff[SlotOf(k)]
    BY <1>2, <1>3, OccupiedSlots
  <1>6. Contents' = Contents
    BY <1>4, <1>5 DEF Contents
  <1>7. QED
    BY <1>1, <1>6 DEF Fifo!vars

(* The ring of the program is a first-in first-out queue of capacity       *)
(* BUFF_MAX - 1.                                                           *)
THEOREM Refinement == Spec => ImplementsFifo
  <1>1. IInv /\ [Next]_vars => [Fifo!Next]_(Fifo!vars)
    BY PublishIsPut, ReleaseIsTake, OtherStepsStutter DEF Fifo!Next
  <1>2. QED
    BY <1>1, InitFifo, Invariance, PTL DEF Spec, ImplementsFifo, Fifo!Spec

=============================================================================
