-------------------------- MODULE SampleStoreProofs --------------------------
(***************************************************************************)
(* Proofs about SampleStore, for every number of threads, addresses,       *)
(* samples, filter bits and array positions: each sampled thread has one   *)
(* record, and its Bloom filters are exactly the image of what it was      *)
(* sampled at, also once its arrays have been overrun; until they are, its *)
(* counts are exact.                                                       *)
(***************************************************************************)
EXTENDS SampleStore, SequenceTheorems, FiniteSetTheorems, TLAPS

SampleSet == [tid : Tids, addr : Addrs, phys : PhysAddrs \cup {FAILURE, NoAddr}]

(* A list of at most UNIQUE entries. *)
ListSet == [addr : [Entries -> AnyAddr \cup {NoAddr}], freq : [Entries -> Int],
            n : 0 .. UNIQUE, filter : SUBSET Bins, ffreq : [Bins -> Nat]]

ThreadSet == [pid : Pids, tid : Tids, core : 0 .. CORES - 1, virt : ListSet, phys : ListSet]

(* A list agrees with the set S of addresses its thread was sampled at:    *)
(* its filter is the image of S, and what the search may find is in S.     *)
ListInv(list, S) ==
  /\ list \in ListSet
  /\ list.filter = {HashOf(a) : a \in S}
  /\ \A j \in 0 .. list.n - 1 : list.addr[j] \in S

(* The physical address of a sample, in the versions that store one. *)
PhysFor(phys) == IF version = 6 THEN phys \in PhysAddrs \cup {FAILURE} ELSE phys = NoAddr

(* A sample of thread tid is stored, whichever record it goes to. *)
Stored(tid, a, phys) ==
  /\ tid \in Tids /\ a \in Addrs /\ HashOf(a) \in Bins /\ PhysFor(phys)
  /\ stage = "sampling" /\ UNCHANGED <<version, stage, core>>
  /\ history' = Append(history, [tid |-> tid, addr |-> a, phys |-> phys])

(* The inductive invariant. *)
StoreInv ==
  /\ history \in Seq(SampleSet)
  /\ threads \in Seq(ThreadSet)
  /\ core \in 0 .. CORES - 1 /\ version \in {4, 5, 6}
  /\ OneRecordPerThread
  /\ \A i \in DOMAIN threads : /\ ListInv(threads[i].virt, VirtOf(threads[i].tid))
                               /\ ListInv(threads[i].phys, PhysOf(threads[i].tid))

-----------------------------------------------------------------------------
(* Lemmas about one list *)

(* The hash of version 6 is never negative.                                *)
LEMMA HashInBins ==
  ASSUME version = 6
  PROVE  \A a \in AnyAddr : HashOf(a) \in Bins
  BY StoreAssumption DEF Bins, AnyAddr, HashOf

(* An empty list has nothing to keep.                                      *)
LEMMA EmptyListInv == ListInv(EmptyList, {})
  <1> DEFINE ad == [j \in Entries |-> NoAddr]
             fr == [j \in Entries |-> 0]
             ff == [b \in Bins |-> 0]
  <1>1. ad \in [Entries -> AnyAddr \cup {NoAddr}] /\ fr \in [Entries -> Int] /\ ff \in [Bins -> Nat]
    OBVIOUS
  <1>2. EmptyList = [addr |-> ad, freq |-> fr, n |-> 0, filter |-> {}, ffreq |-> ff]
    BY DEF EmptyList
  <1> HIDE DEF ad, fr, ff
  <1>3. QED
    BY <1>1, <1>2, StoreAssumption DEF ListInv, ListSet

(* Marking a filter bit changes the filter and its counts only. *)
LEMMA MarkFilterFields ==
  ASSUME NEW list \in ListSet, NEW a \in AnyAddr, HashOf(a) \in Bins
  PROVE  /\ MarkFilter(list, a) \in ListSet
         /\ MarkFilter(list, a).filter = list.filter \cup {HashOf(a)}
         /\ MarkFilter(list, a).n = list.n
         /\ MarkFilter(list, a).addr = list.addr
  BY DEF MarkFilter, ListSet

(* A list with one entry has that address.                                 *)
LEMMA FirstEntryInv ==
  ASSUME NEW a \in AnyAddr, HashOf(a) \in Bins
  PROVE  ListInv(FirstEntry(a), {a})
  <1> USE StoreAssumption
  <1> DEFINE ad == [j \in Entries |-> IF j = 0 THEN a ELSE NoAddr]
             fr == [j \in Entries |-> IF j = 0 THEN 1 ELSE 0]
             ff == [b \in Bins |-> 0]
             first == [addr |-> ad, freq |-> fr, n |-> 1, filter |-> {}, ffreq |-> ff]
  <1>1. ad \in [Entries -> AnyAddr \cup {NoAddr}] /\ ad[0] = a
    BY DEF Entries
  <1>2. fr \in [Entries -> Int] /\ ff \in [Bins -> Nat]
    OBVIOUS
  <1>3. FirstEntry(a) = MarkFilter(first, a)
    BY DEF FirstEntry
  <1> HIDE DEF ad, fr, ff
  <1>4. first \in ListSet /\ first.n = 1 /\ first.filter = {} /\ first.addr = ad
    BY <1>1, <1>2 DEF ListSet
  <1> HIDE DEF first
  <1>5. QED
    BY <1>1, <1>3, <1>4, MarkFilterFields DEF ListInv

(* The scratch write changes neither the filter nor the entries in use. *)
LEMMA ScratchInv ==
  ASSUME NEW S, NEW list, ListInv(list, S), NEW a \in AnyAddr
  PROVE  /\ ListInv(Scratch(list, a), S)
         /\ Scratch(list, a).n = list.n
         /\ list.n < UNIQUE => Scratch(list, a).addr[list.n] = a
  <1> USE StoreAssumption
  <1>1. CASE list.n < UNIQUE
    <2>1. list.n \in Entries
      BY <1>1 DEF ListInv, ListSet, Entries
    <2>2. Scratch(list, a) = [list EXCEPT !.addr = [list.addr EXCEPT ![list.n] = a]]
      BY <1>1 DEF Scratch
    <2>3. Scratch(list, a) \in ListSet
      BY <2>1, <2>2 DEF ListInv, ListSet
    <2>4. QED
      BY <1>1, <2>1, <2>2, <2>3, SMTT(30) DEF ListInv, ListSet
  <1>2. CASE ~(list.n < UNIQUE)
    <2>1. Scratch(list, a) = [list EXCEPT !.freq = [list.freq EXCEPT ![0] = LowHalf[a], ![1] = HighHalf[a]]]
      BY <1>2 DEF Scratch
    <2>2. LowHalf[a] \in Int /\ HighHalf[a] \in Int
      BY DEF AnyAddr
    <2>3. Scratch(list, a) \in ListSet
      BY <2>1, <2>2 DEF ListInv, ListSet
    <2>4. QED
      BY <1>2, <2>1, <2>3 DEF ListInv, ListSet
  <1>3. QED
    BY <1>1, <1>2

(* What Extend does to a list, within the array and behind its end.        *)
LEMMA ExtendFields ==
  ASSUME NEW list \in ListSet
  PROVE  /\ Extend(list) \in ListSet
         /\ Extend(list).n = (IF list.n < UNIQUE THEN list.n + 1 ELSE 2)
         /\ Extend(list).addr = list.addr
         /\ Extend(list).filter = list.filter
  <1> USE StoreAssumption
  <1>1. CASE list.n < UNIQUE
    <2>1. list.n + 1 \in 1 .. UNIQUE
      BY <1>1 DEF ListSet
    <2>2. [list.freq EXCEPT ![list.n] = 1] \in [Entries -> Int]
      <3>1. list.freq \in [Entries -> Int]
        BY DEF ListSet
      <3>2. 1 \in Int
        OBVIOUS
      <3>3. \A f \in [Entries -> Int], k \in Nat, x \in Int : [f EXCEPT ![k] = x] \in [Entries -> Int]
        OBVIOUS
      <3>4. QED
        BY <3>1, <3>2, <3>3 DEF ListSet
    <2>3. /\ list.addr \in [Entries -> AnyAddr \cup {NoAddr}] /\ list.filter \in SUBSET Bins
          /\ list.ffreq \in [Bins -> Nat]
      BY DEF ListSet
    <2>4. QED
      BY <1>1, <2>1, <2>2, <2>3 DEF Extend, ListSet
  <1>2. CASE ~(list.n < UNIQUE)
    BY <1>2 DEF Extend, ListSet
  <1>3. QED
    BY <1>1, <1>2

(* A new entry adds its address to the list.                               *)
LEMMA NewEntryInv ==
  ASSUME NEW S, NEW list, ListInv(list, S), NEW a \in AnyAddr, HashOf(a) \in Bins,
         list.n < UNIQUE => list.addr[list.n] = a
  PROVE  ListInv(NewEntry(list, a), S \cup {a})
  <1> USE StoreAssumption
  <1>1. /\ NewEntry(list, a) \in ListSet
        /\ NewEntry(list, a).n = (IF list.n < UNIQUE THEN list.n + 1 ELSE 2)
        /\ NewEntry(list, a).addr = list.addr
        /\ NewEntry(list, a).filter = list.filter \cup {HashOf(a)}
    BY ExtendFields, MarkFilterFields DEF NewEntry, ListInv
  <1>2. \A j \in 0 .. NewEntry(list, a).n - 1 : list.addr[j] \in S \cup {a}
    BY <1>1 DEF ListInv, ListSet
  <1>3. QED
    BY <1>1, <1>2 DEF ListInv

(* Recording an address adds it to the set the list stands for. *)
LEMMA RecordInv ==
  ASSUME NEW S, NEW list, ListInv(list, S), NEW a \in AnyAddr, HashOf(a) \in Bins
  PROVE  ListInv(Record(list, a), S \cup {a})
  <1> DEFINE known == Positions(list, a)
             s == Scratch(list, a)
  <1>1. ListInv(s, S) /\ s.n = list.n /\ (list.n < UNIQUE => s.addr[list.n] = a)
    BY ScratchInv
  <1>2. CASE known = {}
    BY <1>1, <1>2, NewEntryInv DEF Record
  <1>3. CASE known # {}
    <2>1. a \in S
      BY <1>3 DEF Positions, ListInv
    <2>2. Record(list, a) = [s EXCEPT !.freq = [s.freq EXCEPT ![Min(known)] = @ + 1]]
      BY <1>3 DEF Record
    <2>3. S \cup {a} = S
      BY <2>1
    <2>4. ListInv(Record(list, a), S)
      BY <1>1, <2>2 DEF ListInv, ListSet
    <2>5. QED
      BY <2>3, <2>4
  <1>4. QED
    BY <1>2, <1>3

(* The two lists of a new record. *)
LEMMA NewLists ==
  ASSUME NEW a \in Addrs, NEW phys, HashOf(a) \in Bins, PhysFor(phys)
  PROVE  /\ ListInv(FirstEntry(a), {a})
         /\ ListInv(IF version = 6 THEN FirstEntry(phys) ELSE EmptyList, {phys} \ {NoAddr})
  <1>1. ListInv(FirstEntry(a), {a})
    BY FirstEntryInv DEF AnyAddr
  <1>2. CASE version = 6
    <2>1. phys \in AnyAddr /\ HashOf(phys) \in Bins
      BY <1>2, HashInBins DEF PhysFor, AnyAddr
    <2>2. {phys} \ {NoAddr} = {phys}
      BY <1>2, StoreAssumption DEF PhysFor
    <2>3. QED
      BY <1>1, <1>2, <2>1, <2>2, FirstEntryInv
  <1>3. CASE version # 6
    <2>1. {phys} \ {NoAddr} = {}
      BY <1>3 DEF PhysFor
    <2>2. QED
      BY <1>1, <1>3, <2>1, EmptyListInv
  <1>4. QED
    BY <1>2, <1>3

(* The two lists of a record that is found. *)
LEMMA KnownLists ==
  ASSUME NEW a \in Addrs, NEW phys, HashOf(a) \in Bins, PhysFor(phys),
         NEW S, NEW T, NEW virt, NEW list, ListInv(virt, S), ListInv(list, T)
  PROVE  /\ ListInv(Record(virt, a), S \cup {a})
         /\ ListInv(IF version = 6 THEN Record(list, phys) ELSE list, T \cup ({phys} \ {NoAddr}))
  <1>1. ListInv(Record(virt, a), S \cup {a})
    BY RecordInv DEF AnyAddr
  <1>2. CASE version = 6
    <2>1. phys \in AnyAddr /\ HashOf(phys) \in Bins
      BY <1>2, HashInBins DEF PhysFor, AnyAddr
    <2>2. {phys} \ {NoAddr} = {phys}
      BY <1>2, StoreAssumption DEF PhysFor
    <2>3. QED
      BY <1>1, <1>2, <2>1, <2>2, RecordInv
  <1>3. CASE version # 6
    <2>1. T \cup ({phys} \ {NoAddr}) = T
      BY <1>3 DEF PhysFor
    <2>2. QED
      BY <1>1, <1>3, <2>1
  <1>4. QED
    BY <1>2, <1>3

-----------------------------------------------------------------------------
(* Lemmas about the history *)

(* A sample adds its addresses to its own thread's sets and to no other's. *)
LEMMA HistoryGrows ==
  ASSUME history \in Seq(SampleSet), NEW tid \in Tids, NEW a \in Addrs,
         NEW phys \in PhysAddrs \cup {FAILURE, NoAddr},
         history' = Append(history, [tid |-> tid, addr |-> a, phys |-> phys])
  PROVE  /\ history' \in Seq(SampleSet)
         /\ VirtOf(tid)' = VirtOf(tid) \cup {a}
         /\ PhysOf(tid)' = PhysOf(tid) \cup ({phys} \ {NoAddr})
         /\ \A t \in Tids \ {tid} : VirtOf(t)' = VirtOf(t) /\ PhysOf(t)' = PhysOf(t)
         /\ SampledBy(tid)' # {}
         /\ \A t \in Tids \ {tid} : SampledBy(t)' = SampledBy(t)
  <1> DEFINE s == [tid |-> tid, addr |-> a, phys |-> phys]
             n == Len(history)
  <1>1. s \in SampleSet
    BY DEF SampleSet
  <1>2. /\ n \in Nat /\ DOMAIN history = 1 .. n /\ DOMAIN history' = 1 .. n + 1
        /\ history' \in Seq(SampleSet)
        /\ history'[n + 1] = s
        /\ \A k \in 1 .. n : history'[k] = history[k]
    BY <1>1
  <1>3. SampledBy(tid)' = SampledBy(tid) \cup {n + 1}
    BY <1>2 DEF SampledBy
  <1>4. \A t \in Tids \ {tid} : SampledBy(t)' = SampledBy(t)
    BY <1>2 DEF SampledBy
  <1>5. VirtOf(tid)' = VirtOf(tid) \cup {a} /\ PhysOf(tid)' = PhysOf(tid) \cup ({phys} \ {NoAddr})
    BY <1>2, <1>3 DEF VirtOf, PhysOf, SampledBy
  <1>6. \A t \in Tids \ {tid} : VirtOf(t)' = VirtOf(t) /\ PhysOf(t)' = PhysOf(t)
    BY <1>2, <1>4 DEF VirtOf, PhysOf, SampledBy
  <1>7. QED
    BY <1>2, <1>3, <1>4, <1>5, <1>6

-----------------------------------------------------------------------------
(* The steps *)

(* There is nothing stored at the start.                                   *)
LEMMA InitStore == Init => StoreInv
  BY StoreAssumption DEF Init, StoreInv, OneRecordPerThread, SampledBy

(* A store adds to the sets of its thread what the lists must agree with.  *)
LEMMA StoredSets ==
  ASSUME StoreInv, NEW tid, NEW a, NEW phys, Stored(tid, a, phys)
  PROVE  /\ tid \in Tids /\ a \in Addrs
         /\ history' \in Seq(SampleSet)
         /\ VirtOf(tid)' = VirtOf(tid) \cup {a}
         /\ PhysOf(tid)' = PhysOf(tid) \cup ({phys} \ {NoAddr})
         /\ \A t \in Tids \ {tid} : VirtOf(t)' = VirtOf(t) /\ PhysOf(t)' = PhysOf(t)
         /\ SampledBy(tid)' # {}
         /\ \A t \in Tids \ {tid} : SampledBy(t)' = SampledBy(t)
  <1>1. phys \in PhysAddrs \cup {FAILURE, NoAddr}
    BY DEF Stored, PhysFor
  <1>2. QED
    BY <1>1, HistoryGrows DEF Stored, StoreInv

(* What is said of samples and records depends on nothing else.            *)
LEMMA SameSamples ==
  ASSUME UNCHANGED <<version, threads, history>>
  PROVE  /\ \A a : HashOf(a)' = HashOf(a)
         /\ \A t : SampledBy(t)' = SampledBy(t) /\ VirtOf(t)' = VirtOf(t) /\ PhysOf(t)' = PhysOf(t)
         /\ \A list, S : ListInv(list, S)' <=> ListInv(list, S)
  <1>1. /\ \A a : HashOf(a)' = HashOf(a)
        /\ \A t : SampledBy(t)' = SampledBy(t)
    BY DEF HashOf, SampledBy
  <1>2. \A t : VirtOf(t)' = VirtOf(t) /\ PhysOf(t)' = PhysOf(t)
    BY <1>1 DEF VirtOf, PhysOf
  <1>3. \A list, S : ListInv(list, S)' <=> ListInv(list, S)
    BY <1>1 DEF ListInv
  <1>4. QED
    BY <1>1, <1>2, <1>3

(* A write outside the arrays: threads[] is full, or the hash is negative. *)
LEMMA OutsideStore ==
  ASSUME StoreInv, NEW tid \in Tids, NEW a \in Addrs, StoreOutside(tid, a)
  PROVE  StoreInv'
  <1>1. UNCHANGED <<version, core, threads, history>>
    BY DEF StoreOutside
  <1>2. Len(threads) = THREAD_MAX \/ (version # 6 /\ HashOf(a) < 0)
    <2>1. CASE HashOf(a) \notin Bins
      <3>1. version # 6
        BY <2>1, HashInBins DEF AnyAddr
      <3>2. HashOf(a) < 0
        BY <3>1, <2>1, StoreAssumption DEF HashOf, Bins
      <3>3. QED
        BY <3>1, <3>2
    <2>2. QED
      BY <2>1 DEF StoreOutside, Outside
  <1>3. OneRecordPerThread'
    BY <1>1, <1>2, SameSamples DEF StoreInv, OneRecordPerThread
  <1>4. \A i \in DOMAIN threads' : /\ ListInv(threads[i].virt, VirtOf(threads[i].tid))'
                                   /\ ListInv(threads[i].phys, PhysOf(threads[i].tid))'
    <2>1. ASSUME NEW i \in DOMAIN threads
          PROVE  /\ ListInv(threads[i].virt, VirtOf(threads[i].tid))'
                 /\ ListInv(threads[i].phys, PhysOf(threads[i].tid))'
      BY <1>1, SameSamples DEF StoreInv, ListInv
    <2>2. QED
      BY <1>1, <2>1
  <1>5. QED
    BY <1>1, <1>3, <1>4 DEF StoreInv

(* Steps that store no sample and stay inside the arrays.                  *)
LEMMA OtherStore ==
  ASSUME StoreInv, [Next]_vars,
         ~(\E tid \in Tids, a \in Addrs : StoreSample(tid, a) \/ StoreOutside(tid, a))
  PROVE  StoreInv'
  <1>1. /\ UNCHANGED <<version, threads, history>> /\ core' \in 0 .. CORES - 1
        /\ stage' = "overrun" => stage = "overrun"
    BY StoreAssumption DEF Next, CountEvents, StartSampling, NextCore, CheckIntersection,
                           ProcessExits, vars, StoreInv
  <1>2. QED
    BY <1>1 DEF StoreInv, OneRecordPerThread, VirtOf, PhysOf, SampledBy, ListInv, HashOf

(* Storing the first sample of a thread keeps the invariant.               *)
LEMMA NewThreadStore ==
  ASSUME StoreInv, NEW tid, NEW a, NEW phys, Stored(tid, a, phys), NewThread(tid, a, phys)
  PROVE  StoreInv'
  <1> DEFINE n == Len(threads)
             V == FirstEntry(a)
             Q == IF version = 6 THEN FirstEntry(phys) ELSE EmptyList
             new == [pid |-> PidOf[tid], tid |-> tid, core |-> core, virt |-> V, phys |-> Q]
  <1>0. tid \in Tids /\ a \in Addrs /\ UNCHANGED <<version, core, stage>> /\ stage # "overrun"
    BY DEF Stored
  <1>1. ListInv(V, {a}) /\ ListInv(Q, {phys} \ {NoAddr})
    BY <1>0, NewLists DEF Stored
  <1>3. threads' = Append(threads, new) /\ \A i \in DOMAIN threads : threads[i].tid # tid
    BY DEF NewThread, IndexOf
  <1> HIDE DEF V, Q
  <1>2. new \in ThreadSet /\ new.tid = tid /\ new.virt = V /\ new.phys = Q
    BY <1>0, <1>1 DEF ThreadSet, ListInv, Pids, StoreInv
  <1> HIDE DEF new
  <1>4. /\ n \in Nat /\ DOMAIN threads = 1 .. n /\ DOMAIN threads' = 1 .. n + 1
        /\ threads' \in Seq(ThreadSet)
        /\ threads'[n + 1] = new
        /\ \A i \in 1 .. n : threads'[i] = threads[i] /\ threads[i].tid \in Tids
    <2>1. threads \in Seq(ThreadSet)
      BY DEF StoreInv
    <2>2. /\ n \in Nat /\ DOMAIN threads = 1 .. n /\ DOMAIN threads' = 1 .. n + 1
          /\ threads' \in Seq(ThreadSet)
          /\ threads'[n + 1] = new
          /\ \A i \in 1 .. n : threads'[i] = threads[i] /\ threads[i] \in ThreadSet
      BY <1>2, <1>3, <2>1
    <2>3. QED
      BY <2>2 DEF ThreadSet
  <1>5. SampledBy(tid) = {}
    BY <1>0, <1>3 DEF StoreInv, OneRecordPerThread
  <1>6. VirtOf(tid)' = {a} /\ PhysOf(tid)' = {phys} \ {NoAddr}
    <2>1. VirtOf(tid) = {} /\ PhysOf(tid) = {}
      BY <1>5 DEF VirtOf, PhysOf
    <2>2. VirtOf(tid)' = VirtOf(tid) \cup {a} /\ PhysOf(tid)' = PhysOf(tid) \cup ({phys} \ {NoAddr})
      BY StoredSets DEF StoreInv
    <2>3. QED
      BY <2>1, <2>2
  <1>7. OneRecordPerThread'
    <2>1. \A i, j \in DOMAIN threads' : threads'[i].tid = threads'[j].tid => i = j
      BY <1>2, <1>3, <1>4 DEF StoreInv, OneRecordPerThread
    <2>2. ASSUME NEW t \in Tids
          PROVE  SampledBy(t)' # {} <=> \E i \in DOMAIN threads' : threads'[i].tid = t
      <3>1. CASE t = tid
        <4>1. SampledBy(tid)' # {}
          BY StoredSets DEF StoreInv
        <4>2. n + 1 \in DOMAIN threads' /\ threads'[n + 1].tid = tid
          BY <1>2, <1>4
        <4>3. QED
          BY <3>1, <4>1, <4>2
      <3>2. CASE t # tid
        <4>1. SampledBy(t)' = SampledBy(t)
          BY <3>2, StoredSets DEF StoreInv
        <4>2. SampledBy(t) # {} <=> \E i \in DOMAIN threads : threads[i].tid = t
          BY DEF StoreInv, OneRecordPerThread
        <4>3. (\E i \in DOMAIN threads : threads[i].tid = t)
                <=> \E i \in DOMAIN threads' : threads'[i].tid = t
          BY <3>2, <1>2, <1>4
        <4>4. QED
          BY <4>1, <4>2, <4>3
      <3>3. QED
        BY <3>1, <3>2
    <2>3. QED
      BY <2>1, <2>2, <1>0 DEF OneRecordPerThread
  <1>8. ASSUME NEW i \in DOMAIN threads'
        PROVE  /\ ListInv(threads'[i].virt, VirtOf(threads[i].tid)')
               /\ ListInv(threads'[i].phys, PhysOf(threads[i].tid)')
    <2>1. CASE i = n + 1
      BY <2>1, <1>1, <1>2, <1>4, <1>6
    <2>2. CASE i \in 1 .. n
      <3>1. threads'[i] = threads[i] /\ threads[i].tid \in Tids \ {tid}
        BY <2>2, <1>3, <1>4
      <3>2. QED
        BY <2>2, <3>1, <1>4, StoredSets DEF StoreInv
    <2>3. QED
      BY <2>1, <2>2, <1>4
  <1>9. QED
    <2>1. ASSUME NEW i \in DOMAIN threads'
          PROVE  (ListInv(threads[i].virt, VirtOf(threads[i].tid)))'
                 /\ (ListInv(threads[i].phys, PhysOf(threads[i].tid)))'
      BY <1>0, <1>8 DEF ListInv, HashOf
    <2>2. QED
      BY <1>0, <1>4, <1>7, <2>1, StoredSets DEF StoreInv

(* Storing a further sample of a thread keeps the invariant.               *)
LEMMA KnownThreadStore ==
  ASSUME StoreInv, NEW tid, NEW a, NEW phys, Stored(tid, a, phys), KnownThread(tid, a, phys)
  PROVE  StoreInv'
  <1>0. tid \in Tids /\ a \in Addrs /\ UNCHANGED <<version, core, stage>> /\ stage # "overrun"
    BY DEF Stored
  <1>1. PICK m \in DOMAIN threads : threads[m].tid = tid
    BY DEF KnownThread, IndexOf
  <1>2. IndexOf(tid) = {m} /\ m \in Nat
    BY <1>1 DEF IndexOf, StoreInv, OneRecordPerThread
  <1>3. Min(IndexOf(tid)) = m
    BY <1>2 DEF Min
  <1> DEFINE V == Record(threads[m].virt, a)
             Q == IF version = 6 THEN Record(threads[m].phys, phys) ELSE threads[m].phys
             new == [pid |-> threads[m].pid, tid |-> threads[m].tid, core |-> threads[m].core,
                     virt |-> V, phys |-> Q]
  <1>4. ListInv(V, VirtOf(tid) \cup {a}) /\ ListInv(Q, PhysOf(tid) \cup ({phys} \ {NoAddr}))
    BY <1>0, <1>1, KnownLists DEF StoreInv, Stored
  <1>5. threads' = [threads EXCEPT ![m] = new]
    BY <1>3 DEF KnownThread
  <1>6. V \in ListSet /\ Q \in ListSet
    BY <1>4 DEF ListInv
  <1> HIDE DEF V, Q
  <1>7. /\ DOMAIN threads' = DOMAIN threads /\ threads' \in Seq(ThreadSet)
        /\ threads'[m].virt = V /\ threads'[m].phys = Q
        /\ \A i \in DOMAIN threads : threads'[i].tid = threads[i].tid
        /\ \A i \in (DOMAIN threads) \ {m} : threads'[i] = threads[i]
    <2>1. threads \in Seq(ThreadSet)
      BY DEF StoreInv
    <2>2. threads[m] \in ThreadSet
      BY <1>1, <2>1
    <2>3. new \in ThreadSet /\ new.virt = V /\ new.phys = Q /\ new.tid = threads[m].tid
      BY <2>2, <1>6 DEF ThreadSet
    <2> HIDE DEF new
    <2>4. /\ DOMAIN threads' = DOMAIN threads /\ threads' \in Seq(ThreadSet)
          /\ threads'[m] = new
          /\ \A i \in (DOMAIN threads) \ {m} : threads'[i] = threads[i]
      BY <1>1, <1>5, <2>1, <2>3
    <2>5. QED
      BY <2>3, <2>4
  <1>8. OneRecordPerThread'
    <2>1. \A i, j \in DOMAIN threads' : threads'[i].tid = threads'[j].tid => i = j
      BY <1>7 DEF StoreInv, OneRecordPerThread
    <2>2. ASSUME NEW t \in Tids
          PROVE  SampledBy(t)' # {} <=> \E i \in DOMAIN threads' : threads'[i].tid = t
      <3>1. CASE t = tid
        BY <3>1, <1>1, <1>7, StoredSets DEF StoreInv
      <3>2. CASE t # tid
        <4>1. SampledBy(t)' = SampledBy(t)
          BY <3>2, StoredSets DEF StoreInv
        <4>2. SampledBy(t) # {} <=> \E i \in DOMAIN threads : threads[i].tid = t
          BY DEF StoreInv, OneRecordPerThread
        <4>3. QED
          BY <4>1, <4>2, <1>7
      <3>3. QED
        BY <3>1, <3>2
    <2>3. QED
      BY <2>1, <2>2, <1>0 DEF OneRecordPerThread
  <1>9. ASSUME NEW i \in DOMAIN threads'
        PROVE  /\ ListInv(threads'[i].virt, VirtOf(threads[i].tid)')
               /\ ListInv(threads'[i].phys, PhysOf(threads[i].tid)')
    <2>1. CASE i = m
      BY <2>1, <1>1, <1>4, <1>7, StoredSets DEF StoreInv, V, Q
    <2>2. CASE i # m
      <3>1. threads[i] \in ThreadSet
        BY <1>7 DEF StoreInv
      <3>2. threads[i].tid \in Tids \ {tid}
        BY <3>1, <2>2, <1>1, <1>7 DEF StoreInv, OneRecordPerThread, ThreadSet
      <3>3. QED
        BY <2>2, <3>2, <1>7, StoredSets DEF StoreInv
    <2>3. QED
      BY <2>1, <2>2
  <1>10. QED
    <2>1. ASSUME NEW i \in DOMAIN threads'
          PROVE  (ListInv(threads[i].virt, VirtOf(threads[i].tid)))'
                 /\ (ListInv(threads[i].phys, PhysOf(threads[i].tid)))'
      BY <1>0, <1>9 DEF ListInv, HashOf
    <2>2. QED
      BY <1>0, <1>7, <1>8, <2>1, StoredSets DEF StoreInv

(* Every reachable state satisfies the inductive invariant of storeSample. *)
THEOREM StoreInvariance == Spec => []StoreInv
  <1>1. ASSUME StoreInv, NEW tid \in Tids, NEW a \in Addrs, StoreSample(tid, a)
        PROVE  StoreInv'
    <2>1. PICK phys \in PhysAddrs \cup {FAILURE, NoAddr} :
            /\ IF version = 6 THEN Translate(PidOf[tid], a, phys)
                              ELSE phys = NoAddr /\ UNCHANGED <<leaked, gone>>
            /\ NewThread(tid, a, phys) \/ KnownThread(tid, a, phys)
            /\ history' = Append(history, [tid |-> tid, addr |-> a, phys |-> phys])
      BY <1>1 DEF StoreSample
    <2>2. PhysFor(phys)
      BY <2>1, StoreAssumption, SMTT(30) DEF Translate, PhysFor
    <2>3. Stored(tid, a, phys)
      BY <1>1, <2>1, <2>2 DEF StoreSample, Outside, Stored
    <2>4. QED
      BY <1>1, <2>1, <2>3, NewThreadStore, KnownThreadStore
  <1>2. StoreInv /\ [Next]_vars => StoreInv'
    BY <1>1, OtherStore, OutsideStore
  <1>3. QED
    BY <1>2, InitStore, PTL DEF Spec

(* However often and on however many cores a thread is sampled, its        *)
(* samples end in one record (storeSample's search by tid).                *)
THEOREM OneRecord == Spec => []OneRecordPerThread
  <1>1. StoreInv => OneRecordPerThread
    BY DEF StoreInv
  <1>2. QED
    BY <1>1, StoreInvariance, PTL

(* The Bloom filters are exact whatever the hash function, the length of   *)
(* the arrays and the number of samples, overruns of the arrays included.  *)
THEOREM FilterExactness == Spec => []FiltersExact
  <1>1. StoreInv => FiltersExact
    BY DEF StoreInv, FiltersExact, ListInv
  <1>2. QED
    BY <1>1, StoreInvariance, PTL

-----------------------------------------------------------------------------
(* The report *)

Rows == {Row(p[1], p[2]) : p \in {q \in (DOMAIN threads) \X (DOMAIN threads) : q[1] # q[2]}}

(* Nothing is sampled before the sampling starts, and nothing between the  *)
(* report and the end.                                                     *)
ReportInv ==
  /\ stage \in {"counting", "opening"} => history = << >>
  /\ stage = "done" => history = << >> \/ report = Rows

(* The report is that of the samples taken.                                *)
LEMMA ReportInvariance == Spec => []ReportInv
  <1>1. Init => ReportInv
    BY DEF Init, ReportInv
  <1>2. ASSUME ReportInv, [Next]_vars
        PROVE  ReportInv'
    <2>1. CASE CountEvents \/ StartSampling \/ NextCore \/ \E p \in Pids : ProcessExits(p)
      BY <1>2, <2>1 DEF ReportInv, CountEvents, StartSampling, NextCore, ProcessExits
    <2>2. CASE CheckIntersection
      <3>1. report' = Rows /\ UNCHANGED <<version, threads, history>> /\ stage' = "done"
        BY <2>2 DEF CheckIntersection, Rows
      <3>2. Rows' = Rows
        BY <3>1 DEF Rows, Row
      <3>3. QED
        BY <3>1, <3>2 DEF ReportInv
    <2>3. CASE \E tid \in Tids, a \in Addrs : StoreSample(tid, a) \/ StoreOutside(tid, a)
      BY <2>3 DEF ReportInv, StoreSample, StoreOutside
    <2>4. CASE UNCHANGED vars
      <3>1. Rows' = Rows
        BY <2>4 DEF vars, Rows, Row
      <3>2. QED
        BY <1>2, <2>4, <3>1 DEF ReportInv, vars
    <2>5. QED
      BY <1>2, <2>1, <2>2, <2>3, <2>4 DEF Next
  <1>3. QED
    BY <1>1, <1>2, PTL DEF Spec

(* Two filters with a common bit have a positive overlap. *)
LEMMA CommonBit ==
  ASSUME NEW x \in ListSet, NEW y \in ListSet, NEW b \in x.filter \cap y.filter
  PROVE  Overlap(x, y).inter > 0
  <1> DEFINE common == x.filter \cap y.filter
  <1>1. Overlap(x, y).inter = Cardinality(common)
    BY DEF Overlap
  <1>2. IsFiniteSet(Bins)
    BY StoreAssumption, FS_Interval DEF Bins
  <1>3. IsFiniteSet(common)
    BY <1>2, FS_Subset DEF ListSet
  <1>4. Cardinality(common) \in Nat /\ Cardinality(common) # 0
    BY <1>3, FS_CardinalityType, FS_EmptySet
  <1>5. QED
    BY <1>1, <1>4

(* Whatever the hash, the number of threads, cores and samples, and also   *)
(* when the arrays of a record were overrun: a report that was printed     *)
(* names every pair of threads that sampled a common address.              *)
THEOREM NoSharingMissed == Spec => []SharingReported
  <1>1. ASSUME StoreInv, ReportInv, stage = "done",
               NEW t \in Tids, NEW u \in Tids, t # u,
               SampledBy(t) # {}, SampledBy(u) # {}
        PROVE  \E i, j \in DOMAIN threads :
                 threads[i].tid = t /\ threads[j].tid = u /\ Row(i, j) \in report
    <2>1. report = Rows
      BY <1>1 DEF ReportInv, SampledBy
    <2>2. PICK i \in DOMAIN threads : threads[i].tid = t
      BY <1>1 DEF StoreInv, OneRecordPerThread
    <2>3. PICK j \in DOMAIN threads : threads[j].tid = u
      BY <1>1 DEF StoreInv, OneRecordPerThread
    <2>4. <<i, j>> \in {q \in (DOMAIN threads) \X (DOMAIN threads) : q[1] # q[2]}
      BY <1>1, <2>2, <2>3
    <2>5. Row(i, j) \in Rows
      BY <2>4 DEF Rows
    <2>6. QED
      BY <2>1, <2>2, <2>3, <2>5
  <1>2. ASSUME StoreInv, ReportInv, stage = "done", NEW t \in Tids, NEW u \in Tids, t # u
        PROVE  /\ VirtOf(t) \cap VirtOf(u) # {} =>
                    \E r \in report : r.tid1 = t /\ r.tid2 = u /\ r.virt.inter > 0
               /\ PhysOf(t) \cap PhysOf(u) # {} =>
                    \E r \in report : r.tid1 = t /\ r.tid2 = u /\ r.phys.inter > 0
    <2>1. ASSUME NEW i \in DOMAIN threads, NEW j \in DOMAIN threads
          PROVE  /\ Row(i, j).tid1 = threads[i].tid /\ Row(i, j).tid2 = threads[j].tid
                 /\ Row(i, j).virt = Overlap(threads[i].virt, threads[j].virt)
                 /\ Row(i, j).phys = Overlap(threads[i].phys, threads[j].phys)
      BY DEF Row
    <2>2. ASSUME NEW a \in VirtOf(t) \cap VirtOf(u)
          PROVE  \E r \in report : r.tid1 = t /\ r.tid2 = u /\ r.virt.inter > 0
      <3>1. PICK i, j \in DOMAIN threads :
              threads[i].tid = t /\ threads[j].tid = u /\ Row(i, j) \in report
        BY <1>1, <1>2, <2>2 DEF VirtOf
      <3>2. /\ threads[i].virt \in ListSet /\ HashOf(a) \in threads[i].virt.filter
            /\ threads[j].virt \in ListSet /\ HashOf(a) \in threads[j].virt.filter
        BY <1>2, <2>2, <3>1 DEF StoreInv, ListInv
      <3>3. Overlap(threads[i].virt, threads[j].virt).inter > 0
        BY <3>2, CommonBit
      <3>4. Row(i, j).tid1 = t /\ Row(i, j).tid2 = u
        BY <2>1, <3>1
      <3>5. Row(i, j).virt = Overlap(threads[i].virt, threads[j].virt)
        BY <2>1
      <3>6. Row(i, j).virt.inter > 0
        BY <3>3, <3>5
      <3>7. QED
        BY <3>1, <3>4, <3>6
    <2>3. ASSUME NEW a \in PhysOf(t) \cap PhysOf(u)
          PROVE  \E r \in report : r.tid1 = t /\ r.tid2 = u /\ r.phys.inter > 0
      <3>1. PICK i, j \in DOMAIN threads :
              threads[i].tid = t /\ threads[j].tid = u /\ Row(i, j) \in report
        BY <1>1, <1>2, <2>3 DEF PhysOf
      <3>2. /\ threads[i].phys \in ListSet /\ HashOf(a) \in threads[i].phys.filter
            /\ threads[j].phys \in ListSet /\ HashOf(a) \in threads[j].phys.filter
        BY <1>2, <2>3, <3>1 DEF StoreInv, ListInv
      <3>3. Overlap(threads[i].phys, threads[j].phys).inter > 0
        BY <3>2, CommonBit
      <3>4. Row(i, j).tid1 = t /\ Row(i, j).tid2 = u
        BY <2>1, <3>1
      <3>5. Row(i, j).phys = Overlap(threads[i].phys, threads[j].phys)
        BY <2>1
      <3>6. Row(i, j).phys.inter > 0
        BY <3>3, <3>5
      <3>7. QED
        BY <3>1, <3>4, <3>6
    <2>4. QED
      BY <2>2, <2>3
  <1>3. StoreInv /\ ReportInv => SharingReported
    BY <1>2 DEF SharingReported
  <1>4. QED
    BY <1>3, StoreInvariance, ReportInvariance, PTL

-----------------------------------------------------------------------------
(* The types *)

(* What StoreInv leaves out: addresses of each kind in their own list, the *)
(* process and the core of a record, the descriptors left open.            *)
Kept(list, S) == list.addr \in [Entries -> S \cup {NoAddr}]

RecordKept(r) ==
  /\ r.pid = PidOf[r.tid] /\ r.core \in 0 .. core
  /\ Kept(r.virt, Addrs) /\ Kept(r.phys, PhysAddrs \cup {FAILURE})

Kinds ==
  /\ stage \in {"counting", "opening", "sampling", "reporting", "done", "exited", "crashed", "overrun"}
  /\ \A k \in DOMAIN threads : RecordKept(threads[k])
  /\ gone \subseteq Pids /\ leaked \in 0 .. FD_MAX

(* Recording writes an address of the kind the list is for.                *)
LEMMA RecordKeeps ==
  ASSUME NEW S, NEW X, NEW list, ListInv(list, X), Kept(list, S),
         NEW a \in AnyAddr, a \in S, HashOf(a) \in Bins
  PROVE  Kept(Record(list, a), S)
  <1> DEFINE known == Positions(list, a)
             s == Scratch(list, a)
  <1>1. ListInv(s, X) /\ s \in ListSet
    BY ScratchInv DEF ListInv
  <1>2. s.addr \in [Entries -> S \cup {NoAddr}]
    <2>1. CASE list.n < UNIQUE
      <3>1. s = [list EXCEPT !.addr = [list.addr EXCEPT ![list.n] = a]]
        BY <2>1 DEF Scratch
      <3>2. list \in ListSet /\ list.addr \in [Entries -> S \cup {NoAddr}]
        BY DEF ListInv, Kept
      <3>3. s.addr = [list.addr EXCEPT ![list.n] = a]
        BY <3>1, <3>2 DEF ListSet
      <3>4. QED
        BY <3>2, <3>3
    <2>2. CASE ~(list.n < UNIQUE)
      <3>1. s = [list EXCEPT !.freq = [list.freq EXCEPT ![0] = LowHalf[a], ![1] = HighHalf[a]]]
        BY <2>2 DEF Scratch
      <3>2. list \in ListSet
        BY DEF ListInv
      <3>3. s.addr = list.addr
        BY <3>1, <3>2 DEF ListSet
      <3>4. QED
        BY <3>3 DEF Kept
    <2>3. QED
      BY <2>1, <2>2
  <1>3. CASE known = {}
    <2>1. Record(list, a) = NewEntry(s, a)
      BY <1>3 DEF Record
    <2>2. NewEntry(s, a).addr = s.addr
      BY <1>1, ExtendFields, MarkFilterFields DEF NewEntry
    <2>3. QED
      BY <1>2, <2>1, <2>2 DEF Kept
  <1>4. CASE known # {}
    <2>1. Record(list, a) = [s EXCEPT !.freq = [s.freq EXCEPT ![Min(known)] = @ + 1]]
      BY <1>4 DEF Record
    <2> HIDE DEF s
    <2>2. Record(list, a).addr = s.addr
      BY <1>1, <2>1 DEF ListSet
    <2>3. QED
      BY <1>2, <2>2 DEF Kept
  <1>5. QED
    BY <1>3, <1>4

(* The first entry of a list is kept.                                      *)
LEMMA FirstKeeps ==
  ASSUME NEW S
  PROVE  /\ \A a \in S : Kept(FirstEntry(a), S)
         /\ Kept(EmptyList, S)
  BY DEF Kept, FirstEntry, EmptyList, MarkFilter

(* Storing a sample keeps virtual and physical addresses apart.            *)
LEMMA StoreKinds ==
  ASSUME StoreInv, Kinds, NEW tid, NEW a, NEW phys, Stored(tid, a, phys),
         NewThread(tid, a, phys) \/ KnownThread(tid, a, phys)
  PROVE  \A k \in DOMAIN threads' : RecordKept(threads[k])'
  <1> DEFINE P == PhysAddrs \cup {FAILURE}
  <1>1. /\ core' = core /\ a \in Addrs /\ a \in AnyAddr /\ HashOf(a) \in Bins
        /\ version = 6 => phys \in P /\ phys \in AnyAddr /\ HashOf(phys) \in Bins
    BY HashInBins DEF Stored, PhysFor, AnyAddr
  <1>2. threads \in Seq(ThreadSet)
    BY DEF StoreInv
  <1>3. CASE NewThread(tid, a, phys)
    <2> DEFINE V == FirstEntry(a)
               Q == IF version = 6 THEN FirstEntry(phys) ELSE EmptyList
               new == [pid |-> PidOf[tid], tid |-> tid, core |-> core, virt |-> V, phys |-> Q]
    <2>1. Kept(V, Addrs) /\ Kept(Q, P)
      <3>1. Kept(V, Addrs)
        BY <1>1, FirstKeeps
      <3>2. CASE version = 6
        BY <1>1, <3>2, FirstKeeps
      <3>3. CASE version # 6
        BY <1>1, <3>3, FirstKeeps DEF AnyAddr
      <3>4. QED
        BY <3>1, <3>2, <3>3
    <2>2. threads' = Append(threads, new)
      BY <1>3 DEF NewThread
    <2> HIDE DEF V, Q
    <2>3. core \in 0 .. core
      BY StoreAssumption DEF StoreInv
    <2>4. RecordKept(new)
      BY <2>1, <2>3 DEF RecordKept
    <2> HIDE DEF new
    <2>5. \A k \in DOMAIN threads' : threads'[k] = new \/ (k \in DOMAIN threads /\ threads'[k] = threads[k])
      BY <1>2, <2>2
    <2>6. \A k \in DOMAIN threads' : RecordKept(threads'[k])
      BY <2>4, <2>5 DEF Kinds
    <2>7. QED
      BY <1>1, <2>6 DEF RecordKept, Kept
  <1>4. CASE KnownThread(tid, a, phys)
    <2>1. PICK m \in DOMAIN threads : threads[m].tid = tid
      BY <1>4 DEF KnownThread, IndexOf
    <2>2. IndexOf(tid) = {m} /\ m \in Nat
      BY <2>1 DEF IndexOf, StoreInv, OneRecordPerThread
    <2>3. Min(IndexOf(tid)) = m
      BY <2>2 DEF Min
    <2> DEFINE V == Record(threads[m].virt, a)
               Q == IF version = 6 THEN Record(threads[m].phys, phys) ELSE threads[m].phys
               new == [pid |-> threads[m].pid, tid |-> threads[m].tid, core |-> threads[m].core,
                       virt |-> V, phys |-> Q]
    <2>4. RecordKept(threads[m])
      BY <2>1 DEF Kinds
    <2>5. Kept(V, Addrs) /\ Kept(Q, P)
      <3>1. /\ ListInv(threads[m].virt, VirtOf(threads[m].tid)) /\ ListInv(threads[m].phys, PhysOf(threads[m].tid))
            /\ Kept(threads[m].virt, Addrs) /\ Kept(threads[m].phys, P)
        BY <2>1, <2>4 DEF StoreInv, RecordKept
      <3>2. Kept(V, Addrs)
        BY <1>1, <3>1, RecordKeeps
      <3>3. Kept(Q, P)
        BY <1>1, <3>1, RecordKeeps
      <3>4. QED
        BY <3>2, <3>3
    <2>6. threads' = [threads EXCEPT ![m] = new]
      BY <2>3, <1>4 DEF KnownThread
    <2> HIDE DEF V, Q
    <2>7. RecordKept(new)
      BY <2>4, <2>5 DEF RecordKept
    <2> HIDE DEF new
    <2>8. \A k \in DOMAIN threads' : threads'[k] = new \/ (k \in DOMAIN threads /\ threads'[k] = threads[k])
      BY <1>2, <2>1, <2>6
    <2>9. \A k \in DOMAIN threads' : RecordKept(threads'[k])
      BY <2>7, <2>8 DEF Kinds
    <2>10. QED
      BY <1>1, <2>9 DEF RecordKept, Kept
  <1>5. QED
    BY <1>3, <1>4

(* The types hold in every reachable state: numbers of entries never grow  *)
(* past UNIQUE, although nothing tests them against it.                    *)
THEOREM TypeCorrect == Spec => []TypeOK
  <1>1. Init => Kinds
    BY StoreAssumption DEF Init, Kinds
  <1>2. ASSUME StoreInv, Kinds, [Next]_vars PROVE Kinds'
    <2> USE <1>2
    <2>1. ASSUME NEW tid \in Tids, NEW a \in Addrs, StoreSample(tid, a) PROVE Kinds'
      <3>1. PICK phys \in PhysAddrs \cup {FAILURE, NoAddr} :
              /\ IF version = 6 THEN Translate(PidOf[tid], a, phys)
                                ELSE phys = NoAddr /\ UNCHANGED <<leaked, gone>>
              /\ NewThread(tid, a, phys) \/ KnownThread(tid, a, phys)
              /\ history' = Append(history, [tid |-> tid, addr |-> a, phys |-> phys])
        BY <2>1 DEF StoreSample
      <3>2. PhysFor(phys)
        BY <3>1, StoreAssumption, SMTT(30) DEF Translate, PhysFor
      <3>3. Stored(tid, a, phys)
        BY <2>1, <3>1, <3>2 DEF StoreSample, Outside, Stored
      <3>4. \A k \in DOMAIN threads' : RecordKept(threads[k])'
        BY <3>1, <3>3, StoreKinds
      <3>5. gone' \subseteq Pids /\ leaked' \in 0 .. FD_MAX
        <4>1. PidOf[tid] \in Pids /\ leaked \in 0 .. FD_MAX /\ gone \subseteq Pids /\ FD_MAX \in Nat
          BY StoreAssumption DEF Kinds, Pids
        <4>2. \/ UNCHANGED <<leaked, gone>>
              \/ leaked < FD_MAX /\ leaked' = leaked + 1 /\ gone' = gone \cup {PidOf[tid]}
          BY <3>1 DEF Translate
        <4>3. QED
          BY <4>1, <4>2
      <3>6. stage' = stage
        BY <2>1 DEF StoreSample
      <3>7. QED
        BY <3>4, <3>5, <3>6 DEF Kinds
    <2>2. ASSUME UNCHANGED threads, core' \in Nat, core' >= core
          PROVE  \A k \in DOMAIN threads' : RecordKept(threads[k])'
      <3>1. core \in Nat /\ core' \in Nat
        BY <2>2, StoreAssumption DEF StoreInv
      <3>2. 0 .. core \subseteq 0 .. core'
        BY <2>2, <3>1
      <3>3. QED
        BY <2>2, <3>2 DEF Kinds, RecordKept, Kept
    <2>3. core \in Nat
      BY StoreAssumption DEF StoreInv
    <2>4. CASE NextCore
      <3>1. UNCHANGED <<threads, gone, leaked>> /\ core' \in Nat /\ core' >= core
            /\ stage' \in {stage, "reporting"}
        BY <2>3, <2>4 DEF NextCore
      <3>2. QED
        BY <2>2, <3>1 DEF Kinds
    <2>5. CASE CountEvents \/ StartSampling \/ CheckIntersection \/ UNCHANGED vars
      <3>1. UNCHANGED <<threads, gone, leaked, core>>
            /\ stage' \in {stage, "opening", "done", "exited", "sampling", "crashed"}
        BY <2>5 DEF CountEvents, StartSampling, CheckIntersection, vars
      <3>2. core' \in Nat /\ core' >= core
        BY <2>3, <3>1
      <3>3. QED
        BY <2>2, <3>1, <3>2 DEF Kinds
    <2>6. ASSUME NEW p \in Pids, ProcessExits(p) PROVE Kinds'
      <3>1. UNCHANGED <<threads, leaked, core, stage>> /\ gone' = gone \cup {p}
        BY <2>6 DEF ProcessExits
      <3>2. core' \in Nat /\ core' >= core
        BY <2>3, <3>1
      <3>3. QED
        BY <2>2, <2>6, <3>1, <3>2 DEF Kinds
    <2>7. ASSUME NEW tid \in Tids, NEW a \in Addrs, StoreOutside(tid, a) PROVE Kinds'
      <3>1. UNCHANGED <<threads, gone, leaked, core>> /\ stage' = "overrun"
        BY <2>7 DEF StoreOutside
      <3>2. core' \in Nat /\ core' >= core
        BY <2>3, <3>1
      <3>3. QED
        BY <2>2, <3>1, <3>2 DEF Kinds
    <2>8. QED
      BY <2>1, <2>4, <2>5, <2>6, <2>7 DEF Next
  <1>3. StoreInv /\ Kinds => TypeOK
    <2>1. ASSUME StoreInv, Kinds, NEW k \in DOMAIN threads
          PROVE  /\ threads[k].tid \in Tids /\ threads[k].pid = PidOf[threads[k].tid]
                 /\ threads[k].core \in 0 .. core
                 /\ ListOK(threads[k].virt, Addrs) /\ ListOK(threads[k].phys, PhysAddrs \cup {FAILURE})
      <3>1. threads[k] \in ThreadSet /\ RecordKept(threads[k])
        BY <2>1 DEF StoreInv, Kinds
      <3>2. QED
        BY <3>1 DEF ThreadSet, RecordKept, Kept, ListSet, ListOK
    <2>2. QED
      BY <2>1 DEF StoreInv, Kinds, TypeOK
  <1>4. QED
    BY <1>1, <1>2, <1>3, StoreInvariance, PTL DEF Spec

-----------------------------------------------------------------------------
(* Physical overlaps *)

(* A descriptor is left open only by the lookup of a process that is gone, *)
(* so while none is gone no lookup has failed, and version 6 stored each   *)
(* sample under the memory it touched or its page offset (Told); and a     *)
(* report is one of the records as they are.                               *)
Told(s) == IF version = 6 THEN s.phys \in {Frame[PidOf[s.tid]][s.addr], Offset[s.addr]}
                          ELSE s.phys = NoAddr

LiveInv ==
  /\ report # {} => stage = "done" /\ report = Rows
  /\ leaked \in Nat /\ (leaked > 0 => gone # {})
  /\ gone = {} => \A k \in DOMAIN history : Told(history[k])

(* While every process lives, no lookup fails.                             *)
LEMMA LiveInvariance ==
  ASSUME FD_MAX # 0
  PROVE  Spec => []LiveInv
  <1>1. Init => LiveInv
    BY DEF Init, LiveInv
  <1>2. ASSUME StoreInv, LiveInv, [Next]_vars PROVE LiveInv'
    <2> USE <1>2
    <2>0. version' = version
      BY DEF Next, CountEvents, StartSampling, NextCore, CheckIntersection, StoreSample,
             StoreOutside, ProcessExits, vars
    <2>1. ASSUME NEW tid \in Tids, NEW a \in Addrs, StoreSample(tid, a) PROVE LiveInv'
      <3>1. PICK phys \in PhysAddrs \cup {FAILURE, NoAddr} :
              /\ IF version = 6 THEN Translate(PidOf[tid], a, phys)
                                ELSE phys = NoAddr /\ UNCHANGED <<leaked, gone>>
              /\ history' = Append(history, [tid |-> tid, addr |-> a, phys |-> phys])
        BY <2>1 DEF StoreSample
      <3>2. \/ UNCHANGED <<leaked, gone>>
            \/ leaked' = leaked + 1 /\ gone' = gone \cup {PidOf[tid]}
        BY <3>1 DEF Translate
      <3>3. leaked' \in Nat /\ (leaked' > 0 => gone' # {}) /\ (gone' = {} => gone = {})
        BY <3>2 DEF LiveInv
      <3> DEFINE new == [tid |-> tid, addr |-> a, phys |-> phys]
      <3>4. ASSUME gone' = {} PROVE Told(new)
        <4>1. gone = {} /\ leaked = 0 /\ FD_MAX \in Nat
          BY <3>3, <3>4, StoreAssumption DEF LiveInv
        <4>2. ~OpenFails(PidOf[tid])
          BY <4>1 DEF OpenFails
        <4>3. version = 6 => phys \in {Frame[PidOf[tid]][a], Offset[a]}
          BY <3>1, <3>4, <4>2 DEF Translate
        <4>4. version # 6 => phys = NoAddr
          BY <3>1
        <4>5. QED
          BY <4>3, <4>4 DEF Told
      <3>5. gone' = {} => \A k \in DOMAIN history' : Told(history[k])'
        <4>1. history \in Seq(SampleSet) /\ history' = Append(history, new)
          BY <3>1 DEF StoreInv
        <4> HIDE DEF new
        <4>2. \A k \in DOMAIN history' :
                history'[k] = new \/ (k \in DOMAIN history /\ history'[k] = history[k])
          BY <4>1
        <4>3. QED
          BY <2>0, <3>3, <3>4, <4>2 DEF LiveInv, Told
      <3>6. report' = {}
        BY <2>1 DEF StoreSample, LiveInv
      <3>7. QED
        BY <3>3, <3>5, <3>6 DEF LiveInv
    <2>2. CASE CheckIntersection
      <3>1. report' = Rows /\ UNCHANGED <<version, threads, history, gone, leaked>> /\ stage' = "done"
        BY <2>2 DEF CheckIntersection, Rows
      <3>2. Rows' = Rows
        BY <3>1 DEF Rows, Row
      <3>3. QED
        BY <2>0, <3>1, <3>2 DEF LiveInv, Told
    <2>3. CASE UNCHANGED vars
      <3>1. Rows' = Rows
        BY <2>3 DEF vars, Rows, Row
      <3>2. QED
        BY <2>3, <3>1 DEF LiveInv, Told, vars
    <2>4. CASE CountEvents \/ StartSampling \/ NextCore
      <3>1. report' = {} /\ UNCHANGED <<gone, leaked, history>>
        BY <2>4 DEF CountEvents, StartSampling, NextCore, LiveInv
      <3>2. QED
        BY <2>0, <3>1 DEF LiveInv, Told
    <2>5. ASSUME NEW p \in Pids, ProcessExits(p) PROVE LiveInv'
      <3>1. report' = {} /\ leaked' = leaked /\ gone' # {}
        BY <2>5 DEF ProcessExits, LiveInv
      <3>2. QED
        BY <2>0, <3>1 DEF LiveInv, Told
    <2>6. ASSUME NEW tid \in Tids, NEW a \in Addrs, StoreOutside(tid, a) PROVE LiveInv'
      <3>1. report' = {} /\ UNCHANGED <<gone, leaked, history>>
        BY <2>6 DEF StoreOutside, LiveInv
      <3>2. QED
        BY <2>0, <3>1 DEF LiveInv, Told
    <2>7. QED
      BY <2>1, <2>2, <2>3, <2>4, <2>5, <2>6 DEF Next
  <1>3. QED
    BY <1>1, <1>2, StoreInvariance, PTL DEF Spec

(* With any descriptor to begin with: while every sampled process is       *)
(* alive, two threads have a common bit in the physical report only if a   *)
(* sample of each touched the same memory, or their two translations have  *)
(* one hash, or they were stored as one because a page was absent.         *)
THEOREM OverlapCauses ==
  ASSUME FD_MAX # 0
  PROVE  Spec => []OverlapExplained
  <1>1. ASSUME StoreInv, LiveInv, gone = {}, NEW r \in report, r.phys.inter > 0
        PROVE  \E j \in SampledBy(r.tid1), k \in SampledBy(r.tid2) :
                 /\ HashOf(history[j].phys) = HashOf(history[k].phys)
                 /\ history[j].phys = history[k].phys =>
                      TrueAddr(j) = TrueAddr(k) \/ Absent(j) \/ Absent(k)
    <2>1. PICK m \in DOMAIN threads, n \in DOMAIN threads : r = Row(m, n)
      BY <1>1 DEF LiveInv, Rows
    <2> DEFINE x == threads[m].phys
               y == threads[n].phys
    <2>2. r.tid1 = threads[m].tid /\ r.tid2 = threads[n].tid /\ r.phys = Overlap(x, y)
      BY <2>1 DEF Row
    <2>3. Cardinality(x.filter \cap y.filter) > 0
      BY <1>1, <2>2 DEF Overlap
    <2>4. PICK b \in x.filter \cap y.filter : TRUE
      BY <2>3, FS_EmptySet
    <2>5. x.filter = {HashOf(a) : a \in PhysOf(r.tid1)} /\ y.filter = {HashOf(a) : a \in PhysOf(r.tid2)}
      BY <1>1, <2>2 DEF StoreInv, ListInv
    <2>6. PICK u \in PhysOf(r.tid1), v \in PhysOf(r.tid2) : HashOf(u) = HashOf(v)
      BY <2>4, <2>5
    <2>7. PICK j \in SampledBy(r.tid1) : history[j].phys = u /\ u # NoAddr
      BY <2>6 DEF PhysOf
    <2>8. PICK k \in SampledBy(r.tid2) : history[k].phys = v /\ v # NoAddr
      BY <2>6 DEF PhysOf
    <2>9. /\ history[j].phys = TrueAddr(j) \/ Absent(j)
          /\ history[k].phys = TrueAddr(k) \/ Absent(k)
      BY <1>1, <2>7, <2>8 DEF LiveInv, Told, SampledBy, TrueAddr, Absent
    <2>10. QED
      BY <2>6, <2>7, <2>8, <2>9
  <1>2. StoreInv /\ LiveInv => OverlapExplained
    BY <1>1 DEF OverlapExplained
  <1>3. QED
    BY <1>2, StoreInvariance, LiveInvariance, PTL

-----------------------------------------------------------------------------
(* The counts *)

(* The counts f of the members of S, unit by unit: there are as many as    *)
(* the sum of the counts.                                                  *)
Units(f, S) == {u \in S \X Nat : u[2] \in 1 .. f[u[1]]}

(* One step of the recursion by which the sum is defined.                  *)
SumStep(f, S, h) ==
  [s \in SUBSET S |-> IF s = {} THEN 0 ELSE LET x == CHOOSE x \in s : TRUE IN f[x] + h[s \ {x}]]

(* A set of subsets of a finite set has a least one.                       *)
LEMMA LeastSubset ==
  ASSUME NEW S, IsFiniteSet(S), NEW T, T \subseteq SUBSET S, T # {}
  PROVE  \E x \in T : \A y \in T : ~(y \subseteq x /\ y # x)
  <1>1. IsWellFoundedOn(StrictSubsetOrdering(S), FiniteSubsetsOf(S))
    BY FS_StrictSubsetOrderingWellFounded
  <1>2. T \subseteq FiniteSubsetsOf(S)
    BY FS_Subset DEF FiniteSubsetsOf
  <1>3. PICK x \in T : \A y \in T : <<y, x>> \notin StrictSubsetOrdering(S)
    BY <1>1, <1>2, WFMin
  <1>4. QED
    BY <1>3 DEF StrictSubsetOrdering

(* One count is as many units.                                             *)
LEMMA UnitsOfOne ==
  ASSUME NEW f, NEW x, f[x] \in Nat
  PROVE  IsFiniteSet(Units(f, {x})) /\ Cardinality(Units(f, {x})) = f[x]
  <1> DEFINE g == [k \in 1 .. f[x] |-> <<x, k>>]
  <1>1. IsFiniteSet(1 .. f[x]) /\ Cardinality(1 .. f[x]) = f[x]
    BY FS_Interval, SMTT(30)
  <1>2. g \in Bijection(1 .. f[x], Units(f, {x}))
    <2>1. \A k \in 1 .. f[x] : g[k] = <<x, k>> /\ <<x, k>> \in Units(f, {x})
      BY DEF Units
    <2>2. g \in [1 .. f[x] -> Units(f, {x})]
      BY <2>1
    <2>3. \A k, l \in 1 .. f[x] : g[k] = g[l] => k = l
      BY <2>1
    <2>4. \A u \in Units(f, {x}) : \E k \in 1 .. f[x] : g[k] = u
      BY <2>1 DEF Units
    <2> HIDE DEF g
    <2>5. QED
      BY <2>2, <2>3, <2>4 DEF Bijection, Injection, Surjection, IsInjective
  <1>3. QED
    BY <1>1, <1>2, FS_Bijection DEF ExistsBijection

(* The sum of the counts of a finite set is the number of its units.       *)
LEMMA SumCounts ==
  ASSUME NEW list, NEW S, IsFiniteSet(S), IsFiniteSet(Units(list.ffreq, S)),
         \A b \in S : list.ffreq[b] \in Nat
  PROVE  Total(list, S) = Cardinality(Units(list.ffreq, S))
  <1> PICK f : f = list.ffreq
    OBVIOUS
  <1> DEFINE h == CHOOSE h : h = SumStep(f, S, h)
             g == [s \in SUBSET S |-> Cardinality(Units(f, s))]
  <1>1. Total(list, S) = h[S]
    BY DEF Total, MapThenSumSet, MapThenFoldSet, SumStep
  <1>2. ASSUME NEW s \in SUBSET S, NEW x \in s
        PROVE  Cardinality(Units(f, s)) = f[x] + Cardinality(Units(f, s \ {x}))
    <2>1. /\ Units(f, s) = Units(f, {x}) \cup Units(f, s \ {x})
          /\ Units(f, {x}) \cap Units(f, s \ {x}) = {}
      BY DEF Units
    <2>2. IsFiniteSet(Units(f, s \ {x}))
      <3>1. Units(f, s \ {x}) \in SUBSET Units(f, S)
        BY DEF Units
      <3>2. QED
        BY <3>1, FS_Subset
    <2>3. IsFiniteSet(Units(f, {x})) /\ Cardinality(Units(f, {x})) = f[x] /\ f[x] \in Nat
      BY UnitsOfOne
    <2>4. Cardinality(Units(f, s \ {x})) \in Nat
      BY <2>2, FS_CardinalityType
    <2>5. Cardinality(Units(f, s)) =
            Cardinality(Units(f, {x})) + Cardinality(Units(f, s \ {x})) - Cardinality({})
      <3> PICK A, B : A = Units(f, {x}) /\ B = Units(f, s \ {x})
        OBVIOUS
      <3>1. Cardinality(A \cup B) = Cardinality(A) + Cardinality(B) - Cardinality(A \cap B)
        <4>1. IsFiniteSet(A) /\ IsFiniteSet(B)
          BY <2>2, <2>3
        <4>2. QED
          BY <4>1, FS_Union
      <3>2. QED
        BY <2>1, <3>1, Zenon
    <2>6. Cardinality({}) = 0
      BY FS_EmptySet
    <2>7. QED
      BY <2>3, <2>4, <2>5, <2>6
  <1>3. Cardinality(Units(f, {})) = 0
    <2>1. Units(f, {}) = {}
      BY DEF Units
    <2>2. QED
      BY <2>1, FS_EmptySet
  <1>4. g = SumStep(f, S, g)
    <2>1. ASSUME NEW s \in SUBSET S
          PROVE  g[s] = IF s = {} THEN 0 ELSE LET x == CHOOSE x \in s : TRUE IN f[x] + g[s \ {x}]
      <3>1. CASE s = {}
        BY <1>3, <3>1
      <3>2. CASE s # {}
        <4> PICK x \in s : x = CHOOSE y \in s : TRUE
          BY <3>2
        <4>1. g[s] = f[x] + g[s \ {x}]
          BY <1>2
        <4>2. QED
          BY <3>2, <4>1
      <3>3. QED
        BY <3>1, <3>2
    <2>2. QED
      BY <2>1 DEF SumStep
  <1>5. h = SumStep(f, S, h)
    BY <1>4, Zenon
  <1> HIDE DEF h
  <1>6. ASSUME NEW s \in SUBSET S PROVE h[s] = g[s]
    <2> DEFINE Bad == {t \in SUBSET S : h[t] # g[t]}
    <2>1. SUFFICES ASSUME Bad # {} PROVE FALSE
      OBVIOUS
    <2>2. \A t \in SUBSET S : t \in Bad <=> h[t] # g[t]
      OBVIOUS
    <2>3. Bad \subseteq SUBSET S
      OBVIOUS
    <2> HIDE DEF Bad
    <2>4. PICK t \in Bad : \A y \in Bad : ~(y \subseteq t /\ y # t)
      BY <2>1, <2>3, LeastSubset
    <2>5. t \in SUBSET S /\ h[t] # g[t]
      BY <2>2, <2>3
    <2>6. CASE t = {}
      BY <1>4, <1>5, <2>5, <2>6 DEF SumStep
    <2>7. CASE t # {}
      <3> PICK x \in t : x = CHOOSE y \in t : TRUE
        BY <2>7
      <3>1. t \ {x} \in SUBSET S /\ t \ {x} \subseteq t /\ t \ {x} # t
        BY <2>5
      <3>2. h[t \ {x}] = g[t \ {x}]
        BY <2>2, <2>4, <3>1
      <3> HIDE DEF g
      <3>3. h[t] = f[x] + h[t \ {x}]
        BY <1>5, <2>5, <2>7 DEF SumStep
      <3>4. g[t] = f[x] + g[t \ {x}]
        BY <1>4, <2>5, <2>7 DEF SumStep
      <3>5. QED
        BY <2>5, <3>2, <3>3, <3>4
    <2>8. QED
      BY <2>6, <2>7
  <1>7. QED
    BY <1>1, <1>6

(* The addresses of the samples f, and the samples of address x.           *)
Sampled(f) == {f[k] : k \in DOMAIN f}
At(f, x)   == {k \in DOMAIN f : f[k] = x}

(* A list counts the samples f, whose addresses are f[k]: it has one entry *)
(* for every address, with the number of its samples, and the counts of    *)
(* its filter bits are one unit for each entry.                            *)
Counted(list, f) ==
  /\ IsFiniteSet(DOMAIN f) /\ IsFiniteSet(Sampled(f))
  /\ list.n = Cardinality(Sampled(f))
  /\ {list.addr[e] : e \in 0 .. list.n - 1} = Sampled(f)
  /\ \A e, d \in 0 .. list.n - 1 : list.addr[e] = list.addr[d] => e = d
  /\ \A e \in 0 .. list.n - 1 : list.freq[e] = Cardinality(At(f, list.addr[e]))
  /\ \A b \in Bins \ list.filter : list.ffreq[b] = 0
  /\ IsFiniteSet(Units(list.ffreq, Bins)) /\ Cardinality(Units(list.ffreq, Bins)) = list.n

(* The samples f and sample m, of address a.                               *)
OneMore(f, m, a) == [k \in DOMAIN f \cup {m} |-> IF k = m THEN a ELSE f[k]]

(* What one sample more does to the addresses and to the samples of each.  *)
LEMMA OneMoreSamples ==
  ASSUME NEW f, NEW m, m \notin DOMAIN f, NEW a, IsFiniteSet(DOMAIN f),
         NEW g, g = OneMore(f, m, a)
  PROVE  /\ IsFiniteSet(DOMAIN g)
         /\ Sampled(g) = Sampled(f) \cup {a}
         /\ Cardinality(At(g, a)) = Cardinality(At(f, a)) + 1
         /\ \A x : x # a => At(g, x) = At(f, x)
  <1>1. /\ DOMAIN g = DOMAIN f \cup {m} /\ g[m] = a
        /\ \A k \in DOMAIN f : g[k] = f[k]
    BY DEF OneMore
  <1>2. IsFiniteSet(DOMAIN g)
    BY <1>1, FS_AddElement
  <1>3. Sampled(g) = Sampled(f) \cup {a}
    BY <1>1 DEF Sampled
  <1>4. At(g, a) = At(f, a) \cup {m} /\ m \notin At(f, a)
    BY <1>1 DEF At
  <1>5. Cardinality(At(f, a) \cup {m}) = Cardinality(At(f, a)) + 1
    <2>1. At(f, a) \in SUBSET DOMAIN f
      BY DEF At
    <2>2. IsFiniteSet(At(f, a))
      BY <2>1, FS_Subset
    <2>3. QED
      BY <1>4, <2>2, FS_AddElement
  <1>6. \A x : x # a => At(g, x) = At(f, x)
    BY <1>1 DEF At
  <1>7. QED
    BY <1>2, <1>3, <1>4, <1>5, <1>6

(* Marking a bit adds one unit to the counts of the bits.                  *)
LEMMA MarkUnits ==
  ASSUME NEW list \in ListSet, NEW a \in AnyAddr, HashOf(a) \in Bins,
         IsFiniteSet(Units(list.ffreq, Bins)),
         \A b \in Bins \ list.filter : list.ffreq[b] = 0
  PROVE  LET new == MarkFilter(list, a) IN
         /\ IsFiniteSet(Units(new.ffreq, Bins))
         /\ Cardinality(Units(new.ffreq, Bins)) = Cardinality(Units(list.ffreq, Bins)) + 1
         /\ \A b \in Bins \ new.filter : new.ffreq[b] = 0
         /\ new.freq = list.freq
  <1> PICK h \in Bins : h = HashOf(a)
    OBVIOUS
  <1> PICK ff \in [Bins -> Nat] : ff = list.ffreq
    BY DEF ListSet
  <1> DEFINE new == MarkFilter(list, a)
             gg == [ff EXCEPT ![h] = @ + 1]
             u == <<h, ff[h] + 1>>
  <1>1. /\ new.ffreq = gg /\ new.filter = list.filter \cup {h} /\ new.freq = list.freq
    BY DEF MarkFilter
  <1>2. /\ gg \in [Bins -> Nat] /\ gg[h] = ff[h] + 1
        /\ \A b \in Bins \ {h} : gg[b] = ff[b]
    OBVIOUS
  <1>3. Units(gg, Bins) = Units(ff, Bins) \cup {u} /\ u \notin Units(ff, Bins)
    <2>1. \A b \in Bins, k \in Nat : <<b, k>> \in Units(gg, Bins) <=> <<b, k>> \in Units(ff, Bins) \cup {u}
      BY <1>2 DEF Units
    <2>2. Units(gg, Bins) \subseteq Bins \X Nat /\ Units(ff, Bins) \cup {u} \subseteq Bins \X Nat
      BY <1>2 DEF Units
    <2>3. u \notin Units(ff, Bins)
      BY DEF Units
    <2>4. QED
      BY <2>1, <2>2, <2>3
  <1> HIDE DEF gg, u, new
  <1>4. /\ IsFiniteSet(Units(ff, Bins) \cup {u})
        /\ Cardinality(Units(ff, Bins) \cup {u}) = Cardinality(Units(ff, Bins)) + 1
    BY <1>3, FS_AddElement
  <1>5. \A b \in Bins \ new.filter : new.ffreq[b] = 0
    BY <1>1, <1>2
  <1>6. QED
    BY <1>1, <1>3, <1>4, <1>5 DEF new

(* A new list counts its one sample.                                       *)
LEMMA FirstCounted ==
  ASSUME NEW a \in AnyAddr, HashOf(a) \in Bins, NEW m, NEW f, DOMAIN f = {m}, f[m] = a
  PROVE  Counted(FirstEntry(a), f)
  <1> USE StoreAssumption
  <1> DEFINE ad == [j \in Entries |-> IF j = 0 THEN a ELSE NoAddr]
             fr == [j \in Entries |-> IF j = 0 THEN 1 ELSE 0]
             ff == [b \in Bins |-> 0]
             first == [addr |-> ad, freq |-> fr, n |-> 1, filter |-> {}, ffreq |-> ff]
             new == FirstEntry(a)
  <1>1. ad \in [Entries -> AnyAddr \cup {NoAddr}] /\ ad[0] = a /\ fr[0] = 1
    BY DEF Entries
  <1>2. fr \in [Entries -> Int] /\ ff \in [Bins -> Nat]
    OBVIOUS
  <1>3. new = MarkFilter(first, a)
    BY DEF FirstEntry
  <1>4. Units(ff, Bins) = {}
    BY DEF Units
  <1>5. \A b \in Bins : ff[b] = 0
    OBVIOUS
  <1>6. DOMAIN f = {m} /\ f[m] = a
    OBVIOUS
  <1> HIDE DEF ad, fr, ff
  <1>7. first \in ListSet /\ first.n = 1 /\ first.addr = ad /\ first.freq = fr /\ first.ffreq = ff
    BY <1>1, <1>2 DEF ListSet
  <1> HIDE DEF first, new
  <1>8. new.n = 1 /\ new.addr = ad
    BY <1>3, <1>7, MarkFilterFields
  <1>9. /\ IsFiniteSet(Units(new.ffreq, Bins)) /\ Cardinality(Units(new.ffreq, Bins)) = 0 + 1
        /\ \A b \in Bins \ new.filter : new.ffreq[b] = 0
        /\ new.freq = fr
    <2>1. /\ IsFiniteSet(Units(first.ffreq, Bins)) /\ Cardinality(Units(first.ffreq, Bins)) = 0
          /\ \A b \in Bins \ first.filter : first.ffreq[b] = 0
      BY <1>4, <1>5, <1>7, FS_EmptySet
    <2>2. QED
      BY <1>3, <1>7, <2>1, MarkUnits
  <1>10. Sampled(f) = {a} /\ At(f, a) = {m}
    BY <1>6 DEF Sampled, At
  <1>11. IsFiniteSet({m}) /\ IsFiniteSet({a}) /\ Cardinality({a}) = 1 /\ Cardinality({m}) = 1
    BY FS_Singleton
  <1>12. 0 .. new.n - 1 = {0}
    BY <1>8
  <1>13. {new.addr[e] : e \in {0}} = {a} /\ new.addr[0] = a /\ new.freq[0] = 1
    BY <1>1, <1>8, <1>9
  <1>14. ASSUME NEW e \in 0 .. new.n - 1
         PROVE  new.freq[e] = Cardinality(At(f, new.addr[e]))
    <2>1. e = 0
      BY <1>12
    <2>2. At(f, new.addr[e]) = {m}
      BY <1>10, <1>13, <2>1
    <2>3. QED
      BY <1>11, <1>13, <2>1, <2>2
  <1>15. \A e, d \in 0 .. new.n - 1 : new.addr[e] = new.addr[d] => e = d
    BY <1>12
  <1>16. {new.addr[e] : e \in 0 .. new.n - 1} = Sampled(f)
    BY <1>10, <1>12, <1>13
  <1>17. /\ IsFiniteSet(DOMAIN f) /\ IsFiniteSet(Sampled(f))
         /\ new.n = Cardinality(Sampled(f))
    BY <1>6, <1>8, <1>10, <1>11
  <1>18. Cardinality(Units(new.ffreq, Bins)) = new.n
    BY <1>8, <1>9
  <1>19. Counted(new, f)
    BY <1>9, <1>14, <1>15, <1>16, <1>17, <1>18 DEF Counted
  <1>20. QED
    BY <1>19 DEF new

(* While the arrays have room, recording an address counts it.             *)
LEMMA RecordCounted ==
  ASSUME NEW list \in ListSet, NEW f, Counted(list, f), list.n < UNIQUE,
         NEW a \in AnyAddr, HashOf(a) \in Bins, NEW m, m \notin DOMAIN f
  PROVE  Counted(Record(list, a), OneMore(f, m, a))
  <1> USE StoreAssumption
  <1> PICK g : g = OneMore(f, m, a)
    OBVIOUS
  <1> DEFINE n == list.n
             known == Positions(list, a)
             sampled == Sampled(f)
             s == Scratch(list, a)
             ad == [list.addr EXCEPT ![n] = a]
             new == Record(list, a)
  <1>1. /\ n \in Nat /\ n < UNIQUE /\ n \in Entries /\ 0 .. n - 1 \subseteq Entries
        /\ list.addr \in [Entries -> AnyAddr \cup {NoAddr}] /\ list.freq \in [Entries -> Int]
    BY DEF ListSet, Entries
  <1>2. /\ s = [list EXCEPT !.addr = ad] /\ s.addr = ad /\ s.freq = list.freq /\ s.n = n
        /\ s.filter = list.filter /\ s.ffreq = list.ffreq /\ s \in ListSet
    <2>1. s = [list EXCEPT !.addr = ad]
      BY DEF Scratch
    <2>2. ad \in [Entries -> AnyAddr \cup {NoAddr}]
      BY <1>1
    <2> HIDE DEF ad
    <2>3. QED
      BY <2>1, <2>2 DEF ListSet
  <1>3. ad[n] = a /\ \A e \in 0 .. n - 1 : ad[e] = list.addr[e]
    BY <1>1
  <1>4. /\ IsFiniteSet(DOMAIN f) /\ IsFiniteSet(sampled) /\ n = Cardinality(sampled)
        /\ {list.addr[e] : e \in 0 .. n - 1} = sampled
        /\ \A e, d \in 0 .. n - 1 : list.addr[e] = list.addr[d] => e = d
        /\ \A e \in 0 .. n - 1 : list.freq[e] = Cardinality(At(f, list.addr[e]))
        /\ \A b \in Bins \ list.filter : list.ffreq[b] = 0
        /\ IsFiniteSet(Units(list.ffreq, Bins)) /\ Cardinality(Units(list.ffreq, Bins)) = n
    BY DEF Counted
  <1>5. /\ \A e \in 0 .. n - 1 : list.addr[e] \in sampled
        /\ \A x \in sampled : \E e \in 0 .. n - 1 : list.addr[e] = x
        /\ \A x : x \in sampled <=> At(f, x) # {}
    BY <1>4 DEF Sampled, At
  <1>6. /\ IsFiniteSet(DOMAIN g)
        /\ Sampled(g) = sampled \cup {a}
        /\ Cardinality(At(g, a)) = Cardinality(At(f, a)) + 1
        /\ \A x : x # a => At(g, x) = At(f, x)
    BY <1>4, OneMoreSamples
  <1>7. Cardinality(At(f, a)) \in Nat
    <2>1. At(f, a) \in SUBSET DOMAIN f
      BY DEF At
    <2>2. QED
      BY <1>4, <2>1, FS_Subset, FS_CardinalityType
  <1> HIDE DEF sampled
  <1>8. a \in sampled <=> known # {}
    BY <1>5 DEF Positions
  <1>9. CASE known = {}
    <2> DEFINE x == Extend(s)
               fr == [list.freq EXCEPT ![n] = 1]
    <2>1. new = MarkFilter(x, a)
      BY <1>9 DEF Record, NewEntry
    <2>2. x.addr = ad /\ x.n = n + 1 /\ x.freq = fr /\ x.filter = list.filter /\ x.ffreq = list.ffreq
      BY <1>1, <1>2 DEF Extend
    <2>3. x \in ListSet
      BY <1>2, ExtendFields
    <2>4. fr[n] = 1 /\ \A e \in 0 .. n - 1 : fr[e] = list.freq[e]
      BY <1>1
    <2> HIDE DEF x, new, s, fr, ad
    <2>5. new.addr = ad /\ new.n = n + 1
      BY <2>1, <2>2, <2>3, MarkFilterFields
    <2>6. /\ IsFiniteSet(Units(new.ffreq, Bins)) /\ Cardinality(Units(new.ffreq, Bins)) = n + 1
          /\ \A b \in Bins \ new.filter : new.ffreq[b] = 0
          /\ new.freq = fr
      BY <1>4, <2>1, <2>2, <2>3, MarkUnits
    <2>7. a \notin sampled /\ At(f, a) = {}
      BY <1>5, <1>8, <1>9
    <2>8. IsFiniteSet(sampled \cup {a}) /\ Cardinality(sampled \cup {a}) = n + 1
      <3>1. /\ IsFiniteSet(sampled \cup {a})
            /\ Cardinality(sampled \cup {a}) = IF a \in sampled THEN Cardinality(sampled)
                                              ELSE Cardinality(sampled) + 1
        BY <1>4, FS_AddElement
      <3>2. QED
        BY <1>4, <2>7, <3>1
    <2>9. 0 .. new.n - 1 = (0 .. n - 1) \cup {n} /\ n \notin 0 .. n - 1
      BY <1>1, <2>5
    <2>10. {ad[e] : e \in (0 .. n - 1) \cup {n}} = sampled \cup {a}
      <3>1. \A e \in (0 .. n - 1) \cup {n} : ad[e] \in sampled \cup {a}
        BY <1>3, <1>5
      <3>2. \A x1 \in sampled \cup {a} : \E e \in (0 .. n - 1) \cup {n} : ad[e] = x1
        BY <1>3, <1>5
      <3> PICK D : D = (0 .. n - 1) \cup {n}
        OBVIOUS
      <3>3. {ad[e] : e \in D} \subseteq sampled \cup {a} /\ sampled \cup {a} \subseteq {ad[e] : e \in D}
        BY <3>1, <3>2
      <3>4. QED
        BY <3>3
    <2>11. \A e, d \in (0 .. n - 1) \cup {n} : ad[e] = ad[d] => e = d
      BY <1>3, <1>4, <1>5, <2>7
    <2>12. ASSUME NEW e \in (0 .. n - 1) \cup {n} PROVE fr[e] = Cardinality(At(g, ad[e]))
      <3>1. CASE e = n
        <4>1. Cardinality(At(f, a)) = 0
          BY <2>7, FS_EmptySet
        <4>2. QED
          BY <1>3, <1>6, <2>4, <3>1, <4>1
      <3>2. CASE e \in 0 .. n - 1
        <4>1. ad[e] = list.addr[e] /\ ad[e] # a
          BY <1>3, <1>5, <2>7, <3>2
        <4>2. At(g, ad[e]) = At(f, ad[e])
          BY <1>6, <4>1
        <4>3. fr[e] = Cardinality(At(f, ad[e]))
          BY <1>4, <2>4, <3>2, <4>1
        <4>4. QED
          BY <4>2, <4>3
      <3>3. QED
        BY <3>1, <3>2
    <2>13. /\ \A e, d \in 0 .. new.n - 1 : new.addr[e] = new.addr[d] => e = d
           /\ \A e \in 0 .. new.n - 1 : new.freq[e] = Cardinality(At(g, new.addr[e]))
           /\ {new.addr[e] : e \in 0 .. new.n - 1} = Sampled(g)
      <3>1. \A e, d \in 0 .. new.n - 1 : new.addr[e] = new.addr[d] => e = d
        BY <2>5, <2>9, <2>11
      <3>2. \A e \in 0 .. new.n - 1 : new.freq[e] = Cardinality(At(g, new.addr[e]))
        BY <2>5, <2>6, <2>9, <2>12
      <3>3. {new.addr[e] : e \in 0 .. new.n - 1} = Sampled(g)
        BY <1>6, <2>5, <2>9, <2>10, Zenon
      <3>4. QED
        BY <3>1, <3>2, <3>3
    <2>14. /\ IsFiniteSet(Sampled(g)) /\ new.n = Cardinality(Sampled(g))
           /\ Cardinality(Units(new.ffreq, Bins)) = new.n
      BY <1>6, <2>5, <2>6, <2>8
    <2>15. Counted(new, g)
      BY <1>6, <2>6, <2>13, <2>14 DEF Counted
    <2>16. QED
      BY <2>15 DEF new
  <1>10. CASE known # {}
    <2>1. PICK j \in 0 .. n - 1 : list.addr[j] = a
      BY <1>10 DEF Positions
    <2>2. known = {j}
      BY <1>4, <2>1 DEF Positions
    <2>3. Min(known) = j
      BY <2>2 DEF Min
    <2> DEFINE fr == [list.freq EXCEPT ![j] = @ + 1]
    <2>4. new = [s EXCEPT !.freq = fr]
      BY <1>2, <1>10, <2>3 DEF Record
    <2>5. fr[j] = list.freq[j] + 1 /\ \A e \in (0 .. n - 1) \ {j} : fr[e] = list.freq[e]
      BY <1>1, <2>1
    <2> HIDE DEF known, s, fr, new
    <2>6. new.addr = ad /\ new.n = n /\ new.freq = fr /\ new.filter = list.filter /\ new.ffreq = list.ffreq
      BY <1>2, <2>4 DEF ListSet
    <2> HIDE DEF ad
    <2>7. sampled \cup {a} = sampled
      BY <1>5, <1>8, <1>10
    <2>8. {ad[e] : e \in 0 .. n - 1} = sampled
      BY <1>3, <1>5
    <2>9. \A e, d \in 0 .. n - 1 : ad[e] = ad[d] => e = d
      BY <1>3, <1>4
    <2>10. ASSUME NEW e \in 0 .. n - 1 PROVE fr[e] = Cardinality(At(g, ad[e]))
      <3>1. CASE e = j
        <4>1. ad[e] = a /\ list.addr[e] = a
          BY <1>3, <2>1, <3>1
        <4>2. list.freq[e] = Cardinality(At(f, a))
          BY <1>4, <4>1
        <4>3. QED
          BY <1>6, <2>5, <3>1, <4>1, <4>2
      <3>2. CASE e # j
        <4>1. ad[e] = list.addr[e] /\ ad[e] # a
          BY <1>3, <1>4, <2>1, <3>2
        <4>2. At(g, ad[e]) = At(f, ad[e])
          BY <1>6, <4>1
        <4>3. QED
          BY <1>4, <2>5, <3>2, <4>1, <4>2
      <3>3. QED
        BY <3>1, <3>2
    <2>11. /\ \A e, d \in 0 .. new.n - 1 : new.addr[e] = new.addr[d] => e = d
           /\ \A e \in 0 .. new.n - 1 : new.freq[e] = Cardinality(At(g, new.addr[e]))
           /\ {new.addr[e] : e \in 0 .. new.n - 1} = Sampled(g)
      <3>1. /\ \A e, d \in 0 .. new.n - 1 : new.addr[e] = new.addr[d] => e = d
            /\ \A e \in 0 .. new.n - 1 : new.freq[e] = Cardinality(At(g, new.addr[e]))
        BY <2>6, <2>9, <2>10
      <3>2. {new.addr[e] : e \in 0 .. new.n - 1} = Sampled(g)
        BY <1>6, <2>6, <2>7, <2>8, Zenon
      <3>3. QED
        BY <3>1, <3>2
    <2>12. /\ IsFiniteSet(Sampled(g)) /\ new.n = Cardinality(Sampled(g))
           /\ IsFiniteSet(Units(new.ffreq, Bins)) /\ Cardinality(Units(new.ffreq, Bins)) = new.n
           /\ \A b \in Bins \ new.filter : new.ffreq[b] = 0
      BY <1>4, <1>6, <2>6, <2>7
    <2>13. Counted(new, g)
      BY <1>6, <2>11, <2>12 DEF Counted
    <2>14. QED
      BY <2>13 DEF new
  <1>11. QED
    BY <1>9, <1>10

-----------------------------------------------------------------------------
(* The samples of thread t, by their place in the history.                 *)
VirtSamples(t) == [k \in SampledBy(t) |-> history[k].addr]
PhysSamples(t) == [k \in SampledBy(t) |-> history[k].phys]

RecordCounts(r) ==
  /\ Counted(r.virt, VirtSamples(r.tid))
  /\ version = 6 => Counted(r.phys, PhysSamples(r.tid))

(* While no array was overrun, the lists of every record count the samples *)
(* of its thread.                                                          *)
CountInv == WithinUnique => \A i \in DOMAIN threads : RecordCounts(threads[i])

(* The exact counts say what CountsExact does: the sum over the filter is  *)
(* the number of units, and the bits outside it have none.                 *)
LEMMA CountedExact ==
  ASSUME NEW list \in ListSet, NEW f, Counted(list, f),
         NEW samples, DOMAIN samples = DOMAIN f, \A k \in DOMAIN f : samples[k][2] = f[k]
  PROVE  ListExact(list, samples)
  <1>1. {samples[k][2] : k \in DOMAIN samples} = Sampled(f)
    BY DEF Sampled
  <1>2. \A a : {k \in DOMAIN samples : samples[k][2] = a} = At(f, a)
    BY DEF At
  <1>3. /\ list.n = Cardinality(Sampled(f))
        /\ {list.addr[e] : e \in 0 .. list.n - 1} = Sampled(f)
        /\ \A e \in 0 .. list.n - 1 : list.freq[e] = Cardinality(At(f, list.addr[e]))
        /\ \A b \in Bins \ list.filter : list.ffreq[b] = 0
        /\ IsFiniteSet(Units(list.ffreq, Bins)) /\ Cardinality(Units(list.ffreq, Bins)) = list.n
    BY DEF Counted
  <1>4. Total(list, list.filter) = list.n
    <2>1. list.filter \in SUBSET Bins /\ list.ffreq \in [Bins -> Nat]
      BY DEF ListSet
    <2>2. IsFiniteSet(list.filter)
      <3>1. IsFiniteSet(Bins)
        BY FS_Interval, StoreAssumption DEF Bins
      <3>2. QED
        BY <2>1, <3>1, FS_Subset
    <2>3. Units(list.ffreq, list.filter) = Units(list.ffreq, Bins)
      <3>1. \A b \in Bins, k \in Nat : k \in 1 .. list.ffreq[b] => b \in list.filter
        BY <1>3, <2>1
      <3>2. QED
        BY <2>1, <3>1 DEF Units
    <2>4. \A b \in list.filter : list.ffreq[b] \in Nat
      BY <2>1
    <2>5. IsFiniteSet(Units(list.ffreq, list.filter))
      BY <1>3, <2>3
    <2>6. Total(list, list.filter) = Cardinality(Units(list.ffreq, list.filter))
      BY <2>2, <2>4, <2>5, SumCounts
    <2>7. QED
      BY <1>3, <2>3, <2>6
  <1>5. \A a \in Sampled(f) : \E e \in 0 .. list.n - 1 :
           list.addr[e] = a /\ list.freq[e] = Cardinality(At(f, a))
    BY <1>3
  <1>6. \A a \in Sampled(f) : \E e \in 0 .. list.n - 1 :
           list.addr[e] = a /\ list.freq[e] = Cardinality({k \in DOMAIN samples : samples[k][2] = a})
    <2>1. ASSUME NEW a \in Sampled(f), NEW e \in 0 .. list.n - 1,
                 list.freq[e] = Cardinality(At(f, a))
          PROVE  list.freq[e] = Cardinality({k \in DOMAIN samples : samples[k][2] = a})
      <3>1. {k \in DOMAIN samples : samples[k][2] = a} = At(f, a)
        BY <1>2
      <3>2. QED
        BY <2>1, <3>1, Zenon
    <2>2. QED
      BY <1>5, <2>1, Zenon
  <1>7. QED
    BY <1>1, <1>3, <1>4, <1>6, Zenon DEF ListExact

(* What one sample adds to those of its thread, and what is known before   *)
(* it when the arrays are not overrun after it.                            *)
LEMMA SamplesGrow ==
  ASSUME StoreInv, NEW tid, NEW a, NEW phys, Stored(tid, a, phys)
  PROVE  LET m == Len(history) + 1 IN
         /\ m \notin SampledBy(tid)
         /\ VirtSamples(tid)' = OneMore(VirtSamples(tid), m, a)
         /\ PhysSamples(tid)' = OneMore(PhysSamples(tid), m, phys)
         /\ \A t \in Tids \ {tid} : VirtSamples(t)' = VirtSamples(t) /\ PhysSamples(t)' = PhysSamples(t)
         /\ WithinUnique' => /\ WithinUnique
                             /\ Cardinality(Sampled(VirtSamples(tid))) < UNIQUE
                             /\ Cardinality(Sampled(PhysSamples(tid))) < UNIQUE
  <1> DEFINE s == [tid |-> tid, addr |-> a, phys |-> phys]
             m == Len(history) + 1
             n == Len(history)
  <1>1. tid \in Tids /\ s \in SampleSet /\ history \in Seq(SampleSet) /\ history' = Append(history, s)
    BY DEF Stored, PhysFor, SampleSet, StoreInv
  <1>2. s.tid = tid /\ s.addr = a /\ s.phys = phys
    OBVIOUS
  <1> HIDE DEF s
  <1>3. /\ n \in Nat /\ DOMAIN history = 1 .. n /\ DOMAIN history' = 1 .. m /\ m = n + 1
        /\ history'[m] = s
        /\ \A k \in 1 .. n : history'[k] = history[k]
    BY <1>1
  <1>4. /\ SampledBy(tid)' = SampledBy(tid) \cup {m} /\ m \notin SampledBy(tid)
        /\ \A t \in Tids \ {tid} : SampledBy(t)' = SampledBy(t)
        /\ \A t : SampledBy(t) \subseteq 1 .. n
    BY <1>2, <1>3 DEF SampledBy
  <1> HIDE DEF m, n
  <1>5. VirtSamples(tid)' = OneMore(VirtSamples(tid), m, a)
    BY <1>2, <1>3, <1>4 DEF VirtSamples, OneMore
  <1>6. PhysSamples(tid)' = OneMore(PhysSamples(tid), m, phys)
    BY <1>2, <1>3, <1>4 DEF PhysSamples, OneMore
  <1>7. ASSUME NEW t \in Tids \ {tid} PROVE VirtSamples(t)' = VirtSamples(t) /\ PhysSamples(t)' = PhysSamples(t)
    BY <1>3, <1>4 DEF VirtSamples, PhysSamples
  <1>8. ASSUME WithinUnique'
        PROVE  /\ WithinUnique
               /\ Cardinality(Sampled(VirtSamples(tid))) < UNIQUE
               /\ Cardinality(Sampled(PhysSamples(tid))) < UNIQUE
    <2>1. ASSUME NEW t \in Tids, NEW k \in SampledBy(t)
          PROVE  LET before == {j \in SampledBy(t) : j < k} IN
                 /\ Cardinality({history[j].addr : j \in before}) < UNIQUE
                 /\ Cardinality({history[j].phys : j \in before}) < UNIQUE
      <3>1. k \in SampledBy(t)' /\ k \in 1 .. n
        BY <1>4
      <3>2. {j \in SampledBy(t)' : j < k} = {j \in SampledBy(t) : j < k}
        BY <1>3, <1>4, <3>1
      <3> DEFINE before == {j \in SampledBy(t) : j < k}
      <3>3. \A j \in before : history'[j] = history[j]
        BY <1>3, <1>4
      <3>4. /\ Cardinality({history'[j].addr : j \in before}) < UNIQUE
            /\ Cardinality({history'[j].phys : j \in before}) < UNIQUE
        BY <1>8, <3>1, <3>2 DEF WithinUnique
      <3> HIDE DEF before
      <3>5. /\ {history'[j].addr : j \in before} = {history[j].addr : j \in before}
            /\ {history'[j].phys : j \in before} = {history[j].phys : j \in before}
        BY <3>3
      <3>6. QED
        BY <3>4, <3>5 DEF before
    <2>2. {j \in SampledBy(tid)' : j < m} = SampledBy(tid)
      BY <1>3, <1>4
    <2>3. m \in SampledBy(tid)'
      BY <1>4
    <2>4. /\ Cardinality({history'[j].addr : j \in SampledBy(tid)}) < UNIQUE
          /\ Cardinality({history'[j].phys : j \in SampledBy(tid)}) < UNIQUE
      BY <1>1, <1>8, <2>2, <2>3 DEF WithinUnique
    <2>5. /\ {history'[j].addr : j \in SampledBy(tid)} = Sampled(VirtSamples(tid))
          /\ {history'[j].phys : j \in SampledBy(tid)} = Sampled(PhysSamples(tid))
      BY <1>3, <1>4 DEF Sampled, VirtSamples, PhysSamples
    <2>6. QED
      BY <2>1, <2>4, <2>5 DEF WithinUnique
  <1>9. QED
    BY <1>4, <1>5, <1>6, <1>7, <1>8 DEF m

(* The counts of a new record: its thread had no sample before.            *)
LEMMA NewThreadCounts ==
  ASSUME StoreInv, CountInv, NEW tid, NEW a, NEW phys, Stored(tid, a, phys), NewThread(tid, a, phys)
  PROVE  CountInv'
  <1> DEFINE m == Len(history) + 1
             V == FirstEntry(a)
             P == IF version = 6 THEN FirstEntry(phys) ELSE EmptyList
             new == [pid |-> PidOf[tid], tid |-> tid, core |-> core, virt |-> V, phys |-> P]
  <1>1. /\ version' = version /\ tid \in Tids /\ a \in AnyAddr /\ HashOf(a) \in Bins
        /\ version = 6 => phys \in AnyAddr /\ HashOf(phys) \in Bins
    BY HashInBins DEF Stored, PhysFor, AnyAddr
  <1>2. SampledBy(tid) = {}
    BY <1>1 DEF NewThread, IndexOf, StoreInv, OneRecordPerThread
  <1>3. /\ VirtSamples(tid)' = OneMore(VirtSamples(tid), m, a)
        /\ PhysSamples(tid)' = OneMore(PhysSamples(tid), m, phys)
        /\ \A t \in Tids \ {tid} : VirtSamples(t)' = VirtSamples(t) /\ PhysSamples(t)' = PhysSamples(t)
        /\ WithinUnique' => WithinUnique
    BY SamplesGrow
  <1>4. threads' = Append(threads, new)
    BY DEF NewThread
  <1>5. Counted(V, VirtSamples(tid)') /\ (version = 6 => Counted(P, PhysSamples(tid)'))
    <2>1. DOMAIN VirtSamples(tid) = {} /\ DOMAIN PhysSamples(tid) = {}
      BY <1>2 DEF VirtSamples, PhysSamples
    <2>2. \A f, x : DOMAIN f = {} => DOMAIN OneMore(f, m, x) = {m} /\ OneMore(f, m, x)[m] = x
      BY DEF OneMore
    <2> PICK v, p : v = VirtSamples(tid)' /\ p = PhysSamples(tid)'
      OBVIOUS
    <2>3. DOMAIN v = {m} /\ v[m] = a /\ DOMAIN p = {m} /\ p[m] = phys
      BY <1>3, <2>1, <2>2
    <2>4. Counted(V, v) /\ (version = 6 => Counted(P, p))
      BY <1>1, <2>3, FirstCounted
    <2>5. QED
      BY <2>4
  <1>6. new.tid = tid /\ new.virt = V /\ new.phys = P
    OBVIOUS
  <1> HIDE DEF V, P, new, m
  <1>7. ASSUME WithinUnique', NEW i \in DOMAIN threads' PROVE RecordCounts(threads[i])'
    <2>1. threads \in Seq(ThreadSet)
      BY DEF StoreInv
    <2>2. CASE i \in DOMAIN threads
      <3>1. threads'[i] = threads[i] /\ threads[i].tid \in Tids /\ threads[i].tid # tid
        <4>1. threads[i] \in ThreadSet /\ threads'[i] = threads[i]
          BY <1>4, <2>1, <2>2
        <4>2. threads[i].tid # tid
          BY <2>2 DEF NewThread, IndexOf
        <4>3. QED
          BY <4>1, <4>2 DEF ThreadSet
      <3>2. RecordCounts(threads[i])
        BY <1>3, <1>7, <2>2 DEF CountInv
      <3>3. QED
        BY <1>1, <1>3, <3>1, <3>2 DEF RecordCounts, Counted
    <2>3. CASE i \notin DOMAIN threads
      <3>1. threads'[i] = new
        BY <1>4, <2>1, <2>3
      <3>2. QED
        BY <1>1, <1>3, <1>5, <1>6, <3>1 DEF RecordCounts, Counted
    <2>4. QED
      BY <2>2, <2>3
  <1>8. QED
    BY <1>7 DEF CountInv

(* The counts of a record that is found.                                   *)
LEMMA KnownThreadCounts ==
  ASSUME StoreInv, CountInv, NEW tid, NEW a, NEW phys, Stored(tid, a, phys), KnownThread(tid, a, phys)
  PROVE  CountInv'
  <1> DEFINE m == Len(history) + 1
  <1>1. /\ version' = version /\ tid \in Tids /\ a \in AnyAddr /\ HashOf(a) \in Bins
        /\ version = 6 => phys \in AnyAddr /\ HashOf(phys) \in Bins
    BY HashInBins DEF Stored, PhysFor, AnyAddr
  <1>2. /\ m \notin SampledBy(tid)
        /\ VirtSamples(tid)' = OneMore(VirtSamples(tid), m, a)
        /\ PhysSamples(tid)' = OneMore(PhysSamples(tid), m, phys)
        /\ \A t \in Tids \ {tid} : VirtSamples(t)' = VirtSamples(t) /\ PhysSamples(t)' = PhysSamples(t)
        /\ WithinUnique' => /\ WithinUnique
                            /\ Cardinality(Sampled(VirtSamples(tid))) < UNIQUE
                            /\ Cardinality(Sampled(PhysSamples(tid))) < UNIQUE
    BY SamplesGrow
  <1>3. PICK j \in DOMAIN threads : threads[j].tid = tid
    BY DEF KnownThread, IndexOf
  <1>4. IndexOf(tid) = {j} /\ j \in Nat
    BY <1>3 DEF IndexOf, StoreInv, OneRecordPerThread
  <1>5. Min(IndexOf(tid)) = j
    BY <1>4 DEF Min
  <1> DEFINE V == Record(threads[j].virt, a)
             P == IF version = 6 THEN Record(threads[j].phys, phys) ELSE threads[j].phys
             new == [pid |-> threads[j].pid, tid |-> threads[j].tid, core |-> threads[j].core,
                     virt |-> V, phys |-> P]
  <1>6. threads' = [threads EXCEPT ![j] = new]
    BY <1>5 DEF KnownThread
  <1>7. new.tid = tid /\ new.virt = V /\ new.phys = P
    BY <1>3
  <1>8. threads \in Seq(ThreadSet)
    BY DEF StoreInv
  <1>9. threads[j].virt \in ListSet /\ threads[j].phys \in ListSet
    <2>1. threads[j] \in ThreadSet
      BY <1>3, <1>8
    <2>2. QED
      BY <2>1 DEF ThreadSet
  <1>10. ASSUME WithinUnique'
         PROVE  /\ Counted(V, VirtSamples(tid)')
                /\ version = 6 => Counted(P, PhysSamples(tid)')
    <2>1. Counted(threads[j].virt, VirtSamples(tid)) /\ (version = 6 => Counted(threads[j].phys, PhysSamples(tid)))
      BY <1>2, <1>3, <1>10 DEF CountInv, RecordCounts
    <2>2. threads[j].virt.n < UNIQUE /\ (version = 6 => threads[j].phys.n < UNIQUE)
      BY <1>2, <1>10, <2>1 DEF Counted
    <2>3. m \notin DOMAIN VirtSamples(tid) /\ m \notin DOMAIN PhysSamples(tid)
      BY <1>2 DEF VirtSamples, PhysSamples
    <2>4. Counted(V, OneMore(VirtSamples(tid), m, a))
      BY <1>1, <1>9, <2>1, <2>2, <2>3, RecordCounted
    <2>5. version = 6 => Counted(P, OneMore(PhysSamples(tid), m, phys))
      BY <1>1, <1>9, <2>1, <2>2, <2>3, RecordCounted
    <2>6. QED
      BY <1>2, <2>4, <2>5
  <1> HIDE DEF V, P, new, m
  <1>11. ASSUME WithinUnique', NEW i \in DOMAIN threads' PROVE RecordCounts(threads[i])'
    <2>1. i \in DOMAIN threads
      BY <1>6
    <2>2. CASE i = j
      <3>1. threads'[i] = new
        BY <1>6, <2>1, <2>2
      <3>2. QED
        BY <1>1, <1>7, <1>10, <1>11, <3>1 DEF RecordCounts, Counted
    <2>3. CASE i # j
      <3>1. threads'[i] = threads[i] /\ threads[i].tid \in Tids
        <4>1. threads[i] \in ThreadSet /\ threads'[i] = threads[i]
          BY <1>6, <1>8, <2>1, <2>3
        <4>2. QED
          BY <4>1 DEF ThreadSet
      <3>2. threads[i].tid # tid
        BY <1>3, <2>1, <2>3 DEF StoreInv, OneRecordPerThread
      <3>3. RecordCounts(threads[i])
        BY <1>2, <1>11, <2>1 DEF CountInv
      <3>4. QED
        BY <1>1, <1>2, <3>1, <3>2, <3>3 DEF RecordCounts, Counted
    <2>4. QED
      BY <2>2, <2>3
  <1>12. QED
    BY <1>11 DEF CountInv

(* While no thread was sampled after it had UNIQUE addresses, every entry  *)
(* counts the samples of its address, and the counts of the filter bits    *)
(* add up to the number of entries.                                        *)
THEOREM CountsKept == Spec => []CountsExact
  <1>1. Init => CountInv
    BY DEF Init, CountInv
  <1>2. ASSUME StoreInv, CountInv, [Next]_vars PROVE CountInv'
    <2> USE <1>2
    <2>1. ASSUME NEW tid \in Tids, NEW a \in Addrs, StoreSample(tid, a) PROVE CountInv'
      <3>1. PICK phys \in PhysAddrs \cup {FAILURE, NoAddr} :
              /\ IF version = 6 THEN Translate(PidOf[tid], a, phys)
                                ELSE phys = NoAddr /\ UNCHANGED <<leaked, gone>>
              /\ NewThread(tid, a, phys) \/ KnownThread(tid, a, phys)
              /\ history' = Append(history, [tid |-> tid, addr |-> a, phys |-> phys])
        BY <2>1 DEF StoreSample
      <3>2. PhysFor(phys)
        BY <3>1, StoreAssumption, SMTT(30) DEF Translate, PhysFor
      <3>3. Stored(tid, a, phys)
        BY <2>1, <3>1, <3>2 DEF StoreSample, Outside, Stored
      <3>4. QED
        BY <3>1, <3>3, NewThreadCounts, KnownThreadCounts
    <2>2. CASE UNCHANGED <<version, threads, history>>
      <3>1. \A t : VirtSamples(t)' = VirtSamples(t) /\ PhysSamples(t)' = PhysSamples(t)
        BY <2>2 DEF VirtSamples, PhysSamples, SampledBy
      <3>2. WithinUnique' <=> WithinUnique
        BY <2>2 DEF WithinUnique, SampledBy
      <3>3. ASSUME NEW i \in DOMAIN threads, RecordCounts(threads[i]) PROVE RecordCounts(threads[i])'
        BY <2>2, <3>1, <3>3 DEF RecordCounts, Counted
      <3>4. QED
        BY <2>2, <3>2, <3>3 DEF CountInv
    <2>3. \/ UNCHANGED <<version, threads, history>>
          \/ \E tid \in Tids, a \in Addrs : StoreSample(tid, a)
      BY DEF Next, CountEvents, StartSampling, NextCore, CheckIntersection, StoreOutside, ProcessExits, vars
    <2>4. QED
      BY <2>1, <2>2, <2>3
  <1>3. StoreInv /\ CountInv => CountsExact
    <2>1. ASSUME StoreInv, CountInv, WithinUnique, NEW i \in DOMAIN threads
          PROVE  LET own == SampledBy(threads[i].tid) IN
                 /\ ListExact(threads[i].virt, [k \in own |-> <<k, history[k].addr>>])
                 /\ version = 6 => ListExact(threads[i].phys, [k \in own |-> <<k, history[k].phys>>])
      <3> PICK t, own : t = threads[i].tid /\ own = SampledBy(t)
        OBVIOUS
      <3>1. threads[i].virt \in ListSet /\ threads[i].phys \in ListSet
        <4>1. threads[i] \in ThreadSet
          BY <2>1 DEF StoreInv
        <4>2. QED
          BY <4>1 DEF ThreadSet
      <3>2. Counted(threads[i].virt, VirtSamples(t)) /\ (version = 6 => Counted(threads[i].phys, PhysSamples(t)))
        BY <2>1 DEF CountInv, RecordCounts
      <3>3. ListExact(threads[i].virt, [k \in own |-> <<k, history[k].addr>>])
        <4>1. \A k \in own : VirtSamples(t)[k] = history[k].addr
          BY DEF VirtSamples
        <4>2. DOMAIN VirtSamples(t) = own
          BY DEF VirtSamples
        <4>3. QED
          BY <3>1, <3>2, <4>1, <4>2, CountedExact
      <3>4. version = 6 => ListExact(threads[i].phys, [k \in own |-> <<k, history[k].phys>>])
        <4>1. \A k \in own : PhysSamples(t)[k] = history[k].phys
          BY DEF PhysSamples
        <4>2. DOMAIN PhysSamples(t) = own
          BY DEF PhysSamples
        <4>3. QED
          BY <3>1, <3>2, <4>1, <4>2, CountedExact
      <3>5. QED
        BY <3>3, <3>4
    <2>2. QED
      BY <2>1 DEF CountsExact
  <1>4. QED
    BY <1>1, <1>2, <1>3, StoreInvariance, PTL DEF Spec

=============================================================================
