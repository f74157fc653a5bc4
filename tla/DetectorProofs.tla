--------------------------- MODULE DetectorProofs ---------------------------
(***************************************************************************)
(* Proofs about two versions of the detector: the table of filters into    *)
(* which the later ones put their samples (FilterTable), and the handlers  *)
(* with which an early one tried to take them (SignalSampler).             *)
(***************************************************************************)
EXTENDS FilterTable, SignalSampler, SequenceTheorems, FiniteSetTheorems, FunctionTheorems, TLAPS

-----------------------------------------------------------------------------
(***************************************************************************)
(* FilterTable, for every number of filters, pairs, bits, threads, lines   *)
(* and rounds and for whatever reports perf makes: the filters count       *)
(* exactly the samples of their round, threads[] counts those of all       *)
(* rounds, and a round reports every two of its threads.                   *)
(***************************************************************************)

AnyBin == {Bin(l) : l \in Lines}

Filters == [tid : Nat, filter : SUBSET AnyBin, frequency : [Bins -> Nat]]

Samples == [line : Lines, round : Nat]

Stages == {"counting", "deciding", "recording", "reading", "comparing", "reported",
           "overrun", "crashed"}

(* The samples of this round that set bit b of the filter of a thread. *)
Counted(tid, b) == {n \in ThisRound(tid) : Bin(samples[n].line) = b}

(* Their bits. *)
Image(tid) == {Bin(samples[n].line) : n \in ThisRound(tid)}

-----------------------------------------------------------------------------
(* The inductive invariant behind FiltersOfRound *)

FilterTypes ==
  /\ workload \in DOMAIN Workloads
  /\ stage \in Stages
  /\ round \in Nat /\ at \in Nat
  /\ report \in Seq(Lines)
  /\ s \in Seq(Filters)
  /\ samples \in Seq(Samples)

(* Nothing was sampled in a round that has not begun to read; the filters  *)
(* are cleared before it does.                                             *)
RoundsPassed ==
  /\ \A n \in DOMAIN samples : samples[n].round <= round
  /\ stage \in {"deciding", "recording"} => \A n \in DOMAIN samples : samples[n].round < round
  /\ stage = "recording" => s = << >>

(* A filter that is taken belongs to a thread sampled in this round, and   *)
(* has the bits of its samples, within the array of counts or not.         *)
FilterOf(f) ==
  /\ ThisRound(f.tid) # {}
  /\ f.filter = Image(f.tid)
  /\ \A b \in Bins : f.frequency[b] = Cardinality(Counted(f.tid, b))

OwnFilters == \A k, l \in DOMAIN s : s[k].tid = s[l].tid => k = l

WithoutFilter ==
  \A t \in RoundTids \ {s[k].tid : k \in DOMAIN s} :
    /\ Len(s) = MAX_FILTERS
    /\ \A k \in DOMAIN s : \E n \in ThisRound(s[k].tid) : \A m \in ThisRound(t) : n < m

Filled ==
  /\ Len(s) <= MAX_FILTERS
  /\ \A k \in DOMAIN s : FilterOf(s[k])
  /\ OwnFilters
  /\ WithoutFilter

FilterInv == FilterTypes /\ RoundsPassed /\ (InRound => Filled)

-----------------------------------------------------------------------------
(* The inductive invariant behind CountsSinceStart *)

Addrs == Seq(0 .. 15) \ {<< >>}

Records == [pid : Nat, tid : Nat, n : Nat, addr : [Entries -> Addrs \cup {<< >>}],
            freq : [Entries -> Nat]]

AddrsOf(tid) == {samples[n].line.addr : n \in SamplesOf(tid)}

With(tid, a) == {n \in SamplesOf(tid) : samples[n].line.addr = a}

(* The first n entries of a record are the thread's addresses, each once,  *)
(* with their counts.                                                      *)
Exact(t) ==
  /\ t.n = Cardinality(AddrsOf(t.tid))
  /\ AddrsOf(t.tid) = {t.addr[e] : e \in 0 .. t.n - 1}
  /\ \A e, d \in 0 .. t.n - 1 : t.addr[e] = t.addr[d] => e = d
  /\ \A e \in 0 .. t.n - 1 : t.freq[e] = Cardinality(With(t.tid, t.addr[e]))

FirstSeen(t) ==
  \E n \in SamplesOf(t.tid) :
    samples[n].line.pid = t.pid /\ \A m \in SamplesOf(t.tid) : n <= m

RecordOf(t) == FirstSeen(t) /\ (WithinUnique(t.tid) => Exact(t))

OwnRecords == \A k, l \in DOMAIN threads : threads[k].tid = threads[l].tid => k = l

Recorded ==
  /\ threads \in Seq(Records)
  /\ OwnRecords
  /\ {threads[k].tid : k \in DOMAIN threads} = SampledTids
  /\ \A k \in DOMAIN threads : RecordOf(threads[k])

RecordsInv ==
  /\ Recorded
  /\ \A t \in Nat : IsFiniteSet(AddrsOf(t))
  /\ stage = "overrun" => Len(threads) = THREAD_MAX

-----------------------------------------------------------------------------
(* The inductive invariant behind PairsReported *)

Rows == {Row(x, y) : x \in Filters, y \in Filters}

PairSet == [i : Nat, j : Nat]

(* The filters x and y, numbered from 1, were looked at before i and j.    *)
Before(x, y) == x < i \/ (x = i /\ y < j)

Reported(x, y) ==
  \E r \in DOMAIN rows : rows[r] = Row(s[x], s[y]) \/ rows[r] = Row(s[y], s[x])

Compared ==
  \A x, y \in DOMAIN s :
    x # y /\ (stage = "comparing" => Before(x, y)) => Reported(x, y)

RowsReal ==
  \A r \in DOMAIN rows : \E x, y \in DOMAIN s : x # y /\ rows[r] = Row(s[x], s[y])

(* What checkPair reads was looked at before, also once P[] was overrun    *)
(* and its entries and their number were written over.                     *)
PairsPassed ==
  /\ s # << >> => i \in DOMAIN s /\ j \in DOMAIN s
  /\ behind = "pair_index" => pair_index <= PAIRS
  /\ pair_index <= (i - 1) * MAX_FILTERS + j - 1
  /\ \A k \in 0 .. pair_index - 1 :
       /\ Before(P[k].i + 1, P[k].j + 1)
       /\ P[k].i + 1 \in DOMAIN s /\ P[k].j + 1 \in DOMAIN s

(* As long as all pairs fit into P[] it holds exactly those of the rows,   *)
(* each of which has the lower number first.                               *)
Fits == Len(s) * (Len(s) - 1) <= 2 * PAIRS

PairsExact ==
  /\ 2 * pair_index = (i - 1) * (2 * Len(s) - i) + (IF j > i THEN 2 * (j - i - 1) ELSE 0)
  /\ Len(rows) = pair_index
  /\ \A k \in 0 .. pair_index - 1 :
       P[k].i < P[k].j /\ rows[k + 1] = Row(s[P[k].i + 1], s[P[k].j + 1])
  /\ \A x, y \in DOMAIN s :
       x < y /\ Before(x, y) => \E k \in 0 .. pair_index - 1 : P[k] = [i |-> x - 1, j |-> y - 1]

Once ==
  \A r, q \in DOMAIN rows : \A x, y \in DOMAIN s :
    /\ rows[r] \in {Row(s[x], s[y]), Row(s[y], s[x])}
    /\ rows[q] \in {Row(s[x], s[y]), Row(s[y], s[x])}
    => r = q

ReportTypes ==
  /\ behind \in {"pair_index", "other"}
  /\ P \in [Slots -> PairSet]
  /\ pair_index \in Nat /\ i \in Nat /\ j \in Nat
  /\ rows \in Seq(Rows)

ReportInv ==
  /\ ReportTypes
  /\ stage \in {"recording", "reading"} => rows = << >> /\ pair_index = 0
  /\ stage \in {"comparing", "reported"} => Compared /\ RowsReal /\ (Fits => Once)
  /\ stage = "comparing" => PairsPassed /\ (Fits => PairsExact)

-----------------------------------------------------------------------------
(* Lemmas about the samples *)

Grows(l) ==
  /\ samples' = Append(samples, [line |-> l, round |-> round]) /\ round' = round

(* The place of the new sample.                                            *)
Newest == Len(samples) + 1

(* Reading a kept line adds one sample behind the others.                  *)
LEMMA Grown ==
  ASSUME samples \in Seq(Samples), NEW l \in Lines, round \in Nat, Grows(l)
  PROVE  /\ samples' \in Seq(Samples)
         /\ Newest \in Nat /\ Newest \notin DOMAIN samples
         /\ DOMAIN samples' = DOMAIN samples \cup {Newest}
         /\ IsFiniteSet(DOMAIN samples) /\ DOMAIN samples \subseteq Nat
         /\ \A n \in DOMAIN samples : samples'[n] = samples[n] /\ n < Newest
         /\ samples'[Newest].line = l /\ samples'[Newest].round = round
  <1> DEFINE e == [line |-> l, round |-> round]
  <1>1. e \in Samples /\ samples' = Append(samples, e)
    BY DEF Grows, Samples
  <1> HIDE DEF e
  <1>2. Len(samples) \in Nat /\ DOMAIN samples = 1 .. Len(samples)
    OBVIOUS
  <1>3. /\ samples' \in Seq(Samples) /\ Len(samples') = Len(samples) + 1
        /\ \A n \in 1 .. Len(samples) : samples'[n] = samples[n]
        /\ samples'[Len(samples) + 1] = e
    BY <1>1, AppendProperties
  <1>4. DOMAIN samples' = 1 .. Len(samples) + 1
    BY <1>3
  <1>5. IsFiniteSet(DOMAIN samples)
    BY <1>2, FS_Interval
  <1>6. e.line = l /\ e.round = round
    BY DEF e
  <1>7. QED
    BY <1>2, <1>3, <1>4, <1>5, <1>6 DEF Newest

(* A new sample is one of its thread and of nobody else.                   *)
LEMMA GrownSets ==
  ASSUME samples \in Seq(Samples), NEW l \in Lines, round \in Nat, Grows(l), NEW t
  PROVE  /\ SamplesOf(t)' = IF t = l.tid THEN SamplesOf(t) \cup {Newest} ELSE SamplesOf(t)
         /\ ThisRound(t)' = IF t = l.tid THEN ThisRound(t) \cup {Newest} ELSE ThisRound(t)
  <1>1. /\ Newest \notin DOMAIN samples /\ DOMAIN samples' = DOMAIN samples \cup {Newest}
        /\ \A n \in DOMAIN samples : samples'[n] = samples[n]
        /\ samples'[Newest].line = l /\ samples'[Newest].round = round
    BY Grown
  <1>2. SamplesOf(t)' = IF t = l.tid THEN SamplesOf(t) \cup {Newest} ELSE SamplesOf(t)
    BY <1>1 DEF SamplesOf
  <1>3. round' = round /\ \A n \in SamplesOf(t) : samples'[n] = samples[n]
    BY <1>1 DEF SamplesOf, Grows
  <1>4. ThisRound(t)' = IF t = l.tid THEN ThisRound(t) \cup {Newest} ELSE ThisRound(t)
    BY <1>1, <1>2, <1>3 DEF ThisRound
  <1>5. QED
    BY <1>2, <1>4

(* The samples of a thread are samples.                                    *)
LEMMA OfDomain ==
  ASSUME NEW t
  PROVE  SamplesOf(t) \subseteq DOMAIN samples /\ ThisRound(t) \subseteq SamplesOf(t)
  BY DEF SamplesOf, ThisRound

(* So are the sets of samples the counts count.                            *)
LEMMA GrownCount ==
  ASSUME samples \in Seq(Samples), NEW l \in Lines, round \in Nat, Grows(l), NEW t, NEW b
  PROVE  /\ IsFiniteSet(Counted(t, b)) /\ Cardinality(Counted(t, b)) \in Nat
         /\ Cardinality(Counted(t, b))' =
              IF t = l.tid /\ b = Bin(l) THEN Cardinality(Counted(t, b)) + 1
                                         ELSE Cardinality(Counted(t, b))
  <1>1. /\ Newest \notin ThisRound(t)
        /\ \A n \in ThisRound(t) : samples'[n] = samples[n]
        /\ samples'[Newest].line = l
        /\ ThisRound(t) \subseteq DOMAIN samples /\ IsFiniteSet(DOMAIN samples)
    BY Grown, OfDomain
  <1>2. ThisRound(t)' = IF t = l.tid THEN ThisRound(t) \cup {Newest} ELSE ThisRound(t)
    BY GrownSets
  <1>3. IsFiniteSet(Counted(t, b)) /\ Cardinality(Counted(t, b)) \in Nat
    <2>1. Counted(t, b) \in SUBSET DOMAIN samples
      BY <1>1 DEF Counted
    <2>2. QED
      BY <1>1, <2>1, FS_Subset, FS_CardinalityType
  <1>4. Counted(t, b)' = IF t = l.tid /\ b = Bin(l) THEN Counted(t, b) \cup {Newest}
                                                     ELSE Counted(t, b)
    BY <1>1, <1>2 DEF Counted
  <1>5. Newest \notin Counted(t, b)
    BY <1>1 DEF Counted
  <1>6. QED
    BY <1>3, <1>4, <1>5, FS_AddElement

(* The bits of a thread's samples get the new line's when it is the thread's own. *)
LEMMA GrownImage ==
  ASSUME samples \in Seq(Samples), NEW l \in Lines, round \in Nat, Grows(l), NEW t
  PROVE  Image(t)' = Image(t) \cup (IF t = l.tid THEN {Bin(l)} ELSE {})
  <1>1. /\ \A n \in ThisRound(t) : samples'[n] = samples[n]
        /\ samples'[Newest].line = l
    BY Grown, OfDomain
  <1>2. ThisRound(t)' = IF t = l.tid THEN ThisRound(t) \cup {Newest} ELSE ThisRound(t)
    BY GrownSets
  <1>3. QED
    BY <1>1, <1>2 DEF Image

(* Nothing else about the samples and filters of a step that leaves them.  *)
LEMMA SameRound ==
  ASSUME samples' = samples, round' = round, NEW t
  PROVE  /\ SamplesOf(t)' = SamplesOf(t) /\ ThisRound(t)' = ThisRound(t)
         /\ SampledTids' = SampledTids /\ RoundTids' = RoundTids
         /\ \A b : Counted(t, b)' = Counted(t, b)
  BY DEF SamplesOf, ThisRound, SampledTids, RoundTids, Counted

-----------------------------------------------------------------------------
(* FiltersOfRound *)

(* Every line has a bit.                                                   *)
LEMMA BinType == ASSUME NEW l \in Lines PROVE Bin(l) \in AnyBin
  BY DEF AnyBin

(* Setting a bit counts it, in the array and outside it.                   *)
LEMMA Inserted ==
  ASSUME NEW f \in Filters, NEW b \in AnyBin
  PROVE  /\ Insert(f, b) \in Filters
         /\ Insert(f, b).tid = f.tid
         /\ Insert(f, b).filter = f.filter \cup {b}
         /\ \A c \in Bins : Insert(f, b).frequency[c] =
                              IF c = b THEN f.frequency[c] + 1 ELSE f.frequency[c]
  <1> DEFINE g == f.frequency
             fr == [g EXCEPT ![b] = g[b] + 1]
  <1>1. f.frequency \in [Bins -> Nat] /\ f.filter \subseteq AnyBin /\ f.tid \in Nat
        /\ f = [tid |-> f.tid, filter |-> f.filter, frequency |-> f.frequency]
    BY DEF Filters
  <1>2. Insert(f, b) = [f EXCEPT !.filter = f.filter \cup {b}, !.frequency = fr]
    BY <1>1 DEF Insert, g
  <1>a. g \in [Bins -> Nat]
    BY <1>1 DEF g
  <1> HIDE DEF g
  <1>3. /\ fr \in [Bins -> Nat]
        /\ \A c \in Bins : fr[c] = IF c = b THEN g[c] + 1 ELSE g[c]
    <2>1. CASE b \in Bins
      <3>1. g[b] + 1 \in Nat
        BY <1>a, <2>1
      <3>2. QED
        BY <1>a, <3>1
    <2>2. CASE b \notin Bins
      <3>1. fr = g
        BY <1>a, <2>2
      <3>2. QED
        BY <1>a, <2>2, <3>1
    <2>3. QED
      BY <2>1, <2>2
  <1> HIDE DEF fr
  <1>4. Insert(f, b) = [tid |-> f.tid, filter |-> f.filter \cup {b}, frequency |-> fr]
    BY <1>1, <1>2
  <1>5. QED
    BY <1>1, <1>3, <1>4 DEF Filters, g

(* A free filter is empty.                                                 *)
LEMMA UntakenType ==
  ASSUME NEW t \in Nat
  PROVE  /\ Untaken(t) \in Filters /\ Untaken(t).tid = t /\ Untaken(t).filter = {}
         /\ \A c \in Bins : Untaken(t).frequency[c] = 0
  <1> DEFINE fr == [b \in Bins |-> 0]
  <1>1. fr \in [Bins -> Nat] /\ \A c \in Bins : fr[c] = 0
    OBVIOUS
  <1>2. Untaken(t) = [tid |-> t, filter |-> {}, frequency |-> fr]
    BY DEF Untaken
  <1> HIDE DEF fr
  <1>3. QED
    BY <1>1, <1>2 DEF Filters

(* Which filter a line goes to.                                            *)
LEMMA FilterTaken ==
  ASSUME s \in Seq(Filters), OwnFilters, Len(s) <= MAX_FILTERS, NEW l \in Lines, getfilters(l)
  PROVE  \/ \E k \in DOMAIN s : s[k].tid = l.tid /\ s' = [s EXCEPT ![k] = Insert(s[k], Bin(l))]
         \/ /\ \A k \in DOMAIN s : s[k].tid # l.tid
            /\ Len(s) < MAX_FILTERS /\ s' = Append(s, Insert(Untaken(l.tid), Bin(l)))
         \/ /\ \A k \in DOMAIN s : s[k].tid # l.tid
            /\ Len(s) = MAX_FILTERS /\ s' = s
  <1>1. CASE \E k \in DOMAIN s : s[k].tid = l.tid
    <2>1. PICK k \in DOMAIN s : s[k].tid = l.tid
      BY <1>1
    <2>2. findIndex(l.tid) = {k}
      BY <2>1 DEF findIndex, OwnFilters
    <2>3. s' = [s EXCEPT ![k] = Insert(s[k], Bin(l))]
      BY <2>1, <2>2 DEF getfilters
    <2>4. QED
      BY <2>1, <2>3
  <1>2. CASE \A k \in DOMAIN s : s[k].tid # l.tid
    <2>1. findIndex(l.tid) = IF Len(s) < MAX_FILTERS THEN {Len(s) + 1} ELSE {}
      BY <1>2 DEF findIndex
    <2>2. Len(s) \in Nat /\ MAX_FILTERS \in Nat /\ Len(s) + 1 \notin DOMAIN s
      BY FilterAssumption
    <2>3. CASE Len(s) < MAX_FILTERS
      <3>1. findIndex(l.tid) = {Len(s) + 1}
        BY <2>1, <2>3
      <3>2. s' = Append(s, Insert(Untaken(l.tid), Bin(l)))
        BY <2>2, <3>1 DEF getfilters
      <3>3. QED
        BY <1>2, <2>3, <3>2
    <2>4. CASE ~(Len(s) < MAX_FILTERS)
      <3>1. findIndex(l.tid) = {} /\ Len(s) = MAX_FILTERS
        BY <2>1, <2>2, <2>4
      <3>2. QED
        BY <1>2, <3>1 DEF getfilters
    <2>5. QED
      BY <2>3, <2>4
  <1>3. QED
    BY <1>1, <1>2

(* What is known when a kept line is stored.                               *)
Reading(l) ==
  /\ s \in Seq(Filters) /\ samples \in Seq(Samples) /\ round \in Nat /\ l \in Lines
  /\ Len(s) <= MAX_FILTERS /\ (\A k \in DOMAIN s : FilterOf(s[k])) /\ OwnFilters /\ WithoutFilter
  /\ Grows(l)

(* The filters of the other threads.                                       *)
LEMMA OtherFilter ==
  ASSUME NEW l, Reading(l), NEW f \in Filters, FilterOf(f), f.tid # l.tid
  PROVE  FilterOf(f)'
  <1>1. ThisRound(f.tid)' = ThisRound(f.tid)
    BY GrownSets DEF Reading
  <1>2. Image(f.tid)' = Image(f.tid)
    BY GrownImage DEF Reading
  <1>3. \A b \in Bins : Cardinality(Counted(f.tid, b))' = Cardinality(Counted(f.tid, b))
    BY GrownCount DEF Reading
  <1>4. QED
    BY <1>1, <1>2, <1>3 DEF FilterOf

(* The filter of the thread that was sampled, with its samples before.     *)
LEMMA OwnFilter ==
  ASSUME NEW l, Reading(l), NEW f \in Filters, f.tid = l.tid, f.filter = Image(l.tid),
         \A b \in Bins : f.frequency[b] = Cardinality(Counted(l.tid, b))
  PROVE  FilterOf(Insert(f, Bin(l)))'
  <1> DEFINE g == Insert(f, Bin(l))
  <1>1. /\ g.tid = l.tid /\ g.filter = f.filter \cup {Bin(l)}
        /\ \A c \in Bins : g.frequency[c] = IF c = Bin(l) THEN f.frequency[c] + 1 ELSE f.frequency[c]
    BY Inserted, BinType DEF Reading
  <1> HIDE DEF g
  <1>2. ThisRound(l.tid)' # {}
    BY GrownSets DEF Reading
  <1>3. Image(l.tid)' = f.filter \cup {Bin(l)}
    BY GrownImage DEF Reading
  <1>4. \A b \in Bins : Cardinality(Counted(l.tid, b))' =
          IF b = Bin(l) THEN Cardinality(Counted(l.tid, b)) + 1 ELSE Cardinality(Counted(l.tid, b))
    BY GrownCount DEF Reading
  <1>5. FilterOf(g)'
    BY <1>1, <1>2, <1>3, <1>4 DEF FilterOf
  <1>6. QED
    BY <1>5 DEF g

(* A thread sampled later than all that have a filter.                     *)
LEMMA LaterThread ==
  ASSUME NEW l, Reading(l), Len(s) = MAX_FILTERS, NEW t, t \in RoundTids', NEW k \in DOMAIN s,
         \A c \in DOMAIN s : s[c].tid # t
  PROVE  \E n \in ThisRound(s[k].tid) : \A m \in ThisRound(t)' : n < m
  <1>1. ThisRound(t)' = IF t = l.tid THEN ThisRound(t) \cup {Newest} ELSE ThisRound(t)
    BY GrownSets DEF Reading
  <1>2. \A n \in ThisRound(s[k].tid) : n < Newest
    BY Grown, OfDomain DEF Reading
  <1>3. CASE ThisRound(t) = {}
    <2>1. PICK n \in ThisRound(s[k].tid) : TRUE
      BY DEF Reading, FilterOf
    <2>2. QED
      BY <1>1, <1>2, <1>3, <2>1
  <1>4. CASE ThisRound(t) # {}
    <2>1. t \in RoundTids
      BY <1>4 DEF RoundTids, SampledTids, ThisRound, SamplesOf
    <2>2. PICK n \in ThisRound(s[k].tid) : \A m \in ThisRound(t) : n < m
      BY <2>1 DEF Reading, WithoutFilter
    <2>3. QED
      BY <1>1, <1>2, <2>2
  <1>5. QED
    BY <1>3, <1>4

(* A thread that was not sampled just now was sampled before.              *)
LEMMA StillThisRound ==
  ASSUME NEW l, Reading(l), NEW t \in RoundTids', t # l.tid
  PROVE  t \in RoundTids
  <1>1. ThisRound(t)' = ThisRound(t) /\ ThisRound(t)' # {}
    BY GrownSets DEF Reading, RoundTids
  <1>2. QED
    BY <1>1 DEF RoundTids, SampledTids, ThisRound, SamplesOf

(* No filter changes hands, and the thread has one or finds none free.     *)
LEMMA SameOwners ==
  ASSUME NEW l, Reading(l), DOMAIN s' = DOMAIN s, Len(s') = Len(s),
         \A c \in DOMAIN s : s'[c].tid = s[c].tid,
         Len(s) = MAX_FILTERS \/ \E c \in DOMAIN s : s[c].tid = l.tid
  PROVE  WithoutFilter'
  <1> SUFFICES ASSUME NEW t \in RoundTids', \A c \in DOMAIN s : s[c].tid # t
               PROVE  /\ Len(s) = MAX_FILTERS
                      /\ \A c \in DOMAIN s : \E n \in ThisRound(s[c].tid)' :
                           \A m \in ThisRound(t)' : n < m
    BY DEF WithoutFilter
  <1>1. Len(s) = MAX_FILTERS
    <2>1. CASE \E c \in DOMAIN s : s[c].tid = l.tid
      <3>1. t \in RoundTids
        BY <2>1, StillThisRound
      <3>2. QED
        BY <3>1 DEF Reading, WithoutFilter
    <2>2. QED
      BY <2>1
  <1>2. ASSUME NEW c \in DOMAIN s
        PROVE  \E n \in ThisRound(s[c].tid)' : \A m \in ThisRound(t)' : n < m
    <2>1. PICK u : u = s[c].tid
      OBVIOUS
    <2>2. PICK n \in ThisRound(u) : \A m \in ThisRound(t)' : n < m
      BY <1>1, <2>1, LaterThread
    <2>3. n \in ThisRound(u)'
      BY GrownSets DEF Reading
    <2>4. ThisRound(s[c].tid)' = ThisRound(u)'
      BY <2>1
    <2>5. QED
      BY <2>2, <2>3, <2>4
  <1>3. QED
    BY <1>1, <1>2

(* getfilters keeps every filter exact and a thread without one without.   *)
LEMMA FilterStored ==
  ASSUME NEW l, Reading(l), getfilters(l)
  PROVE  /\ s' \in Seq(Filters) /\ Len(s') <= MAX_FILTERS
         /\ (\A k \in DOMAIN s : FilterOf(s[k]))' /\ OwnFilters' /\ WithoutFilter'
  <1> DEFINE b == Bin(l)
  <1>1. /\ s \in Seq(Filters) /\ l \in Lines /\ l.tid \in Nat /\ Len(s) \in Nat
        /\ DOMAIN s = 1 .. Len(s) /\ b \in AnyBin /\ MAX_FILTERS \in Nat
        /\ \A k \in DOMAIN s : s[k] \in Filters
    BY BinType, FilterAssumption DEF Reading, Lines
  <1> HIDE DEF b
  <1>2. CASE \E k \in DOMAIN s : s[k].tid = l.tid /\ s' = [s EXCEPT ![k] = Insert(s[k], b)]
    <2>1. PICK k \in DOMAIN s : s[k].tid = l.tid /\ s' = [s EXCEPT ![k] = Insert(s[k], b)]
      BY <1>2
    <2>a. PICK h \in Filters : h = s[k]
      BY <1>1, <2>1
    <2>b. PICK g : g = Insert(h, b)
      OBVIOUS
    <2>2. g \in Filters /\ g.tid = l.tid
      BY <1>1, <2>1, <2>a, <2>b, Inserted
    <2>3. FilterOf(g)'
      <3>1. FilterOf(s[k])
        BY <2>1 DEF Reading
      <3>2. h.tid = l.tid /\ h.filter = Image(l.tid)
        BY <2>1, <2>a, <3>1 DEF FilterOf
      <3>3. \A c \in Bins : h.frequency[c] = Cardinality(Counted(l.tid, c))
        BY <2>1, <2>a, <3>1 DEF FilterOf
      <3>4. FilterOf(Insert(h, Bin(l)))'
        BY <3>2, <3>3, OwnFilter
      <3>5. QED
        BY <2>b, <3>4 DEF b
    <2>4. s' = [s EXCEPT ![k] = g]
      BY <2>1, <2>a, <2>b
    <2>5. /\ s' \in Seq(Filters) /\ Len(s') = Len(s) /\ DOMAIN s' = DOMAIN s /\ s'[k] = g
          /\ \A c \in DOMAIN s : c # k => s'[c] = s[c]
      BY <1>1, <2>1, <2>2, <2>4
    <2>6. \A c \in DOMAIN s : s'[c].tid = s[c].tid
      BY <2>1, <2>2, <2>5
    <2>7. ASSUME NEW c \in DOMAIN s PROVE FilterOf(s[c])'
      <3>1. CASE c = k
        BY <2>3, <2>5, <3>1
      <3>2. CASE c # k
        <4>1. s[c].tid # l.tid /\ FilterOf(s[c]) /\ s[c] \in Filters
          BY <1>1, <2>1, <3>2 DEF Reading, OwnFilters
        <4>2. PICK o \in Filters : o = s[c]
          BY <4>1
        <4>3. FilterOf(o)'
          BY <4>1, <4>2, OtherFilter
        <4>4. QED
          BY <2>5, <3>2, <4>2, <4>3
      <3>3. QED
        BY <3>1, <3>2
    <2>8. OwnFilters'
      BY <2>5, <2>6 DEF Reading, OwnFilters
    <2>9. WithoutFilter'
      BY <2>1, <2>5, <2>6, SameOwners
    <2>10. (\A c \in DOMAIN s : FilterOf(s[c]))'
      BY <2>5, <2>7
    <2>11. Len(s') <= MAX_FILTERS
      BY <2>5 DEF Reading
    <2>12. QED
      BY <2>5, <2>8, <2>9, <2>10, <2>11
  <1>3. CASE /\ \A k \in DOMAIN s : s[k].tid # l.tid
             /\ Len(s) < MAX_FILTERS /\ s' = Append(s, Insert(Untaken(l.tid), b))
    <2> DEFINE g == Insert(Untaken(l.tid), b)
               N == Len(s) + 1
    <2>1. g \in Filters /\ g.tid = l.tid
      BY <1>1, Inserted, UntakenType
    <2>2. ThisRound(l.tid) = {}
      <3>1. SUFFICES ASSUME ThisRound(l.tid) # {} PROVE FALSE
        OBVIOUS
      <3>2. l.tid \in RoundTids
        BY <3>1 DEF RoundTids, SampledTids, ThisRound, SamplesOf
      <3>3. Len(s) = MAX_FILTERS
        BY <1>3, <3>2 DEF Reading, WithoutFilter
      <3>4. QED
        BY <1>1, <1>3, <3>3
    <2>3. FilterOf(g)'
      <3>1. Image(l.tid) = {} /\ \A c : Counted(l.tid, c) = {}
        BY <2>2 DEF Image, Counted
      <3>2. \A c \in Bins : Untaken(l.tid).frequency[c] = Cardinality(Counted(l.tid, c))
        BY <1>1, <3>1, UntakenType, FS_EmptySet
      <3>3. QED
        BY <1>1, <3>1, <3>2, OwnFilter, UntakenType DEF b
    <2>4. s' = Append(s, g)
      BY <1>3
    <2> HIDE DEF g, N
    <2>5. /\ s' \in Seq(Filters) /\ Len(s') = Len(s) + 1
          /\ \A c \in 1 .. Len(s) : s'[c] = s[c]
          /\ s'[Len(s) + 1] = g
      BY <1>1, <2>1, <2>4, AppendProperties
    <2>6. /\ DOMAIN s' = DOMAIN s \cup {N} /\ N \notin DOMAIN s /\ s'[N] = g
          /\ \A c \in DOMAIN s : s'[c] = s[c]
      BY <1>1, <2>5 DEF N
    <2>7. ASSUME NEW c \in DOMAIN s' PROVE FilterOf(s[c])'
      <3>1. CASE c = N
        BY <2>3, <2>6, <3>1
      <3>2. CASE c # N
        <4>1. c \in DOMAIN s /\ s[c].tid # l.tid /\ FilterOf(s[c]) /\ s[c] \in Filters
          BY <1>1, <1>3, <2>6, <3>2 DEF Reading
        <4>2. PICK h \in Filters : h = s[c]
          BY <4>1
        <4>3. FilterOf(h)'
          BY <4>1, <4>2, OtherFilter
        <4>4. QED
          BY <2>6, <4>1, <4>2, <4>3
      <3>3. QED
        BY <3>1, <3>2
    <2>8. OwnFilters'
      BY <1>3, <2>1, <2>6 DEF Reading, OwnFilters
    <2>9. WithoutFilter'
      <3>1. SUFFICES ASSUME NEW t \in RoundTids', \A c \in DOMAIN s' : s'[c].tid # t
                     PROVE  FALSE
        BY DEF WithoutFilter
      <3>2. t # l.tid /\ \A c \in DOMAIN s : s[c].tid # t
        BY <2>1, <2>6, <3>1
      <3>3. Len(s) = MAX_FILTERS
        BY <3>2, StillThisRound DEF Reading, WithoutFilter
      <3>4. QED
        BY <1>1, <1>3, <3>3
    <2>10. Len(s') <= MAX_FILTERS
      BY <1>1, <1>3, <2>5
    <2>11. QED
      BY <2>5, <2>7, <2>8, <2>9, <2>10
  <1>4. CASE (\A k \in DOMAIN s : s[k].tid # l.tid) /\ Len(s) = MAX_FILTERS /\ s' = s
    <2>1. ASSUME NEW c \in DOMAIN s PROVE FilterOf(s[c])'
      <3>1. s[c].tid # l.tid /\ FilterOf(s[c]) /\ s[c] \in Filters
        BY <1>1, <1>4 DEF Reading
      <3>2. PICK h \in Filters : h = s[c]
        BY <3>1
      <3>3. FilterOf(h)'
        BY <3>1, <3>2, OtherFilter
      <3>4. QED
        BY <1>4, <3>2, <3>3
    <2>2. OwnFilters'
      BY <1>4 DEF Reading, OwnFilters
    <2>3. WithoutFilter'
      BY <1>4, SameOwners
    <2>4. (\A c \in DOMAIN s : FilterOf(s[c]))'
      BY <1>4, <2>1
    <2>5. QED
      BY <1>1, <1>4, <2>2, <2>3, <2>4
  <1>5. QED
    BY <1>1, <1>2, <1>3, <1>4, FilterTaken DEF b, Reading

(* The filters stay exact while neither they nor the samples change.       *)
LEMMA SameFilled == ASSUME s' = s, samples' = samples, round' = round, Filled PROVE Filled'
  <1>1. /\ RoundTids' = RoundTids
        /\ \A t : ThisRound(t)' = ThisRound(t)
        /\ \A t : Image(t)' = Image(t)
        /\ \A t, b : Counted(t, b)' = Counted(t, b)
    BY SameRound DEF Image
  <1>2. ASSUME NEW k \in DOMAIN s PROVE FilterOf(s[k])'
    <2>1. PICK f : f = s[k]
      OBVIOUS
    <2>2. FilterOf(f)
      BY <2>1 DEF Filled
    <2>3. FilterOf(f)'
      BY <1>1, <2>2 DEF FilterOf
    <2>4. QED
      BY <2>1, <2>3
  <1>3. OwnFilters'
    BY DEF Filled, OwnFilters
  <1>4. WithoutFilter'
    BY <1>1 DEF Filled, WithoutFilter
  <1>5. QED
    BY <1>2, <1>3, <1>4 DEF Filled

(* There are no filters and no samples at the start.                       *)
LEMMA FilterInit == Init => FilterInv
  <1> SUFFICES ASSUME Init PROVE FilterInv
    OBVIOUS
  <1>1. FilterTypes
    BY DEF Init, FilterTypes, Stages
  <1>2. RoundsPassed
    BY DEF Init, RoundsPassed
  <1>3. QED
    BY <1>1, <1>2 DEF Init, FilterInv, InRound

(* A line is read.                                                         *)
LEMMA FilterRead == ASSUME FilterInv, ReadLine PROVE FilterInv'
  <1> DEFINE l == report[at + 1]
  <1>1. l \in Lines /\ l = Line /\ InRound /\ Filled
    BY DEF FilterInv, FilterTypes, ReadLine, InRound, Line
  <1>2. round' = round /\ report' = report /\ at' \in Nat /\ workload' = workload
    BY DEF ReadLine, FilterInv, FilterTypes, build
  <1>3. CASE UNCHANGED <<s, samples>> /\ stage' \in {"reading", "overrun"}
    <2>1. Filled'
      BY <1>1, <1>2, <1>3, SameFilled
    <2>2. FilterTypes'
      BY <1>2, <1>3 DEF FilterInv, FilterTypes, Stages
    <2>3. RoundsPassed'
      BY <1>2, <1>3 DEF FilterInv, RoundsPassed
    <2>4. QED
      BY <2>1, <2>2, <2>3 DEF FilterInv
  <1>4. CASE /\ getfilters(l) /\ stage' = "reading"
             /\ samples' = Append(samples, [line |-> l, round |-> round])
    <2> PICK k : k = l
      OBVIOUS
    <2>1. k \in Lines /\ Grows(k) /\ getfilters(k)
      BY <1>1, <1>2, <1>4 DEF Grows, getfilters
    <2>2. Reading(k)
      BY <1>1, <2>1 DEF Reading, Filled, FilterInv, FilterTypes
    <2>3. s' \in Seq(Filters) /\ Filled'
      BY <2>1, <2>2, FilterStored DEF Filled
    <2>4. /\ samples' \in Seq(Samples) /\ DOMAIN samples' = DOMAIN samples \cup {Newest}
          /\ \A n \in DOMAIN samples : samples'[n] = samples[n]
          /\ samples'[Newest].round = round
      BY <2>2, Grown DEF Reading
    <2>5. FilterTypes'
      BY <1>2, <1>4, <2>3, <2>4 DEF FilterInv, FilterTypes, Stages
    <2>6. RoundsPassed'
      BY <1>2, <1>4, <2>4 DEF FilterInv, FilterTypes, RoundsPassed
    <2>7. QED
      BY <2>3, <2>5, <2>6 DEF FilterInv
  <1>5. QED
    BY <1>1, <1>3, <1>4 DEF ReadLine

(* When the reading of a report begins, the filters are empty and so is the round. *)
LEMMA FilterRecord == ASSUME FilterInv, Record PROVE FilterInv'
  <1>1. /\ stage = "recording" /\ stage' \in {"reading", "crashed"} /\ at' = 0
        /\ UNCHANGED <<workload, round, s, samples>>
    BY DEF Record, build
  <1>2. report' \in Seq(Lines)
    BY FilterAssumption DEF Record, FilterInv, FilterTypes
  <1>3. FilterTypes'
    BY <1>1, <1>2 DEF FilterInv, FilterTypes, Stages
  <1>4. RoundsPassed'
    BY <1>1 DEF FilterInv, RoundsPassed
  <1>5. s = << >> /\ \A n \in DOMAIN samples : samples[n].round < round
    BY <1>1 DEF FilterInv, RoundsPassed
  <1>6. \A t : ThisRound(t) = {}
    <2>1. \A n \in DOMAIN samples : samples[n].round # round
      BY <1>5 DEF FilterInv, FilterTypes, Samples
    <2>2. QED
      BY <2>1 DEF ThisRound, SamplesOf
  <1>7. Filled
    <2>1. RoundTids = {} /\ Len(s) = 0 /\ DOMAIN s = {} /\ MAX_FILTERS \in Nat
      BY <1>5, <1>6, FilterAssumption DEF RoundTids
    <2>2. QED
      BY <2>1 DEF Filled, OwnFilters, WithoutFilter
  <1>8. Filled'
    BY <1>1, <1>7, SameFilled
  <1>9. QED
    BY <1>3, <1>4, <1>8 DEF FilterInv

(* In every round the filters taken are exact.                             *)
LEMMA FilterInvariance == Spec => []FilterInv
  <1>1. ASSUME FilterInv, [Next]_vars PROVE FilterInv'
    <2>1. CASE ReadOutputFile
      <3>1. /\ round' = round + 1 /\ stage' \in {"deciding", "crashed"}
            /\ UNCHANGED <<workload, at, report, s, samples>>
        BY <2>1 DEF ReadOutputFile, build
      <3>2. FilterTypes'
        BY <1>1, <3>1 DEF FilterInv, FilterTypes, Stages
      <3>3. \A n \in DOMAIN samples : samples[n].round < round + 1 /\ samples[n].round <= round + 1
        <4>1. /\ round \in Nat /\ samples \in Seq(Samples)
              /\ \A n \in DOMAIN samples : samples[n].round <= round
          BY <1>1 DEF FilterInv, FilterTypes, RoundsPassed
        <4>2. \A n \in DOMAIN samples : samples[n].round \in Nat
          <5>1. \A n \in DOMAIN samples : samples[n] \in Samples
            BY <4>1
          <5>2. \A e \in Samples : e.round \in Nat
            BY DEF Samples
          <5>3. QED
            BY <5>1, <5>2
        <4>3. QED
          BY <4>1, <4>2
      <3>4. RoundsPassed'
        BY <3>1, <3>3 DEF RoundsPassed
      <3>5. QED
        BY <3>1, <3>2, <3>4 DEF FilterInv, InRound
    <2>2. CASE NothingToBeDone \/ NextRound
      <3>1. stage' = "counting" /\ UNCHANGED <<workload, round, at, report, s, samples>>
        BY <2>2 DEF NothingToBeDone, NextRound, build, files
      <3>2. QED
        BY <1>1, <3>1 DEF FilterInv, FilterTypes, RoundsPassed, InRound, Stages
    <2>3. CASE Initialize
      <3>1. /\ stage = "deciding" /\ stage' = "recording" /\ s' = << >>
            /\ UNCHANGED <<workload, round, at, report, samples>>
        BY <2>3 DEF Initialize, build, files
      <3>2. QED
        BY <1>1, <3>1 DEF FilterInv, FilterTypes, RoundsPassed, InRound, Stages
    <2>4. CASE Record
      BY <1>1, <2>4, FilterRecord
    <2>5. CASE ReadLine
      BY <1>1, <2>5, FilterRead
    <2>6. CASE EndOfFile \/ Compare \/ NothingToCompare \/ UNCHANGED vars
      <3>1. /\ UNCHANGED <<workload, round, at, report, s, samples>>
            /\ \/ InRound /\ stage' \in {"comparing", "reported"}
               \/ stage' = stage
        BY <2>6 DEF EndOfFile, Compare, NextPair, NothingToCompare, vars, build, files, InRound
      <3>2. InRound' => InRound
        BY <3>1 DEF InRound
      <3>3. FilterTypes' /\ RoundsPassed'
        BY <1>1, <3>1 DEF FilterInv, FilterTypes, RoundsPassed, Stages
      <3>4. InRound' => Filled'
        BY <1>1, <3>1, <3>2, SameFilled DEF FilterInv
      <3>5. QED
        BY <3>3, <3>4 DEF FilterInv
    <2>7. QED
      BY <1>1, <2>1, <2>2, <2>3, <2>4, <2>5, <2>6 DEF Next
  <1>2. QED
    BY <1>1, FilterInit, PTL DEF Spec

(* What the filters hold is exactly what their threads were sampled at in  *)
(* this round; a thread without one was sampled after MAX_FILTERS others   *)
(* (getfilters and initialize_filters, perf2_new.c).                       *)
THEOREM FiltersExact == Spec => []FiltersOfRound
  <1>1. FilterInv => FiltersOfRound
    <2> SUFFICES ASSUME FilterInv, InRound PROVE FiltersOfRound
      BY DEF FiltersOfRound
    <2>1. Filled
      BY DEF FilterInv
    <2>2. ASSUME NEW k \in DOMAIN s, NEW b \in Bins
          PROVE  /\ s[k].frequency[b] = Cardinality({n \in ThisRound(s[k].tid) : Bin(samples[n].line) = b})
                 /\ b \in s[k].filter <=> s[k].frequency[b] > 0
      <3> DEFINE C == Counted(s[k].tid, b)
      <3>1. FilterOf(s[k])
        BY <2>1 DEF Filled
      <3>2. s[k].frequency[b] = Cardinality(C)
        BY <3>1 DEF FilterOf
      <3>3. C = {n \in ThisRound(s[k].tid) : Bin(samples[n].line) = b}
        BY DEF Counted
      <3>4. b \in s[k].filter <=> C # {}
        BY <3>1 DEF FilterOf, Image, Counted
      <3>5. IsFiniteSet(C)
        <4>1. C \in SUBSET DOMAIN samples
          BY OfDomain DEF Counted
        <4>2. samples \in Seq(Samples)
          BY DEF FilterInv, FilterTypes
        <4>3. IsFiniteSet(DOMAIN samples)
          BY <4>2, FS_Interval
        <4>4. QED
          BY <4>1, <4>3, FS_Subset
      <3> HIDE DEF C
      <3>6. Cardinality(C) > 0 <=> C # {}
        BY <3>5, FS_EmptySet, FS_CardinalityType
      <3>7. QED
        BY <3>2, <3>3, <3>4, <3>6
    <2>3. QED
      BY <2>1, <2>2 DEF Filled, FiltersOfRound, OwnFilters, WithoutFilter
  <1>2. QED
    BY <1>1, FilterInvariance, PTL

-----------------------------------------------------------------------------
(* CountsSinceStart *)

(* One more at one place, if the place is there.                           *)
LEMMA OneMore ==
  ASSUME NEW S, NEW g \in [S -> Nat], NEW b
  PROVE  /\ [g EXCEPT ![b] = g[b] + 1] \in [S -> Nat]
         /\ \A c \in S : [g EXCEPT ![b] = g[b] + 1][c] = IF c = b THEN g[c] + 1 ELSE g[c]
  <1> DEFINE fr == [g EXCEPT ![b] = g[b] + 1]
  <1>1. CASE b \in S
    <2>1. g[b] + 1 \in Nat
      BY <1>1
    <2>2. QED
      BY <2>1
  <1>2. CASE b \notin S
    <2>1. fr = g
      BY <1>2
    <2>2. QED
      BY <1>2, <2>1
  <1>3. QED
    BY <1>1, <1>2

(* What a sample changes in the sets of a thread's addresses and samples.  *)
LEMMA GrownAddrs ==
  ASSUME samples \in Seq(Samples), NEW l \in Lines, round \in Nat, Grows(l), NEW t
  PROVE  AddrsOf(t)' = IF t = l.tid THEN AddrsOf(t) \cup {l.addr} ELSE AddrsOf(t)
  <1>1. /\ \A n \in SamplesOf(t) : samples'[n] = samples[n]
        /\ samples'[Newest].line = l
    BY Grown, OfDomain
  <1>2. SamplesOf(t)' = IF t = l.tid THEN SamplesOf(t) \cup {Newest} ELSE SamplesOf(t)
    BY GrownSets
  <1>3. QED
    BY <1>1, <1>2 DEF AddrsOf

(* The samples at one address of a thread become one more, or stay.        *)
LEMMA GrownWith ==
  ASSUME samples \in Seq(Samples), NEW l \in Lines, round \in Nat, Grows(l), NEW t, NEW a
  PROVE  /\ IsFiniteSet(With(t, a)) /\ Cardinality(With(t, a)) \in Nat
         /\ Cardinality(With(t, a))' = IF t = l.tid /\ a = l.addr THEN Cardinality(With(t, a)) + 1
                                                                  ELSE Cardinality(With(t, a))
  <1>1. /\ Newest \notin SamplesOf(t)
        /\ \A n \in SamplesOf(t) : samples'[n] = samples[n]
        /\ samples'[Newest].line = l
        /\ SamplesOf(t) \subseteq DOMAIN samples /\ IsFiniteSet(DOMAIN samples)
    BY Grown, OfDomain
  <1>2. SamplesOf(t)' = IF t = l.tid THEN SamplesOf(t) \cup {Newest} ELSE SamplesOf(t)
    BY GrownSets
  <1>3. IsFiniteSet(With(t, a)) /\ Cardinality(With(t, a)) \in Nat
    <2>1. With(t, a) \in SUBSET DOMAIN samples
      BY <1>1 DEF With
    <2>2. QED
      BY <1>1, <2>1, FS_Subset, FS_CardinalityType
  <1>4. With(t, a)' = IF t = l.tid /\ a = l.addr THEN With(t, a) \cup {Newest} ELSE With(t, a)
    BY <1>1, <1>2 DEF With
  <1>5. Newest \notin With(t, a)
    BY <1>1 DEF With
  <1>6. QED
    BY <1>3, <1>4, <1>5, FS_AddElement

(* What is known when a kept line is counted.                              *)
Counting(l) ==
  /\ samples \in Seq(Samples) /\ round \in Nat /\ l \in Lines /\ Grows(l)
  /\ \A t \in Nat : IsFiniteSet(AddrsOf(t))

(* What the new sample does to its thread's set of addresses.              *)
LEMMA CountingFacts ==
  ASSUME NEW l, Counting(l)
  PROVE  /\ l.tid \in Nat /\ l.pid \in Nat /\ l.addr \in Addrs
         /\ IsFiniteSet(AddrsOf(l.tid)) /\ Cardinality(AddrsOf(l.tid)) \in Nat
         /\ AddrsOf(l.tid)' = AddrsOf(l.tid) \cup {l.addr}
         /\ Cardinality(AddrsOf(l.tid))' =
              IF l.addr \in AddrsOf(l.tid) THEN Cardinality(AddrsOf(l.tid))
                                           ELSE Cardinality(AddrsOf(l.tid)) + 1
         /\ WithinUnique(l.tid)' => WithinUnique(l.tid)
         /\ WithinUnique(l.tid)' => Cardinality(AddrsOf(l.tid))' <= UNIQUE
  <1> DEFINE A == AddrsOf(l.tid)
  <1>1. l.tid \in Nat /\ l.pid \in Nat /\ l.addr \in Addrs
    BY DEF Counting, Lines, Addrs
  <1>2. IsFiniteSet(A) /\ Cardinality(A) \in Nat
    BY <1>1, FS_CardinalityType DEF Counting
  <1>3. A' = A \cup {l.addr}
    BY GrownAddrs DEF Counting
  <1>4. Cardinality(A)' = IF l.addr \in A THEN Cardinality(A) ELSE Cardinality(A) + 1
    BY <1>2, <1>3, FS_AddElement
  <1>5. /\ WithinUnique(l.tid) <=> Cardinality(A) <= UNIQUE
        /\ WithinUnique(l.tid)' <=> Cardinality(A)' <= UNIQUE
    BY DEF WithinUnique, AddrsOf
  <1> HIDE DEF A
  <1>6. WithinUnique(l.tid)' => WithinUnique(l.tid)
    BY <1>2, <1>4, <1>5, FilterAssumption
  <1>7. QED
    BY <1>1, <1>2, <1>3, <1>4, <1>5, <1>6 DEF A

(* The first sample of a thread stays its first.                           *)
LEMMA FirstStays ==
  ASSUME NEW l, Counting(l), NEW t, NEW u, u.tid = t.tid, u.pid = t.pid, FirstSeen(t)
  PROVE  FirstSeen(u)'
  <1>1. /\ \A n \in SamplesOf(t.tid) : samples'[n] = samples[n] /\ n < Newest /\ n \in Nat
        /\ Newest \in Nat
    BY Grown, OfDomain DEF Counting
  <1>2. SamplesOf(t.tid)' = SamplesOf(t.tid) \/ SamplesOf(t.tid)' = SamplesOf(t.tid) \cup {Newest}
    BY GrownSets DEF Counting
  <1>3. PICK n \in SamplesOf(t.tid) :
          samples[n].line.pid = t.pid /\ \A m \in SamplesOf(t.tid) : n <= m
    BY DEF FirstSeen
  <1>4. n \in SamplesOf(t.tid)' /\ \A m \in SamplesOf(t.tid)' : n <= m
    BY <1>1, <1>2, <1>3
  <1>5. samples'[n].line.pid = t.pid
    BY <1>1, <1>3
  <1>6. QED
    BY <1>4, <1>5 DEF FirstSeen

(* The records of the other threads.                                       *)
LEMMA OtherRecord ==
  ASSUME NEW l, Counting(l), NEW t \in Records, RecordOf(t), t.tid # l.tid
  PROVE  RecordOf(t)'
  <1>1. FirstSeen(t)'
    BY FirstStays DEF RecordOf
  <1>2. AddrsOf(t.tid)' = AddrsOf(t.tid)
    BY GrownAddrs DEF Counting
  <1>3. \A a : Cardinality(With(t.tid, a))' = Cardinality(With(t.tid, a))
    BY GrownWith DEF Counting
  <1>4. WithinUnique(t.tid)' = WithinUnique(t.tid)
    BY <1>2 DEF WithinUnique, AddrsOf
  <1>5. Exact(t) => Exact(t)'
    BY <1>2, <1>3 DEF Exact
  <1>6. QED
    BY <1>1, <1>4, <1>5 DEF RecordOf

(* The record of a thread first sampled now.                               *)
LEMMA NewRecord ==
  ASSUME NEW l, Counting(l), SamplesOf(l.tid) = {}
  PROVE  /\ FirstAddress(l) \in Records /\ FirstAddress(l).tid = l.tid
         /\ RecordOf(FirstAddress(l))'
  <1> DEFINE ad == [e \in Entries |-> IF e = 0 THEN l.addr ELSE << >>]
             fr == [e \in Entries |-> IF e = 0 THEN 1 ELSE 0]
  <1>1. 0 \in Entries
    BY FilterAssumption DEF Entries
  <1>2. /\ ad \in [Entries -> Addrs \cup {<< >>}] /\ fr \in [Entries -> Nat]
        /\ ad[0] = l.addr /\ fr[0] = 1
    BY <1>1, CountingFacts
  <1>3. FirstAddress(l) = [pid |-> l.pid, tid |-> l.tid, n |-> 1, addr |-> ad, freq |-> fr]
    BY DEF FirstAddress
  <1> HIDE DEF ad, fr
  <1> PICK u : u = FirstAddress(l)
    OBVIOUS
  <1>4. /\ u \in Records /\ u.tid = l.tid /\ u.pid = l.pid /\ u.n = 1
        /\ u.addr[0] = l.addr /\ u.freq[0] = 1
    BY <1>2, <1>3, CountingFacts DEF Records
  <1>5. SamplesOf(l.tid)' = {Newest} /\ samples'[Newest].line = l /\ Newest \in Nat
    BY GrownSets, Grown DEF Counting
  <1>6. FirstSeen(u)'
    BY <1>4, <1>5 DEF FirstSeen
  <1>7. AddrsOf(l.tid) = {} /\ With(l.tid, l.addr) = {}
    BY DEF AddrsOf, With
  <1>8. AddrsOf(l.tid)' = {l.addr} /\ Cardinality(AddrsOf(l.tid))' = 1
    BY <1>7, CountingFacts, FS_EmptySet
  <1>9. Cardinality(With(l.tid, l.addr))' = 1
    BY <1>7, GrownWith, FS_EmptySet DEF Counting
  <1>10. 0 .. u.n - 1 = {0}
    BY <1>4
  <1>11. Exact(u)'
    BY <1>4, <1>8, <1>9, <1>10 DEF Exact
  <1>12. QED
    BY <1>4, <1>6, <1>11 DEF RecordOf

(* An address the record does not have, written behind the last one or,    *)
(* when the arrays are full, over the counts.                              *)
LEMMA AddressAdded ==
  ASSUME NEW l, Counting(l), NEW t \in Records, t.tid = l.tid, RecordOf(t),
         EntriesOf(t, l.addr) = {}
  PROVE  /\ NewAddress(t, l.addr) \in Records /\ NewAddress(t, l.addr).tid = l.tid
         /\ RecordOf(NewAddress(t, l.addr))'
  <1> DEFINE a == l.addr
  <1> PICK u : u = NewAddress(t, a)
    OBVIOUS
  <1>1. /\ t.n \in Nat /\ t.addr \in [Entries -> Addrs \cup {<< >>}] /\ t.freq \in [Entries -> Nat]
        /\ t = [pid |-> t.pid, tid |-> t.tid, n |-> t.n, addr |-> t.addr, freq |-> t.freq]
        /\ t.pid \in Nat /\ t.tid \in Nat
        /\ a \in Addrs /\ UNIQUE \in Nat /\ TEXT \in Nat
    BY CountingFacts, FilterAssumption DEF Records
  <1>2. ASSUME u \in Records, u.tid = t.tid, u.pid = t.pid, WithinUnique(l.tid)' => Exact(u)'
        PROVE  RecordOf(u)'
    BY <1>2, FirstStays DEF RecordOf
  <1>3. CASE t.n < UNIQUE
    <2> DEFINE ad == [t.addr EXCEPT ![t.n] = a]
               fr == [t.freq EXCEPT ![t.n] = 1]
    <2>1. u = [t EXCEPT !.addr = ad, !.freq = fr, !.n = t.n + 1]
      BY <1>3 DEF NewAddress
    <2>2. t.n \in Entries
      BY <1>1, <1>3 DEF Entries
    <2>3. /\ ad \in [Entries -> Addrs \cup {<< >>}] /\ fr \in [Entries -> Nat]
          /\ ad[t.n] = a /\ fr[t.n] = 1
          /\ \A e \in Entries : e # t.n => ad[e] = t.addr[e] /\ fr[e] = t.freq[e]
      BY <1>1, <2>2
    <2> HIDE DEF ad, fr
    <2>4. u = [pid |-> t.pid, tid |-> t.tid, n |-> t.n + 1, addr |-> ad, freq |-> fr]
      BY <1>1, <2>1
    <2>5. /\ u \in Records /\ u.tid = t.tid /\ u.pid = t.pid /\ u.n = t.n + 1
          /\ u.addr = ad /\ u.freq = fr
      BY <1>1, <2>3, <2>4 DEF Records
    <2>6. 0 .. u.n - 1 = (0 .. t.n - 1) \cup {t.n} /\ t.n \notin 0 .. t.n - 1
      BY <1>1, <2>5
    <2>7. \A e \in 0 .. t.n - 1 : e \in Entries /\ e # t.n
      BY <1>1, <1>3 DEF Entries
    <2>8. /\ u.addr[t.n] = a /\ u.freq[t.n] = 1
          /\ \A e \in 0 .. t.n - 1 : u.addr[e] = t.addr[e] /\ u.freq[e] = t.freq[e]
      BY <2>3, <2>5, <2>7
    <2>9. \A e \in 0 .. t.n - 1 : t.addr[e] # a
      BY DEF EntriesOf
    <2>10. ASSUME WithinUnique(l.tid)' PROVE Exact(u)'
      <3>1. Exact(t)
        BY <2>10, CountingFacts DEF RecordOf
      <3>2. a \notin AddrsOf(t.tid)
        BY <2>9, <3>1 DEF Exact
      <3>a. /\ t.n = Cardinality(AddrsOf(t.tid))
            /\ AddrsOf(t.tid) = {t.addr[e] : e \in 0 .. t.n - 1}
            /\ \A e, d \in 0 .. t.n - 1 : t.addr[e] = t.addr[d] => e = d
        BY <3>1 DEF Exact
      <3>3. AddrsOf(t.tid)' = AddrsOf(t.tid) \cup {a} /\ Cardinality(AddrsOf(t.tid))' = t.n + 1
        <4>1. /\ AddrsOf(l.tid)' = AddrsOf(l.tid) \cup {a}
              /\ Cardinality(AddrsOf(l.tid))' = Cardinality(AddrsOf(l.tid)) + 1
          BY <3>2, CountingFacts
        <4>2. QED
          BY <3>a, <4>1
      <3> DEFINE I == 0 .. t.n - 1
      <3>b. 0 .. u.n - 1 = I \cup {t.n}
        BY <2>6
      <3>c. /\ u.addr[t.n] = a /\ (\A e \in I : u.addr[e] = t.addr[e] /\ t.addr[e] # a)
            /\ AddrsOf(t.tid) = {t.addr[e] : e \in I}
            /\ \A e, d \in I : t.addr[e] = t.addr[d] => e = d
        BY <2>8, <2>9, <3>a
      <3> HIDE DEF I
      <3>4. AddrsOf(t.tid)' = {u.addr[e] : e \in 0 .. u.n - 1}
        <4>1. {u.addr[e] : e \in I} = {t.addr[e] : e \in I}
          BY <3>c
        <4>2. {u.addr[e] : e \in I \cup {t.n}} = {u.addr[e] : e \in I} \cup {u.addr[t.n]}
          OBVIOUS
        <4>3. QED
          BY <3>3, <3>b, <3>c, <4>1, <4>2
      <3>5. \A e, d \in 0 .. u.n - 1 : u.addr[e] = u.addr[d] => e = d
        BY <3>b, <3>c
      <3>6. With(t.tid, a) = {}
        BY <3>2 DEF With, AddrsOf
      <3>7. Cardinality(With(t.tid, a))' = 1
        BY <3>6, GrownWith, FS_EmptySet DEF Counting
      <3>8. \A e \in 0 .. t.n - 1 : u.freq[e] = Cardinality(With(t.tid, u.addr[e]))'
        <4>1. ASSUME NEW e \in 0 .. t.n - 1
              PROVE  u.freq[e] = Cardinality(With(t.tid, u.addr[e]))'
          <5>1. PICK c : c = t.addr[e]
            OBVIOUS
          <5>2. Cardinality(With(t.tid, c))' = Cardinality(With(t.tid, c))
            BY <2>9, <5>1, GrownWith DEF Counting
          <5>3. t.freq[e] = Cardinality(With(t.tid, c))
            BY <3>1, <5>1 DEF Exact
          <5>4. QED
            BY <2>8, <5>1, <5>2, <5>3
        <4>2. QED
          BY <4>1
      <3>9. \A e \in 0 .. u.n - 1 : u.freq[e] = Cardinality(With(t.tid, u.addr[e]))'
        BY <2>6, <2>8, <3>7, <3>8
      <3>10. QED
        BY <2>5, <3>3, <3>4, <3>5, <3>9 DEF Exact
    <2>11. QED
      BY <1>1, <1>2, <2>5, <2>10
  <1>4. CASE ~(t.n < UNIQUE)
    <2> DEFINE fr == [e \in Entries |-> IF e < 4 THEN TEXT ELSE t.freq[e]]
    <2>1. u = [t EXCEPT !.freq = fr, !.n = 2]
      BY <1>4 DEF NewAddress
    <2>2. fr \in [Entries -> Nat]
      BY <1>1
    <2> HIDE DEF fr
    <2>3. u = [pid |-> t.pid, tid |-> t.tid, n |-> 2, addr |-> t.addr, freq |-> fr]
      BY <1>1, <2>1
    <2>4. u \in Records /\ u.tid = t.tid /\ u.pid = t.pid
      BY <1>1, <2>2, <2>3 DEF Records
    <2>5. ~WithinUnique(l.tid)'
      <3>1. SUFFICES ASSUME WithinUnique(l.tid)' PROVE FALSE
        OBVIOUS
      <3>2. Exact(t)
        BY <3>1, CountingFacts DEF RecordOf
      <3>3. a \notin AddrsOf(t.tid)
        BY <3>2 DEF Exact, EntriesOf
      <3>4. Cardinality(AddrsOf(t.tid))' = t.n + 1 /\ Cardinality(AddrsOf(t.tid))' <= UNIQUE
        <4>1. t.n = Cardinality(AddrsOf(l.tid))
          BY <3>2 DEF Exact
        <4>2. /\ Cardinality(AddrsOf(l.tid))' = Cardinality(AddrsOf(l.tid)) + 1
              /\ Cardinality(AddrsOf(l.tid))' <= UNIQUE
          BY <3>1, <3>3, CountingFacts
        <4>3. QED
          BY <4>1, <4>2
      <3>5. QED
        BY <1>1, <1>4, <3>4
    <2>6. QED
      BY <1>1, <1>2, <2>4, <2>5
  <1>5. QED
    BY <1>3, <1>4

(* An address the record has.                                              *)
LEMMA AddressCounted ==
  ASSUME NEW l, Counting(l), NEW t \in Records, t.tid = l.tid, RecordOf(t),
         EntriesOf(t, l.addr) # {}
  PROVE  /\ KnownAddress(t, l.addr) \in Records /\ KnownAddress(t, l.addr).tid = l.tid
         /\ RecordOf(KnownAddress(t, l.addr))'
  <1> DEFINE a == l.addr
             E == EntriesOf(t, a)
             e0 == CHOOSE e \in E : \A d \in E : e <= d
             fr == [t.freq EXCEPT ![e0] = t.freq[e0] + 1]
  <1> PICK u : u = KnownAddress(t, a)
    OBVIOUS
  <1>1. /\ t.n \in Nat /\ t.addr \in [Entries -> Addrs \cup {<< >>}] /\ t.freq \in [Entries -> Nat]
        /\ t = [pid |-> t.pid, tid |-> t.tid, n |-> t.n, addr |-> t.addr, freq |-> t.freq]
        /\ t.pid \in Nat /\ t.tid \in Nat
        /\ a \in Addrs /\ UNIQUE \in Nat
    BY CountingFacts, FilterAssumption DEF Records
  <1>2. u = [t EXCEPT !.freq = fr]
    BY DEF KnownAddress
  <1>3. PICK p : p = e0
    OBVIOUS
  <1>4. /\ fr \in [Entries -> Nat]
        /\ \A c \in Entries : fr[c] = IF c = p THEN t.freq[c] + 1 ELSE t.freq[c]
    <2>1. PICK g \in [Entries -> Nat] : g = t.freq
      BY <1>1
    <2>2. fr = [g EXCEPT ![p] = g[p] + 1]
      BY <1>3, <2>1
    <2> HIDE DEF fr
    <2>3. /\ [g EXCEPT ![p] = g[p] + 1] \in [Entries -> Nat]
          /\ \A c \in Entries : [g EXCEPT ![p] = g[p] + 1][c] = IF c = p THEN g[c] + 1 ELSE g[c]
      BY OneMore
    <2>4. QED
      BY <2>1, <2>2, <2>3
  <1>5. ASSUME Exact(t) PROVE p \in 0 .. t.n - 1 /\ t.addr[p] = a
    <2>1. PICK e \in 0 .. t.n - 1 : t.addr[e] = a
      BY DEF EntriesOf
    <2>2. E = {e}
      BY <1>5, <2>1 DEF Exact, EntriesOf
    <2>3. e \in E /\ \A d \in E : e <= d
      BY <2>1, <2>2
    <2>4. e0 \in E
      BY <2>3
    <2>5. QED
      BY <1>3, <2>1, <2>2, <2>4
  <1> HIDE DEF fr, e0, E
  <1>6. u = [pid |-> t.pid, tid |-> t.tid, n |-> t.n, addr |-> t.addr, freq |-> fr]
    BY <1>1, <1>2
  <1>7. /\ u \in Records /\ u.tid = t.tid /\ u.pid = t.pid /\ u.n = t.n
        /\ u.addr = t.addr /\ u.freq = fr
    BY <1>1, <1>4, <1>6 DEF Records
  <1>8. ASSUME WithinUnique(l.tid)' PROVE Exact(u)'
    <2>1. Exact(t)
      BY <1>8, CountingFacts DEF RecordOf
    <2>2. a \in AddrsOf(t.tid)
      BY <1>5, <2>1 DEF Exact
    <2>3. AddrsOf(t.tid)' = AddrsOf(t.tid) /\ Cardinality(AddrsOf(t.tid))' = t.n /\ t.n <= UNIQUE
      <3>1. t.n = Cardinality(AddrsOf(l.tid)) /\ a \in AddrsOf(l.tid)
        BY <2>1, <2>2 DEF Exact
      <3>2. /\ AddrsOf(l.tid)' = AddrsOf(l.tid)
            /\ Cardinality(AddrsOf(l.tid))' = Cardinality(AddrsOf(l.tid))
            /\ Cardinality(AddrsOf(l.tid))' <= UNIQUE
        BY <1>8, <3>1, CountingFacts
      <3>3. QED
        BY <3>1, <3>2
    <2>4. \A e \in 0 .. t.n - 1 : e \in Entries
      BY <1>1, <2>3 DEF Entries
    <2>5. ASSUME NEW e \in 0 .. t.n - 1
          PROVE  u.freq[e] = Cardinality(With(t.tid, u.addr[e]))'
      <3>1. PICK c : c = t.addr[e]
        OBVIOUS
      <3>2. t.freq[e] = Cardinality(With(t.tid, c))
        BY <2>1, <3>1 DEF Exact
      <3>3. c = a <=> e = p
        BY <1>5, <2>1, <3>1 DEF Exact
      <3>4. Cardinality(With(t.tid, c))' = IF c = a THEN t.freq[e] + 1 ELSE t.freq[e]
        BY <3>2, GrownWith DEF Counting
      <3>5. u.freq[e] = IF e = p THEN t.freq[e] + 1 ELSE t.freq[e]
        BY <1>4, <1>7, <2>4
      <3>6. QED
        BY <1>7, <3>1, <3>3, <3>4, <3>5
    <2>6. /\ u.n = Cardinality(AddrsOf(u.tid))'
          /\ AddrsOf(u.tid)' = {u.addr[e] : e \in 0 .. u.n - 1}
          /\ \A e, d \in 0 .. u.n - 1 : u.addr[e] = u.addr[d] => e = d
      <3>1. /\ AddrsOf(t.tid) = {t.addr[e] : e \in 0 .. t.n - 1}
            /\ \A e, d \in 0 .. t.n - 1 : t.addr[e] = t.addr[d] => e = d
        BY <2>1 DEF Exact
      <3>2. QED
        BY <1>7, <2>3, <3>1
    <2>7. \A e \in 0 .. u.n - 1 : u.freq[e] = Cardinality(With(u.tid, u.addr[e]))'
      BY <1>7, <2>5
    <2>8. QED
      BY <2>6, <2>7 DEF Exact
  <1>9. QED
    BY <1>7, <1>8, FirstStays DEF RecordOf

(* The new sample's thread is the only one that may be new.                *)
LEMMA TidsGrown ==
  ASSUME NEW l, Counting(l)
  PROVE  /\ SampledTids' = SampledTids \cup {l.tid}
         /\ l.tid \notin SampledTids => SamplesOf(l.tid) = {}
  <1>1. /\ DOMAIN samples' = DOMAIN samples \cup {Newest}
        /\ \A n \in DOMAIN samples : samples'[n] = samples[n]
        /\ samples'[Newest].line = l
    BY Grown DEF Counting
  <1>2. SampledTids' = SampledTids \cup {l.tid}
    BY <1>1 DEF SampledTids
  <1>3. l.tid \notin SampledTids => SamplesOf(l.tid) = {}
    BY DEF SampledTids, SamplesOf
  <1>4. QED
    BY <1>2, <1>3

(* add_threadInfo keeps one exact record for every thread.                 *)
LEMMA RecordStored ==
  ASSUME NEW l, Counting(l), Recorded, AddThreadInfo(l)
  PROVE  Recorded'
  <1>1. /\ threads \in Seq(Records) /\ Len(threads) \in Nat /\ DOMAIN threads = 1 .. Len(threads)
        /\ \A k \in DOMAIN threads : threads[k] \in Records /\ RecordOf(threads[k])
    BY DEF Recorded
  <1>2. CASE ThreadOf(l) = {}
    <2> PICK u : u = FirstAddress(l)
      OBVIOUS
    <2> DEFINE N == Len(threads) + 1
    <2>1. SamplesOf(l.tid) = {} /\ \A k \in DOMAIN threads : threads[k].tid # l.tid
      BY <1>2, TidsGrown DEF Recorded, ThreadOf
    <2>2. u \in Records /\ u.tid = l.tid /\ RecordOf(u)'
      BY <2>1, NewRecord
    <2>3. threads' = Append(threads, u)
      BY <1>2 DEF AddThreadInfo
    <2>4. /\ threads' \in Seq(Records) /\ Len(threads') = Len(threads) + 1
          /\ \A k \in 1 .. Len(threads) : threads'[k] = threads[k]
          /\ threads'[Len(threads) + 1] = u
      BY <1>1, <2>2, <2>3, AppendProperties
    <2>5. /\ DOMAIN threads' = DOMAIN threads \cup {N} /\ N \notin DOMAIN threads /\ threads'[N] = u
          /\ \A k \in DOMAIN threads : threads'[k] = threads[k]
      BY <1>1, <2>4
    <2> HIDE DEF N
    <2>6. OwnRecords'
      BY <2>1, <2>2, <2>5 DEF Recorded, OwnRecords
    <2>7. {threads'[k].tid : k \in DOMAIN threads'} = {threads[k].tid : k \in DOMAIN threads} \cup {l.tid}
      BY <2>2, <2>5
    <2>8. ASSUME NEW k \in DOMAIN threads' PROVE RecordOf(threads[k])'
      <3>1. CASE k = N
        BY <2>2, <2>5, <3>1
      <3>2. CASE k # N
        <4>1. k \in DOMAIN threads /\ threads[k].tid # l.tid
          BY <2>1, <2>5, <3>2
        <4>2. PICK h \in Records : h = threads[k]
          BY <1>1, <4>1
        <4>3. RecordOf(h)'
          BY <1>1, <4>1, <4>2, OtherRecord
        <4>4. QED
          BY <2>5, <4>1, <4>2, <4>3
      <3>3. QED
        BY <3>1, <3>2
    <2>9. QED
      BY <2>4, <2>6, <2>7, <2>8, TidsGrown DEF Recorded
  <1>3. CASE ThreadOf(l) # {}
    <2> PICK p : p = CHOOSE k \in ThreadOf(l) : TRUE
      OBVIOUS
    <2>1. p \in DOMAIN threads /\ threads[p].tid = l.tid
      BY <1>3 DEF ThreadOf
    <2>2. PICK h \in Records : h = threads[p]
      BY <1>1, <2>1
    <2> PICK u : u = IF EntriesOf(h, l.addr) = {} THEN NewAddress(h, l.addr) ELSE KnownAddress(h, l.addr)
      OBVIOUS
    <2>3. u \in Records /\ u.tid = l.tid /\ RecordOf(u)'
      <3>1. RecordOf(h) /\ h.tid = l.tid
        BY <1>1, <2>1, <2>2
      <3>2. CASE EntriesOf(h, l.addr) = {}
        BY <3>1, <3>2, AddressAdded
      <3>3. CASE EntriesOf(h, l.addr) # {}
        BY <3>1, <3>3, AddressCounted
      <3>4. QED
        BY <3>2, <3>3
    <2>4. threads' = [threads EXCEPT ![p] = u]
      BY <1>3, <2>2 DEF AddThreadInfo
    <2>5. /\ threads' \in Seq(Records) /\ DOMAIN threads' = DOMAIN threads /\ threads'[p] = u
          /\ \A k \in DOMAIN threads : k # p => threads'[k] = threads[k]
      BY <1>1, <2>1, <2>3, <2>4
    <2>6. \A k \in DOMAIN threads : threads'[k].tid = threads[k].tid
      BY <2>1, <2>3, <2>5
    <2>7. OwnRecords'
      BY <2>5, <2>6 DEF Recorded, OwnRecords
    <2>8. {threads'[k].tid : k \in DOMAIN threads'} = SampledTids'
      <3>1. {threads'[k].tid : k \in DOMAIN threads'} = {threads[k].tid : k \in DOMAIN threads}
        BY <2>5, <2>6
      <3>2. l.tid \in SampledTids
        BY <2>1 DEF Recorded
      <3>3. QED
        BY <3>1, <3>2, TidsGrown DEF Recorded
    <2>9. ASSUME NEW k \in DOMAIN threads PROVE RecordOf(threads[k])'
      <3>1. CASE k = p
        BY <2>3, <2>5, <3>1
      <3>2. CASE k # p
        <4>1. threads[k].tid # l.tid
          BY <2>1, <3>2 DEF Recorded, OwnRecords
        <4>2. PICK c \in Records : c = threads[k]
          BY <1>1
        <4>3. RecordOf(c)'
          BY <1>1, <4>1, <4>2, OtherRecord
        <4>4. QED
          BY <2>5, <3>2, <4>2, <4>3
      <3>3. QED
        BY <3>1, <3>2
    <2>10. QED
      BY <2>5, <2>7, <2>8, <2>9 DEF Recorded
  <1>4. QED
    BY <1>2, <1>3

(* The records stay exact while neither they nor the samples change.       *)
LEMMA SameRecorded ==
  ASSUME threads' = threads, samples' = samples
  PROVE  /\ Recorded => Recorded'
         /\ \A t : AddrsOf(t)' = AddrsOf(t)
  <1>1. /\ SampledTids' = SampledTids
        /\ \A t : SamplesOf(t)' = SamplesOf(t)
    BY DEF SampledTids, SamplesOf
  <1>2. /\ \A t : AddrsOf(t)' = AddrsOf(t)
        /\ \A t, a : With(t, a)' = With(t, a)
    BY <1>1 DEF AddrsOf, With
  <1>3. \A t : WithinUnique(t)' = WithinUnique(t)
    BY <1>1 DEF WithinUnique
  <1>4. ASSUME NEW t, RecordOf(t) PROVE RecordOf(t)'
    BY <1>1, <1>2, <1>3, <1>4 DEF RecordOf, FirstSeen, Exact
  <1>5. ASSUME Recorded PROVE Recorded'
    <2>1. ASSUME NEW k \in DOMAIN threads PROVE RecordOf(threads[k])'
      <3>1. PICK c : c = threads[k]
        OBVIOUS
      <3>2. RecordOf(c)'
        BY <1>4, <1>5, <3>1 DEF Recorded
      <3>3. QED
        BY <3>1, <3>2
    <2>2. QED
      BY <1>1, <1>5, <2>1 DEF Recorded, OwnRecords
  <1>6. QED
    BY <1>2, <1>5

(* Reading a line keeps the records exact, or overruns threads[].          *)
LEMMA RecordRead ==
  ASSUME FilterInv, RecordsInv, ReadLine
  PROVE  RecordsInv'
  <1> PICK l : l = Line
    OBVIOUS
  <1>1. l \in Lines /\ round' = round /\ stage = "reading"
    BY DEF FilterInv, FilterTypes, ReadLine, Line
  <1>2. CASE UNCHANGED <<stage, threads, s, samples>>
    BY <1>2, SameRecorded DEF RecordsInv
  <1>3. CASE Overrun(l) /\ UNCHANGED <<threads, s, samples>>
    BY <1>3, SameRecorded DEF RecordsInv, Overrun
  <1>4. CASE /\ AddThreadInfo(l) /\ stage' = stage
             /\ samples' = Append(samples, [line |-> l, round |-> round])
    <2>1. Counting(l)
      BY <1>1, <1>4 DEF Counting, Grows, FilterInv, FilterTypes, RecordsInv
    <2>2. Recorded'
      BY <1>4, <2>1, RecordStored DEF RecordsInv
    <2>3. ASSUME NEW t \in Nat PROVE IsFiniteSet(AddrsOf(t))'
      <3>1. AddrsOf(t)' = IF t = l.tid THEN AddrsOf(t) \cup {l.addr} ELSE AddrsOf(t)
        BY <2>1, GrownAddrs DEF Counting
      <3>2. IsFiniteSet(AddrsOf(t))
        BY DEF RecordsInv
      <3>3. IsFiniteSet(AddrsOf(t) \cup {l.addr})
        BY <3>2, FS_AddElement
      <3>4. QED
        BY <3>1, <3>2, <3>3
    <2>4. QED
      BY <1>1, <1>4, <2>2, <2>3 DEF RecordsInv
  <1>5. QED
    BY <1>2, <1>3, <1>4 DEF ReadLine, AddThreadInfo, Overrun, ThreadOf

(* The records count all samples since the start.                          *)
LEMMA RecordsInvariance == Spec => []RecordsInv
  <1>1. Init => RecordsInv
    <2> SUFFICES ASSUME Init PROVE RecordsInv
      OBVIOUS
    <2>1. threads = << >> /\ samples = << >> /\ stage = "counting"
      BY DEF Init
    <2>2. threads \in Seq(Records) /\ DOMAIN threads = {} /\ DOMAIN samples = {}
      BY <2>1
    <2>3. SampledTids = {} /\ \A t : AddrsOf(t) = {}
      BY <2>2 DEF SampledTids, AddrsOf, SamplesOf
    <2>4. QED
      BY <2>1, <2>2, <2>3, FS_EmptySet DEF RecordsInv, Recorded, OwnRecords
  <1>2. ASSUME FilterInv, RecordsInv, [Next]_vars PROVE RecordsInv'
    <2>1. CASE ReadLine
      BY <1>2, <2>1, RecordRead
    <2>2. CASE UNCHANGED <<threads, samples>> /\ (stage' = "overrun" => stage = "overrun")
      BY <1>2, <2>2, SameRecorded DEF RecordsInv
    <2>3. ReadLine \/ (UNCHANGED <<threads, samples>> /\ (stage' = "overrun" => stage = "overrun"))
      BY <1>2 DEF Next, vars, ReadOutputFile, NothingToBeDone, Initialize, Record, EndOfFile,
                  Compare, NextPair, NothingToCompare, NextRound
    <2>4. QED
      BY <2>1, <2>2, <2>3
  <1>3. QED
    BY <1>1, <1>2, FilterInvariance, PTL DEF Spec

(* threads[] counts all samples of every thread since the start, as long   *)
(* as the thread has no more than UNIQUE addresses, and is overrun by the  *)
(* first thread after THREAD_MAX others (add_threadInfo, perf2_new.c).     *)
THEOREM CountsExact == Spec => []CountsSinceStart
  <1>1. RecordsInv => CountsSinceStart
    <2> SUFFICES ASSUME RecordsInv PROVE CountsSinceStart
      OBVIOUS
    <2>1. /\ \A k, l \in DOMAIN threads : threads[k].tid = threads[l].tid => k = l
          /\ {threads[k].tid : k \in DOMAIN threads} = SampledTids
      BY DEF RecordsInv, Recorded, OwnRecords
    <2>2. stage = "overrun" => Cardinality(SampledTids) = THREAD_MAX
      <3> DEFINE f == [k \in DOMAIN threads |-> threads[k].tid]
      <3>1. f \in Bijection(DOMAIN threads, SampledTids)
        BY <2>1, Fun_IsBij
      <3>2. DOMAIN threads = 1 .. Len(threads) /\ Len(threads) \in Nat
        BY DEF RecordsInv, Recorded
      <3>3. IsFiniteSet(DOMAIN threads) /\ Cardinality(DOMAIN threads) = Len(threads)
        <4>1. PICK c \in Nat : c = Len(threads)
          BY <3>2
        <4>2. IsFiniteSet(1 .. c) /\ Cardinality(1 .. c) = IF 1 > c THEN 0 ELSE c - 1 + 1
          BY FS_Interval
        <4>3. QED
          BY <3>2, <4>1, <4>2
      <3>4. Cardinality(SampledTids) = Len(threads)
        BY <3>1, <3>3, FS_Bijection DEF ExistsBijection
      <3>5. QED
        BY <3>4 DEF RecordsInv
    <2>3. ASSUME NEW k \in DOMAIN threads, NEW t, t = threads[k]
          PROVE  /\ \E n \in SamplesOf(t.tid) :
                      samples[n].line.pid = t.pid /\ \A m \in SamplesOf(t.tid) : n <= m
                 /\ WithinUnique(t.tid) =>
                      /\ t.n = Cardinality({samples[n].line.addr : n \in SamplesOf(t.tid)})
                      /\ \A n \in SamplesOf(t.tid) : \E e \in 0 .. t.n - 1 :
                           /\ t.addr[e] = samples[n].line.addr
                           /\ t.freq[e] = Cardinality({m \in SamplesOf(t.tid) :
                                                         samples[m].line.addr = t.addr[e]})
      <3>1. FirstSeen(t) /\ (WithinUnique(t.tid) => Exact(t))
        BY <2>3 DEF RecordsInv, Recorded, RecordOf
      <3>2. ASSUME Exact(t), NEW n \in SamplesOf(t.tid)
            PROVE  \E e \in 0 .. t.n - 1 :
                     /\ t.addr[e] = samples[n].line.addr
                     /\ t.freq[e] = Cardinality({m \in SamplesOf(t.tid) :
                                                   samples[m].line.addr = t.addr[e]})
        <4>1. samples[n].line.addr \in AddrsOf(t.tid)
          BY DEF AddrsOf
        <4>a. AddrsOf(t.tid) = {t.addr[e] : e \in 0 .. t.n - 1}
          BY <3>2 DEF Exact
        <4>2. PICK e \in 0 .. t.n - 1 : t.addr[e] = samples[n].line.addr
          BY <4>1, <4>a
        <4>3. t.freq[e] = Cardinality(With(t.tid, t.addr[e]))
          BY <3>2 DEF Exact
        <4>4. QED
          BY <4>2, <4>3 DEF With
      <3>3. Exact(t) => t.n = Cardinality({samples[n].line.addr : n \in SamplesOf(t.tid)})
        BY DEF Exact, AddrsOf
      <3>4. QED
        BY <3>1, <3>2, <3>3 DEF FirstSeen
    <2>4. QED
      BY <2>1, <2>2, <2>3 DEF CountsSinceStart
  <1>2. QED
    BY <1>1, RecordsInvariance, PTL

-----------------------------------------------------------------------------
(* PairsReported *)

(* The pairs looked at so far are fewer than all pairs.                    *)
LEMMA SlotBound ==
  ASSUME NEW a \in 1 .. MAX_FILTERS, NEW b \in 1 .. MAX_FILTERS
  PROVE  /\ (a - 1) * MAX_FILTERS + b - 1 < MAX_FILTERS * MAX_FILTERS
         /\ (a - 1) * MAX_FILTERS + b <= a * MAX_FILTERS
         /\ (a - 1) * MAX_FILTERS \in Nat /\ a * MAX_FILTERS \in Nat
  <1> DEFINE d == MAX_FILTERS - a
             m == MAX_FILTERS
  <1>1. m \in Nat /\ d \in Nat /\ a \in Nat /\ b \in Nat /\ b <= m /\ a = m - d /\ a - 1 \in Nat
    BY FilterAssumption
  <1> HIDE DEF d, m
  <1>2. d * m \in Nat /\ a * m \in Nat /\ (a - 1) * m \in Nat /\ m * m \in Nat
    BY <1>1
  <1>3. (a - 1) * m = a * m - m
    BY <1>1
  <1>4. a * m = m * m - d * m
    BY <1>1
  <1>5. (a - 1) * m + b - 1 < m * m /\ (a - 1) * m + b <= a * m
    BY <1>1, <1>2, <1>3, <1>4
  <1>6. QED
    BY <1>2, <1>5 DEF m

(* The rows of the first a filters, each with all later ones.              *)
LEMMA RowsBefore ==
  ASSUME NEW n \in Nat, NEW a \in 1 .. n, NEW b \in 1 .. n
  PROVE  /\ a * (2 * n - (a + 1)) = (a - 1) * (2 * n - a) + 2 * (n - a)
         /\ b > a => (a - 1) * (2 * n - a) + 2 * (b - a - 1) < n * (n - 1)
  <1> DEFINE d == n - a
             e == b - a - 1
  <1>1. n \in Int /\ a \in Int /\ b \in Int /\ d \in Nat /\ a = n - d /\ b <= n
    OBVIOUS
  <1>2. a * (2 * n - (a + 1)) = (a - 1) * (2 * n - a) + 2 * (n - a)
    OBVIOUS
  <1>3. ASSUME b > a PROVE (a - 1) * (2 * n - a) + 2 * (b - a - 1) < n * (n - 1)
    <2>1. d \in Nat \ {0} /\ e < d /\ e \in Nat /\ d - 1 \in Nat
      BY <1>3
    <2> HIDE DEF d, e
    <2>2. d * (d - 1) \in Nat
      BY <2>1
    <2>3. (a - 1) * (2 * n - a) + 2 * d = n * (n - 1) - d * (d - 1)
      BY <1>1, <2>1
    <2>4. (a - 1) * (2 * n - a) \in Int /\ n * (n - 1) \in Int
      BY <1>1
    <2>5. (a - 1) * (2 * n - a) + 2 * e < n * (n - 1)
      BY <2>1, <2>2, <2>3, <2>4
    <2>6. QED
      BY <2>5 DEF e
  <1>4. QED
    BY <1>2, <1>3

(* A row tells which filters it is about.                                  *)
LEMMA RowTells ==
  ASSUME OwnFilters, NEW x \in DOMAIN s, NEW y \in DOMAIN s, NEW v \in DOMAIN s, NEW w \in DOMAIN s,
         Row(s[x], s[y]) = Row(s[v], s[w])
  PROVE  x = v /\ y = w
  <1>1. \A f, g : Row(f, g).tids = <<f.tid, g.tid>>
    BY DEF Row
  <1>2. <<s[x].tid, s[y].tid>> = <<s[v].tid, s[w].tid>>
    BY <1>1
  <1>3. s[x].tid = s[v].tid /\ s[y].tid = s[w].tid
    BY <1>2
  <1>4. QED
    BY <1>3 DEF OwnFilters

(* What is known when two filters are looked at.                           *)
Comparing ==
  /\ FilterInv /\ ReportInv /\ stage = "comparing" /\ Compare

(* All of it, taken apart.                                                *)
LEMMA ComparingFacts ==
  ASSUME MAX_FILTERS <= PAIRS, Comparing
  PROVE  /\ Filled /\ OwnFilters /\ s \in Seq(Filters)
         /\ Len(s) \in Nat /\ Len(s) <= MAX_FILTERS /\ DOMAIN s = 1 .. Len(s)
         /\ MAX_FILTERS \in Nat /\ PAIRS \in Nat
         /\ i \in DOMAIN s /\ j \in DOMAIN s /\ i \in Nat /\ j \in Nat
         /\ s' = s /\ behind' = behind
         /\ pair_index \in Nat /\ pair_index \in Slots /\ pair_index < PAIRS + MAX_FILTERS * MAX_FILTERS
         /\ 0 .. pair_index - 1 \subseteq Slots
         /\ \A k \in 0 .. pair_index - 1 : Pair(k) = P[k] /\ P[k].i \in Nat /\ P[k].j \in Nat
         /\ PairsPassed /\ Compared /\ RowsReal /\ (Fits => Once /\ PairsExact) /\ ReportTypes
         /\ NextPair
  <1>1. /\ Filled /\ s \in Seq(Filters) /\ PairsPassed /\ Compared /\ RowsReal
        /\ (Fits => Once /\ PairsExact) /\ ReportTypes
    BY DEF Comparing, FilterInv, ReportInv, FilterTypes, InRound
  <1>2. /\ s # << >> /\ NextPair /\ s' = s /\ behind' = behind
    BY DEF Comparing, Compare, build
  <1>3. /\ Len(s) \in Nat /\ Len(s) <= MAX_FILTERS /\ DOMAIN s = 1 .. Len(s) /\ OwnFilters
        /\ MAX_FILTERS \in Nat /\ PAIRS \in Nat
        /\ i \in DOMAIN s /\ j \in DOMAIN s /\ i \in Nat /\ j \in Nat
        /\ pair_index \in Nat
    BY <1>1, <1>2, FilterAssumption DEF Filled, PairsPassed, ReportTypes
  <1>4. i \in 1 .. MAX_FILTERS /\ j \in 1 .. MAX_FILTERS
    BY <1>3
  <1>5. pair_index < MAX_FILTERS * MAX_FILTERS /\ MAX_FILTERS * MAX_FILTERS \in Nat
    <2>1. /\ (i - 1) * MAX_FILTERS + j - 1 < MAX_FILTERS * MAX_FILTERS
          /\ (i - 1) * MAX_FILTERS \in Nat
      BY <1>4, SlotBound
    <2>2. pair_index <= (i - 1) * MAX_FILTERS + j - 1
      BY <1>1 DEF PairsPassed
    <2>3. MAX_FILTERS * MAX_FILTERS \in Nat
      BY <1>3
    <2>4. QED
      BY <1>3, <2>1, <2>2, <2>3
  <1>6. /\ pair_index \in Slots /\ 0 .. pair_index - 1 \subseteq Slots
        /\ pair_index < PAIRS + MAX_FILTERS * MAX_FILTERS
    BY <1>3, <1>5 DEF Slots
  <1>7. ASSUME NEW k \in 0 .. pair_index - 1
        PROVE  Pair(k) = P[k] /\ P[k].i \in Nat /\ P[k].j \in Nat
    <2>1. behind = "pair_index" => k # PAIRS
      BY <1>1, <1>3 DEF PairsPassed
    <2>2. P[k] \in PairSet
      BY <1>1, <1>6 DEF ReportTypes
    <2>3. QED
      BY <2>1, <2>2 DEF Pair, PairSet
  <1>8. QED
    BY <1>1, <1>2, <1>3, <1>6, <1>7

(* i and j go through all pairs of filters in order.                       *)
LEMMA Advances ==
  ASSUME MAX_FILTERS <= PAIRS, Comparing
  PROVE  /\ stage' \in {"comparing", "reported"}
         /\ \A x, y \in DOMAIN s :
              /\ Before(x, y) \/ (x = i /\ y = j) => (stage' = "comparing" => Before(x, y)')
              /\ (stage' = "comparing" => Before(x, y)') => Before(x, y) \/ (x = i /\ y = j)
         /\ stage' = "comparing" => i' \in DOMAIN s /\ j' \in DOMAIN s
         /\ i' \in Nat /\ j' \in Nat
         /\ stage' = "comparing" => i' * MAX_FILTERS - MAX_FILTERS + j' >= i * MAX_FILTERS - MAX_FILTERS + j + 1
  <1>1. /\ Len(s) \in Nat /\ DOMAIN s = 1 .. Len(s) /\ i \in 1 .. Len(s) /\ j \in 1 .. Len(s)
        /\ stage = "comparing" /\ NextPair /\ MAX_FILTERS \in Nat /\ Len(s) <= MAX_FILTERS
    BY ComparingFacts DEF Comparing
  <1> DEFINE n == Len(s)
  <1> HIDE DEF n
  <1>a. n \in Nat /\ DOMAIN s = 1 .. n /\ i \in 1 .. n /\ j \in 1 .. n /\ n <= MAX_FILTERS
    BY <1>1 DEF n
  <1>2. CASE j < Len(s)
    <2>1. j' = j + 1 /\ i' = i /\ stage' = "comparing" /\ j < n
      BY <1>1, <1>2 DEF NextPair, n
    <2>2. \A x, y \in 1 .. n : Before(x, y)' <=> Before(x, y) \/ (x = i /\ y = j)
      BY <1>a, <2>1 DEF Before
    <2>3. i * MAX_FILTERS \in Nat
      BY <1>1, <1>a
    <2>4. QED
      BY <1>1, <1>a, <2>1, <2>2, <2>3
  <1>3. CASE ~(j < Len(s)) /\ i < Len(s)
    <2>0. i' = i + 1 /\ j' = 1 /\ stage' = "comparing" /\ ~(j < n) /\ i < n
      BY <1>1, <1>3 DEF NextPair, n
    <2>1. i' = i + 1 /\ j' = 1 /\ stage' = "comparing" /\ j = n /\ i < n
      BY <1>a, <2>0
    <2>2. \A x, y \in 1 .. n : Before(x, y)' <=> Before(x, y) \/ (x = i /\ y = j)
      BY <1>a, <2>1 DEF Before
    <2>3. /\ i * MAX_FILTERS \in Nat /\ i' * MAX_FILTERS = i * MAX_FILTERS + MAX_FILTERS
      BY <1>1, <1>a, <2>1
    <2>4. QED
      BY <1>1, <1>a, <2>1, <2>2, <2>3
  <1>4. CASE ~(j < Len(s)) /\ ~(i < Len(s))
    <2>0. i' = i /\ j' = j /\ stage' = "reported" /\ ~(j < n) /\ ~(i < n)
      BY <1>1, <1>4 DEF NextPair, n
    <2>1. i' = i /\ j' = j /\ stage' = "reported" /\ j = n /\ i = n
      BY <1>a, <2>0
    <2>2. \A x, y \in 1 .. n : Before(x, y) \/ (x = i /\ y = j)
      BY <1>a, <2>1 DEF Before
    <2>3. QED
      BY <1>a, <2>1, <2>2
  <1>5. QED
    BY <1>2, <1>3, <1>4

(* A pair that is not compared was compared the other way round.           *)
LEMMA AlreadyPassed ==
  ASSUME MAX_FILTERS <= PAIRS, Comparing, ~checkPair(i - 1, j - 1)
  PROVE  \E k \in 0 .. pair_index - 1 : P[k] = [i |-> j - 1, j |-> i - 1] /\ Before(j, i)
  <1>1. PICK k \in 0 .. pair_index - 1 :
          Pair(k) \in {[i |-> i - 1, j |-> j - 1], [i |-> j - 1, j |-> i - 1]}
    BY DEF checkPair
  <1>2. Pair(k) = P[k] /\ Before(P[k].i + 1, P[k].j + 1) /\ i \in Nat /\ j \in Nat
    BY ComparingFacts DEF PairsPassed
  <1>3. P[k] # [i |-> i - 1, j |-> j - 1]
    <2>1. SUFFICES ASSUME P[k] = [i |-> i - 1, j |-> j - 1] PROVE FALSE
      OBVIOUS
    <2>2. P[k].i + 1 = i /\ P[k].j + 1 = j
      BY <1>2, <2>1
    <2>3. QED
      BY <1>2, <2>2 DEF Before
  <1>4. P[k] = [i |-> j - 1, j |-> i - 1]
    BY <1>1, <1>2, <1>3
  <1>5. P[k].i + 1 = j /\ P[k].j + 1 = i
    BY <1>2, <1>4
  <1>6. QED
    BY <1>2, <1>4, <1>5

(* The step that compares, and the one that does not.                      *)
Compares ==
  /\ i # j /\ checkPair(i - 1, j - 1)
  /\ insertPair(i - 1, j - 1) /\ rows' = Append(rows, Row(s[i], s[j]))

PassesBy ==
  /\ i = j \/ ~checkPair(i - 1, j - 1)
  /\ UNCHANGED <<P, pair_index, rows>>

(* Every comparison is one of the two.                                     *)
LEMMA EitherWay == ASSUME Comparing PROVE Compares \/ PassesBy
  BY DEF Comparing, Compare, Compares, PassesBy

(* A comparison adds its row behind the others.                            *)
LEMMA RowAdded ==
  ASSUME MAX_FILTERS <= PAIRS, Comparing, Compares
  PROVE  /\ rows' \in Seq(Rows) /\ Len(rows') = Len(rows) + 1 /\ Len(rows) \in Nat
         /\ DOMAIN rows' = DOMAIN rows \cup {Len(rows) + 1} /\ DOMAIN rows = 1 .. Len(rows)
         /\ \A r \in DOMAIN rows : rows'[r] = rows[r]
         /\ rows'[Len(rows) + 1] = Row(s[i], s[j])
  <1>1. s[i] \in Filters /\ s[j] \in Filters /\ rows \in Seq(Rows)
    BY ComparingFacts DEF ReportTypes
  <1> PICK w : w = Row(s[i], s[j])
    OBVIOUS
  <1>2. w \in Rows /\ rows' = Append(rows, w)
    BY <1>1 DEF Rows, Compares
  <1>3. /\ rows' \in Seq(Rows) /\ Len(rows') = Len(rows) + 1 /\ Len(rows) \in Nat
        /\ DOMAIN rows = 1 .. Len(rows)
        /\ \A r \in 1 .. Len(rows) : rows'[r] = rows[r]
        /\ rows'[Len(rows) + 1] = w
    BY <1>1, <1>2, AppendProperties
  <1>4. DOMAIN rows' = DOMAIN rows \cup {Len(rows) + 1}
    BY <1>3
  <1>5. QED
    BY <1>3, <1>4

(* A pair that was looked at has a row in one order or the other.          *)
LEMMA ComparedStep ==
  ASSUME MAX_FILTERS <= PAIRS, Comparing
  PROVE  Compared' /\ RowsReal'
  <1>1. /\ s' = s /\ i \in DOMAIN s /\ j \in DOMAIN s /\ Compared /\ RowsReal /\ stage = "comparing"
    BY ComparingFacts DEF Comparing
  <1>2. \A r \in DOMAIN rows : r \in DOMAIN rows' /\ rows'[r] = rows[r]
    BY EitherWay, RowAdded DEF PassesBy
  <1>3. ASSUME NEW x \in DOMAIN s, NEW y \in DOMAIN s, x # y, Reported(x, y) \/ Reported(y, x)
        PROVE  Reported(x, y)'
    BY <1>1, <1>2, <1>3 DEF Reported
  <1>4. i # j => Reported(i, j) \/ Reported(j, i) \/ Compares
    BY <1>1, EitherWay, AlreadyPassed DEF PassesBy, Compared
  <1>5. ASSUME NEW x \in DOMAIN s, NEW y \in DOMAIN s, x # y, x = i, y = j
        PROVE  Reported(x, y)'
    <2>1. CASE Reported(x, y) \/ Reported(y, x)
      BY <1>3, <1>5, <2>1
    <2>2. CASE Compares
      BY <1>1, <1>5, <2>2, RowAdded DEF Reported
    <2>3. QED
      BY <1>4, <1>5, <2>1, <2>2
  <1>6. Compared'
    <2> SUFFICES ASSUME NEW x \in DOMAIN s, NEW y \in DOMAIN s, x # y,
                        stage' = "comparing" => Before(x, y)'
                 PROVE  Reported(x, y)'
      BY <1>1 DEF Compared
    <2>1. Before(x, y) \/ (x = i /\ y = j)
      BY Advances
    <2>2. CASE Before(x, y)
      BY <1>1, <1>3, <2>2 DEF Compared
    <2>3. CASE x = i /\ y = j
      BY <1>5, <2>3
    <2>4. QED
      BY <2>1, <2>2, <2>3
  <1>7. RowsReal'
    <2>1. CASE Compares
      BY <1>1, <2>1, RowAdded DEF RowsReal, Compares
    <2>2. CASE PassesBy
      BY <1>1, <2>2 DEF RowsReal, PassesBy
    <2>3. QED
      BY <2>1, <2>2, EitherWay
  <1>8. QED
    BY <1>6, <1>7

(* What insertPair does to P[], at its end or in the middle.               *)
LEMMA PairAdded ==
  ASSUME MAX_FILTERS <= PAIRS, Comparing, Compares
  PROVE  /\ P' \in [Slots -> PairSet] /\ pair_index' \in Nat
         /\ \/ /\ ~(behind = "pair_index" /\ pair_index = PAIRS)
               /\ pair_index' = pair_index + 1
               /\ P'[pair_index] = [i |-> i - 1, j |-> j - 1]
               /\ \A k \in 0 .. pair_index - 1 : P'[k] = P[k]
            \/ /\ behind = "pair_index" /\ pair_index = PAIRS
               /\ pair_index' = i /\ i - 1 \in 0 .. pair_index - 1
               /\ P'[i - 1] = [i |-> P[i - 1].i, j |-> j - 1]
               /\ \A k \in 0 .. i - 2 : P'[k] = P[k]
  <1>1. /\ P \in [Slots -> PairSet] /\ pair_index \in Slots /\ pair_index \in Nat
        /\ 0 .. pair_index - 1 \subseteq Slots
        /\ i \in 1 .. MAX_FILTERS /\ j \in 1 .. MAX_FILTERS /\ MAX_FILTERS \in Nat /\ PAIRS \in Nat
    BY ComparingFacts DEF ReportTypes
  <1>2. PICK a, b, n : a = i - 1 /\ b = j - 1 /\ n = pair_index
    OBVIOUS
  <1>3. a \in Nat /\ b \in Nat /\ a < PAIRS /\ n \in Nat /\ n \in Slots
    BY <1>1, <1>2
  <1>4. CASE ~(behind = "pair_index" /\ pair_index = PAIRS)
    <2>1. P' = [[P EXCEPT ![n] = [P[n] EXCEPT !.i = a]] EXCEPT ![n] = [[P[n] EXCEPT !.i = a] EXCEPT !.j = b]]
      BY <1>1, <1>2, <1>3, <1>4 DEF Compares, insertPair
    <2>2. [[P[n] EXCEPT !.i = a] EXCEPT !.j = b] = [i |-> a, j |-> b]
      <3>1. P[n] \in PairSet
        BY <1>1, <1>3
      <3>2. [P[n] EXCEPT !.i = a] = [i |-> a, j |-> P[n].j]
        BY <3>1 DEF PairSet
      <3>3. \A c : [[i |-> a, j |-> c] EXCEPT !.j = b] = [i |-> a, j |-> b]
        OBVIOUS
      <3>4. QED
        BY <3>2, <3>3
    <2>3. P' = [P EXCEPT ![n] = [i |-> a, j |-> b]]
      BY <1>1, <1>3, <2>1, <2>2
    <2>4. [i |-> a, j |-> b] \in PairSet
      BY <1>3 DEF PairSet
    <2>5. pair_index' = n + 1
      BY <1>2, <1>4 DEF Compares, insertPair
    <2>6. /\ P' \in [Slots -> PairSet] /\ P'[n] = [i |-> a, j |-> b]
          /\ \A k \in 0 .. n - 1 : P'[k] = P[k]
      BY <1>1, <1>2, <1>3, <2>3, <2>4
    <2>7. QED
      BY <1>2, <1>3, <1>4, <2>5, <2>6
  <1>5. CASE behind = "pair_index" /\ pair_index = PAIRS
    <2>1. a \in 0 .. n - 1 /\ a \in Slots /\ a # n
      BY <1>1, <1>2, <1>3, <1>5
    <2>2. P' = [[P EXCEPT ![n] = [P[n] EXCEPT !.i = a]] EXCEPT ![a] = [P[a] EXCEPT !.j = b]]
      BY <1>1, <1>2, <1>3, <1>5, <2>1 DEF Compares, insertPair
    <2>3. [P[a] EXCEPT !.j = b] = [i |-> P[a].i, j |-> b] /\ [i |-> P[a].i, j |-> b] \in PairSet
      BY <1>1, <1>3, <2>1 DEF PairSet
    <2>4. [P[n] EXCEPT !.i = a] \in PairSet
      BY <1>1, <1>3 DEF PairSet
    <2>5. /\ P' \in [Slots -> PairSet] /\ P'[a] = [i |-> P[a].i, j |-> b]
          /\ \A k \in 0 .. a - 1 : P'[k] = P[k]
      <3>1. PICK c \in PairSet : c = [P[n] EXCEPT !.i = a]
        BY <2>4
      <3>2. PICK d \in PairSet : d = [P[a] EXCEPT !.j = b] /\ d = [i |-> P[a].i, j |-> b]
        BY <2>3
      <3>3. P' = [[P EXCEPT ![n] = c] EXCEPT ![a] = d]
        BY <2>2, <3>1, <3>2
      <3>4. P' \in [Slots -> PairSet] /\ P'[a] = d
        BY <1>1, <1>3, <2>1, <3>3
      <3>5. \A k \in Slots : k # n /\ k # a => P'[k] = P[k]
        BY <1>1, <3>3
      <3>6. \A k \in 0 .. a - 1 : k \in Slots /\ k # n /\ k # a
        BY <1>1, <1>2, <1>3, <2>1
      <3>7. QED
        BY <3>2, <3>4, <3>5, <3>6
    <2>6. pair_index' = a + 1
      BY <1>2, <1>5 DEF Compares, insertPair
    <2>7. a + 1 = i /\ a - 1 = i - 2 /\ i \in Nat
      BY <1>1, <1>2
    <2>8. QED
      BY <1>2, <1>5, <2>1, <2>5, <2>6, <2>7
  <1>6. QED
    BY <1>4, <1>5

(* checkPair goes on reading only pairs that were looked at.               *)
LEMMA PairsPassedStep ==
  ASSUME MAX_FILTERS <= PAIRS, Comparing, stage' = "comparing"
  PROVE  PairsPassed'
  <1>1. /\ s' = s /\ behind' = behind /\ PairsPassed /\ i \in DOMAIN s /\ j \in DOMAIN s
        /\ i' \in DOMAIN s /\ j' \in DOMAIN s
        /\ DOMAIN s = 1 .. Len(s) /\ Len(s) \in Nat /\ Len(s) <= MAX_FILTERS
        /\ MAX_FILTERS \in Nat /\ PAIRS \in Nat /\ pair_index \in Nat
        /\ \A k \in 0 .. pair_index - 1 : P[k].i \in Nat /\ P[k].j \in Nat
    BY ComparingFacts, Advances
  <1>2. \A x, y \in DOMAIN s : Before(x, y) \/ (x = i /\ y = j) => Before(x, y)'
    BY Advances
  <1>3. pair_index' \in Nat /\ pair_index' <= pair_index + 1 /\ (behind = "pair_index" => pair_index' <= PAIRS)
    <2>1. CASE Compares
      <3>1. PAIRS \in Nat /\ i \in Nat /\ i <= PAIRS /\ (behind = "pair_index" => pair_index <= PAIRS)
        BY <1>1 DEF PairsPassed
      <3>2. QED
        BY <1>1, <2>1, <3>1, PairAdded
    <2>2. CASE PassesBy
      BY <1>1, <2>2 DEF PassesBy, PairsPassed
    <2>3. QED
      BY <2>1, <2>2, EitherWay
  <1>4. pair_index' <= (i' - 1) * MAX_FILTERS + j' - 1
    <2>1. i' * MAX_FILTERS - MAX_FILTERS + j' >= i * MAX_FILTERS - MAX_FILTERS + j + 1
      BY Advances
    <2>2. pair_index <= (i - 1) * MAX_FILTERS + j - 1
      BY <1>1 DEF PairsPassed
    <2>3. /\ i \in Nat /\ j \in Nat /\ i' \in Nat /\ j' \in Nat
          /\ i * MAX_FILTERS \in Nat /\ i' * MAX_FILTERS \in Nat
          /\ (i - 1) * MAX_FILTERS = i * MAX_FILTERS - MAX_FILTERS
          /\ (i' - 1) * MAX_FILTERS = i' * MAX_FILTERS - MAX_FILTERS
      BY <1>1, SMTT(30)
    <2> DEFINE I0 == i * MAX_FILTERS
               I1 == i' * MAX_FILTERS
               L0 == (i - 1) * MAX_FILTERS
               L1 == (i' - 1) * MAX_FILTERS
    <2>4. /\ I1 - MAX_FILTERS + j' >= I0 - MAX_FILTERS + j + 1 /\ pair_index <= L0 + j - 1
          /\ I0 \in Nat /\ I1 \in Nat /\ L0 = I0 - MAX_FILTERS /\ L1 = I1 - MAX_FILTERS
          /\ j \in Nat /\ j' \in Nat /\ MAX_FILTERS \in Nat
          /\ pair_index \in Nat /\ pair_index' \in Nat /\ pair_index' <= pair_index + 1
      BY <1>1, <1>3, <2>1, <2>2, <2>3
    <2> HIDE DEF I0, I1, L0, L1
    <2>a. \A m, c, d, e, f, g, p, q \in Int :
            c - m + f >= d - m + g + 1 /\ p <= d - m + g - 1 /\ q <= p + 1 => q <= c - m + f - 1
      OBVIOUS
    <2>b. pair_index <= I0 - MAX_FILTERS + j - 1
      BY <2>4
    <2>c. pair_index' <= I1 - MAX_FILTERS + j' - 1
      <3>1. MAX_FILTERS \in Int /\ I1 \in Int /\ I0 \in Int /\ j' \in Int /\ j \in Int
        BY <2>4
      <3>2. pair_index \in Int /\ pair_index' \in Int
        BY <2>4
      <3>3. I1 - MAX_FILTERS + j' >= I0 - MAX_FILTERS + j + 1 /\ pair_index' <= pair_index + 1
        BY <2>4
      <3>4. QED
        BY <2>a, <2>b, <3>1, <3>2, <3>3
    <2>5. pair_index' <= L1 + j' - 1
      BY <2>4, <2>c
    <2>6. QED
      BY <2>5 DEF L1
  <1>5. ASSUME NEW k \in 0 .. pair_index' - 1
        PROVE  \E x, y \in DOMAIN s : /\ P'[k].i + 1 = x /\ P'[k].j + 1 = y
                                      /\ Before(x, y) \/ (x = i /\ y = j)
    <2>1. ASSUME k \in 0 .. pair_index - 1, P'[k] = P[k]
          PROVE  \E x, y \in DOMAIN s : /\ P'[k].i + 1 = x /\ P'[k].j + 1 = y
                                        /\ Before(x, y) \/ (x = i /\ y = j)
      BY <1>1, <2>1 DEF PairsPassed
    <2>2. CASE Compares /\ ~(behind = "pair_index" /\ pair_index = PAIRS)
      <3>1. /\ pair_index' = pair_index + 1
            /\ P'[pair_index] = [i |-> i - 1, j |-> j - 1]
            /\ \A c \in 0 .. pair_index - 1 : P'[c] = P[c]
        BY <2>2, PairAdded
      <3>2. CASE k = pair_index
        <4>1. P'[k].i + 1 = i /\ P'[k].j + 1 = j
          BY <1>1, <3>1, <3>2
        <4>2. QED
          BY <1>1, <4>1
      <3>3. CASE k # pair_index
        <4>1. k \in 0 .. pair_index - 1
          BY <1>1, <3>1, <3>3
        <4>2. QED
          BY <2>1, <3>1, <4>1
      <3>4. QED
        BY <3>2, <3>3
    <2>3. CASE Compares /\ behind = "pair_index" /\ pair_index = PAIRS
      <3>1. /\ pair_index' = i /\ i - 1 \in 0 .. pair_index - 1
            /\ P'[i - 1] = [i |-> P[i - 1].i, j |-> j - 1]
            /\ \A c \in 0 .. i - 2 : P'[c] = P[c]
        BY <2>3, PairAdded
      <3>2. CASE k = i - 1
        <4>1. k \in 0 .. pair_index - 1 /\ P'[k].i = P[k].i /\ P'[k].j = j - 1
          BY <3>1, <3>2
        <4>2. /\ Before(P[k].i + 1, P[k].j + 1) /\ P[k].i + 1 \in DOMAIN s /\ P[k].j + 1 \in DOMAIN s
          BY <1>1, <4>1 DEF PairsPassed
        <4>3. P'[k].i + 1 = P[k].i + 1 /\ P'[k].j + 1 = j
          BY <1>1, <4>1
        <4>4. Before(P[k].i + 1, j) \/ P[k].i + 1 = i
          BY <4>2 DEF Before
        <4>5. QED
          BY <1>1, <4>2, <4>3, <4>4
      <3>3. CASE k # i - 1
        <4>1. k \in 0 .. i - 2 /\ k \in 0 .. pair_index - 1
          BY <1>1, <3>1, <3>3
        <4>2. QED
          BY <2>1, <3>1, <4>1
      <3>4. QED
        BY <3>2, <3>3
    <2>4. CASE PassesBy
      BY <2>1, <2>4 DEF PassesBy
    <2>5. QED
      BY <2>2, <2>3, <2>4, EitherWay
  <1>6. ASSUME NEW k \in 0 .. pair_index' - 1
        PROVE  /\ Before(P[k].i + 1, P[k].j + 1)'
               /\ P'[k].i + 1 \in DOMAIN s' /\ P'[k].j + 1 \in DOMAIN s'
    <2>1. PICK x \in DOMAIN s, y \in DOMAIN s :
            /\ P'[k].i + 1 = x /\ P'[k].j + 1 = y
            /\ Before(x, y) \/ (x = i /\ y = j)
      BY <1>5
    <2>2. Before(x, y)'
      BY <1>2, <2>1
    <2>3. x < i' \/ (x = i' /\ y < j')
      BY <2>2 DEF Before
    <2>4. P'[k].i + 1 < i' \/ (P'[k].i + 1 = i' /\ P'[k].j + 1 < j')
      <3>1. P'[k].i + 1 = x /\ P'[k].j + 1 = y
        BY <2>1
      <3>2. QED
        BY <3>1, <2>3, Zenon
    <2>5. Before(P[k].i + 1, P[k].j + 1)'
      BY <2>4, Zenon DEF Before
    <2>6. P'[k].i + 1 \in DOMAIN s' /\ P'[k].j + 1 \in DOMAIN s'
      BY <1>1, <2>1
    <2>7. QED
      BY <2>5, <2>6
  <1>7. s' # << >> => i' \in DOMAIN s' /\ j' \in DOMAIN s'
    BY <1>1
  <1>8. QED
    BY <1>1, <1>3, <1>4, <1>6, <1>7 DEF PairsPassed

(* As long as all pairs fit into P[], a pair is compared when its first    *)
(* filter has the lower number, and passed by the other way round.         *)
LEMMA PairIsNew ==
  ASSUME MAX_FILTERS <= PAIRS, Comparing, Fits, i < j
  PROVE  Compares /\ pair_index < PAIRS /\ pair_index' = pair_index + 1
  <1>1. /\ i \in DOMAIN s /\ j \in DOMAIN s /\ i \in Nat /\ j \in Nat /\ DOMAIN s = 1 .. Len(s)
        /\ Len(s) \in Nat /\ pair_index \in Nat /\ PAIRS \in Nat /\ PairsExact
    BY ComparingFacts
  <1>2. ~Before(j, i)
    BY <1>1 DEF Before
  <1>3. checkPair(i - 1, j - 1)
    BY <1>2, AlreadyPassed
  <1>4. Compares
    BY <1>1, <1>3, EitherWay DEF PassesBy
  <1>5. pair_index < PAIRS
    <2> DEFINE n == Len(s)
               before == (i - 1) * (2 * n - i)
               all == n * (n - 1)
    <2>1. n \in Nat /\ i \in 1 .. n /\ j \in 1 .. n
      BY <1>1
    <2> HIDE DEF n
    <2>2. before + 2 * (j - i - 1) < all
      BY <2>1, RowsBefore
    <2>3. 2 * pair_index = before + 2 * (j - i - 1)
      BY <1>1 DEF PairsExact, n
    <2>4. all <= 2 * PAIRS
      BY DEF Fits, n
    <2>5. before \in Int /\ all \in Int
      BY <2>1
    <2> HIDE DEF before, all
    <2>6. QED
      BY <1>1, <2>2, <2>3, <2>4, <2>5
  <1>6. QED
    BY <1>1, <1>4, <1>5, PairAdded

(* The other way round the pair is already in P[].                         *)
LEMMA PairIsOld ==
  ASSUME MAX_FILTERS <= PAIRS, Comparing, Fits, ~(i < j)
  PROVE  PassesBy
  <1>1. /\ i \in DOMAIN s /\ j \in DOMAIN s /\ i \in Nat /\ j \in Nat /\ PairsExact
        /\ \A k \in 0 .. pair_index - 1 : Pair(k) = P[k]
    BY ComparingFacts
  <1>2. CASE i = j
    BY <1>2, EitherWay DEF Compares
  <1>3. CASE i # j
    <2>1. j < i /\ Before(j, i)
      BY <1>1, <1>3 DEF Before
    <2>2. PICK k \in 0 .. pair_index - 1 : P[k] = [i |-> j - 1, j |-> i - 1]
      BY <1>1, <2>1 DEF PairsExact
    <2>3. ~checkPair(i - 1, j - 1)
      BY <1>1, <2>2 DEF checkPair
    <2>4. QED
      BY <2>3, EitherWay DEF Compares
  <1>4. QED
    BY <1>2, <1>3

(* pair_index counts the pairs whose lower number came first.              *)
LEMMA CountStep ==
  ASSUME MAX_FILTERS <= PAIRS, Comparing, Fits, stage' = "comparing"
  PROVE  2 * pair_index' = (i' - 1) * (2 * Len(s') - i') + (IF j' > i' THEN 2 * (j' - i' - 1) ELSE 0)
  <1>1. /\ i \in DOMAIN s /\ j \in DOMAIN s /\ DOMAIN s = 1 .. Len(s) /\ s' = s
        /\ Len(s) \in Nat /\ pair_index \in Nat /\ PairsExact /\ NextPair
    BY ComparingFacts
  <1> DEFINE n == Len(s)
             F(a) == (a - 1) * (2 * n - a)
  <1>2. n \in Nat /\ i \in 1 .. n /\ j \in 1 .. n /\ i \in Nat /\ j \in Nat
    BY <1>1
  <1>3. 2 * pair_index = F(i) + (IF j > i THEN 2 * (j - i - 1) ELSE 0)
    BY <1>1 DEF PairsExact
  <1>4. F(i) \in Int /\ F(i + 1) = F(i) + 2 * (n - i)
    <2> HIDE DEF n
    <2>1. F(i) \in Int
      BY <1>2
    <2>2. i * (2 * n - (i + 1)) = (i - 1) * (2 * n - i) + 2 * (n - i)
      BY <1>2, RowsBefore
    <2>3. (i + 1) - 1 = i
      BY <1>2
    <2>4. QED
      BY <2>1, <2>2, <2>3
  <1>5. \/ j < n /\ i' = i /\ j' = j + 1
        \/ j = n /\ i < n /\ i' = i + 1 /\ j' = 1
    BY <1>1, <1>2 DEF NextPair
  <1>6. \/ i < j /\ pair_index' = pair_index + 1
        \/ ~(i < j) /\ pair_index' = pair_index
    BY PairIsNew, PairIsOld DEF PassesBy
  <1> HIDE DEF n, F
  <1>7. 2 * pair_index' = F(i') + (IF j' > i' THEN 2 * (j' - i' - 1) ELSE 0)
    <2>1. PICK f \in Int : f = F(i)
      BY <1>4
    <2>2. 2 * pair_index = f + (IF j > i THEN 2 * (j - i - 1) ELSE 0)
      BY <1>3, <2>1
    <2>a. PICK p, q, a, b \in Nat : /\ p = pair_index /\ q = pair_index' /\ a = i /\ b = j
                                    /\ (a < b /\ q = p + 1) \/ (~(a < b) /\ q = p)
      BY <1>1, <1>2, <1>6, SMTT(30)
    <2>b. (b > a => 2 * p = f + 2 * (b - a - 1)) /\ (~(b > a) => 2 * p = f)
      BY <2>1, <2>2, <2>a
    <2>c. (a < b /\ q = p + 1) \/ (~(a < b) /\ q = p)
      BY <2>a
    <2>3. CASE i' = i /\ j' = j + 1
      <3>1. F(i') = f /\ i' = a /\ j' = b + 1
        BY <2>1, <2>3, <2>a
      <3>2. /\ b + 1 > a => 2 * q = f + 2 * (b + 1 - a - 1)
            /\ ~(b + 1 > a) => 2 * q = f
        BY <2>1, <2>b, <2>c
      <3>3. 2 * q = f + (IF b + 1 > a THEN 2 * (b + 1 - a - 1) ELSE 0)
        BY <2>1, <3>2
      <3>4. i' = a /\ j' = b + 1
        BY <3>1
      <3>5. (IF j' > i' THEN 2 * (j' - i' - 1) ELSE 0) = (IF b + 1 > a THEN 2 * (b + 1 - a - 1) ELSE 0)
        BY <3>4
      <3>6. pair_index' = q /\ F(i') = f
        BY <2>a, <3>1
      <3>7. QED
        BY <3>3, <3>5, <3>6, Zenon
    <2>4. CASE j = n /\ i < n /\ i' = i + 1 /\ j' = 1
      <3>1. F(i') = f + 2 * (n - i)
        BY <1>4, <2>1, <2>4
      <3>2. n = b /\ a < b
        BY <2>4, <2>a
      <3>a. 2 * q = f + 2 * (b - a)
        BY <2>1, <2>b, <2>c, <3>2
      <3>3. ~(j' > i')
        BY <1>2, <2>4
      <3>4. 2 * q = f + 2 * (b - a) + 0
        BY <2>1, <3>a
      <3>5. (IF j' > i' THEN 2 * (j' - i' - 1) ELSE 0) = 0
        BY <3>3
      <3>6. n - i = b - a
        BY <2>a, <3>2
      <3>7. QED
        BY <2>a, <3>1, <3>4, <3>5, <3>6, Zenon
    <2>5. QED
      BY <1>5, <2>3, <2>4
  <1>8. QED
    BY <1>1, <1>7 DEF n, F

(* P[] and the rows go on together.                                        *)
LEMMA EntriesStep ==
  ASSUME MAX_FILTERS <= PAIRS, Comparing, Fits
  PROVE  /\ Len(rows') = pair_index'
         /\ \A k \in 0 .. pair_index' - 1 :
              P'[k].i < P'[k].j /\ rows'[k + 1] = Row(s[P'[k].i + 1], s[P'[k].j + 1])
         /\ \A k \in 0 .. pair_index - 1 : k \in 0 .. pair_index' - 1 /\ P'[k] = P[k]
         /\ i < j => \E k \in 0 .. pair_index' - 1 : P'[k] = [i |-> i - 1, j |-> j - 1]
  <1>1. /\ i \in Nat /\ j \in Nat /\ PairsExact /\ pair_index \in Nat /\ PAIRS \in Nat
    BY ComparingFacts
  <1>2. /\ Len(rows) = pair_index
        /\ \A k \in 0 .. pair_index - 1 :
             P[k].i < P[k].j /\ rows[k + 1] = Row(s[P[k].i + 1], s[P[k].j + 1])
    BY <1>1 DEF PairsExact
  <1>3. CASE i < j
    <2>1. Compares /\ pair_index < PAIRS /\ pair_index' = pair_index + 1
      BY <1>3, PairIsNew
    <2>2. /\ P'[pair_index] = [i |-> i - 1, j |-> j - 1]
          /\ \A k \in 0 .. pair_index - 1 : P'[k] = P[k]
      BY <1>1, <2>1, PairAdded
    <2>3. /\ Len(rows') = Len(rows) + 1 /\ DOMAIN rows = 1 .. Len(rows)
          /\ \A r \in DOMAIN rows : rows'[r] = rows[r]
          /\ rows'[Len(rows) + 1] = Row(s[i], s[j])
      BY <2>1, RowAdded
    <2>4. ASSUME NEW k \in 0 .. pair_index' - 1
          PROVE  P'[k].i < P'[k].j /\ rows'[k + 1] = Row(s[P'[k].i + 1], s[P'[k].j + 1])
      <3>1. CASE k = pair_index
        <4>1. P'[k].i = i - 1 /\ P'[k].j = j - 1 /\ i - 1 < j - 1 /\ (i - 1) + 1 = i /\ (j - 1) + 1 = j
          BY <1>1, <1>3, <2>2, <3>1
        <4>2. rows'[k + 1] = Row(s[i], s[j])
          BY <1>2, <2>3, <3>1
        <4>3. QED
          BY <4>1, <4>2
      <3>2. CASE k # pair_index
        <4>1. k \in 0 .. pair_index - 1 /\ k + 1 \in 1 .. Len(rows)
          BY <1>1, <1>2, <2>1, <3>2
        <4>2. P'[k] = P[k] /\ rows'[k + 1] = rows[k + 1]
          BY <2>2, <2>3, <4>1
        <4>3. QED
          BY <1>2, <4>1, <4>2
      <3>3. QED
        BY <3>1, <3>2
    <2>5. QED
      BY <1>1, <1>2, <2>1, <2>2, <2>3, <2>4
  <1>4. CASE ~(i < j)
    BY <1>2, <1>4, PairIsOld DEF PassesBy
  <1>5. QED
    BY <1>3, <1>4

(* P[] holds the pairs of the rows after every comparison.                 *)
LEMMA PairsExactStep ==
  ASSUME MAX_FILTERS <= PAIRS, Comparing, Fits, stage' = "comparing"
  PROVE  PairsExact'
  <1>1. /\ s' = s /\ PairsExact
    BY ComparingFacts
  <1>2. ASSUME NEW x \in DOMAIN s, NEW y \in DOMAIN s, x < y, Before(x, y)'
        PROVE  \E k \in 0 .. pair_index' - 1 : P'[k] = [i |-> x - 1, j |-> y - 1]
    <2>1. Before(x, y) \/ (x = i /\ y = j)
      BY <1>2, Advances
    <2>2. CASE Before(x, y)
      <3>1. PICK k \in 0 .. pair_index - 1 : P[k] = [i |-> x - 1, j |-> y - 1]
        BY <1>1, <1>2, <2>2 DEF PairsExact
      <3>2. QED
        BY <3>1, EntriesStep
    <2>3. CASE x = i /\ y = j
      BY <1>2, <2>3, EntriesStep
    <2>4. QED
      BY <2>1, <2>2, <2>3
  <1>3. \A x, y \in DOMAIN s' :
          x < y /\ Before(x, y)' => \E k \in 0 .. pair_index' - 1 : P'[k] = [i |-> x - 1, j |-> y - 1]
    BY <1>1, <1>2
  <1>4. \A k \in 0 .. pair_index' - 1 :
          P'[k].i < P'[k].j /\ rows'[k + 1] = Row(s[P'[k].i + 1], s[P'[k].j + 1])
    BY EntriesStep
  <1>5. QED
    BY <1>1, <1>3, <1>4, CountStep, EntriesStep DEF PairsExact

(* No two rows are about the same two filters.                             *)
LEMMA OnceStep ==
  ASSUME MAX_FILTERS <= PAIRS, Comparing, Fits
  PROVE  Once'
  <1>1. /\ s' = s /\ PairsExact /\ Once /\ OwnFilters /\ i \in DOMAIN s /\ j \in DOMAIN s
        /\ DOMAIN s = 1 .. Len(s) /\ Len(s) \in Nat /\ i \in Nat /\ j \in Nat /\ pair_index \in Nat
        /\ \A k \in 0 .. pair_index - 1 : Pair(k) = P[k] /\ P[k].i \in Nat /\ P[k].j \in Nat
        /\ PairsPassed /\ ReportTypes
    BY ComparingFacts
  <1>2. CASE PassesBy
    BY <1>1, <1>2 DEF PassesBy, Once
  <1>3. CASE Compares
    <2>1. /\ DOMAIN rows' = DOMAIN rows \cup {Len(rows) + 1} /\ DOMAIN rows = 1 .. Len(rows)
          /\ \A r \in DOMAIN rows : rows'[r] = rows[r]
          /\ rows'[Len(rows) + 1] = Row(s[i], s[j]) /\ Len(rows) \in Nat
      BY <1>3, RowAdded
    <2>2. ASSUME NEW q \in DOMAIN rows PROVE rows[q] \notin {Row(s[i], s[j]), Row(s[j], s[i])}
      <3> PICK k : k = q - 1
        OBVIOUS
      <3>a. Len(rows) = pair_index
        BY <1>1 DEF PairsExact
      <3>1. k \in 0 .. pair_index - 1 /\ k + 1 = q
        BY <1>1, <2>1, <3>a
      <3>2. PICK x, y : x = P[k].i + 1 /\ y = P[k].j + 1
        OBVIOUS
      <3>3. x \in DOMAIN s /\ y \in DOMAIN s /\ rows[q] = Row(s[x], s[y])
        BY <1>1, <3>1, <3>2 DEF PairsExact, PairsPassed
      <3>4. P[k] = [i |-> x - 1, j |-> y - 1]
        <4>1. P[k] \in PairSet
          BY <1>1, <3>1, ComparingFacts DEF ReportTypes
        <4>2. P[k] = [i |-> P[k].i, j |-> P[k].j]
          BY <4>1 DEF PairSet
        <4>3. P[k].i = x - 1 /\ P[k].j = y - 1
          <5>1. P[k].i \in Nat /\ P[k].j \in Nat
            BY <1>1, <3>1
          <5>2. QED
            BY <3>2, <5>1
        <4>4. QED
          BY <4>2, <4>3
      <3>5. P[k] \notin {[i |-> i - 1, j |-> j - 1], [i |-> j - 1, j |-> i - 1]}
        BY <1>1, <1>3, <3>1 DEF Compares, checkPair
      <3>6. ~(x = i /\ y = j) /\ ~(x = j /\ y = i)
        BY <3>4, <3>5
      <3>7. QED
        BY <1>1, <3>3, <3>6, RowTells
    <2>3. ASSUME NEW r \in DOMAIN rows', NEW q \in DOMAIN rows', NEW x \in DOMAIN s, NEW y \in DOMAIN s,
                 rows'[r] \in {Row(s[x], s[y]), Row(s[y], s[x])},
                 rows'[q] \in {Row(s[x], s[y]), Row(s[y], s[x])}
          PROVE  r = q
      <3>1. CASE r \in DOMAIN rows /\ q \in DOMAIN rows
        BY <1>1, <2>1, <2>3, <3>1 DEF Once
      <3>2. ASSUME Row(s[i], s[j]) \in {Row(s[x], s[y]), Row(s[y], s[x])}
            PROVE  {Row(s[x], s[y]), Row(s[y], s[x])} = {Row(s[i], s[j]), Row(s[j], s[i])}
        <4>1. (i = x /\ j = y) \/ (i = y /\ j = x)
          BY <1>1, <3>2, RowTells
        <4>2. QED
          BY <4>1
      <3>3. CASE r \notin DOMAIN rows /\ q \in DOMAIN rows
        <4>1. rows'[r] = Row(s[i], s[j]) /\ rows'[q] = rows[q]
          BY <2>1, <3>3
        <4>2. QED
          BY <2>2, <2>3, <3>2, <3>3, <4>1
      <3>4. CASE r \in DOMAIN rows /\ q \notin DOMAIN rows
        <4>1. rows'[q] = Row(s[i], s[j]) /\ rows'[r] = rows[r]
          BY <2>1, <3>4
        <4>2. QED
          BY <2>2, <2>3, <3>2, <3>4, <4>1
      <3>5. CASE r \notin DOMAIN rows /\ q \notin DOMAIN rows
        BY <2>1, <3>5
      <3>6. QED
        BY <3>1, <3>3, <3>4, <3>5
    <2>4. QED
      BY <1>1, <2>3 DEF Once
  <1>4. QED
    BY <1>2, <1>3, EitherWay

(* A comparison keeps the types.                                           *)
LEMMA ReportTypesStep ==
  ASSUME MAX_FILTERS <= PAIRS, Comparing
  PROVE  ReportTypes'
  <1>1. ReportTypes /\ behind' = behind /\ i' \in Nat /\ j' \in Nat
    BY ComparingFacts, Advances
  <1>2. CASE Compares
    BY <1>1, <1>2, PairAdded, RowAdded DEF ReportTypes
  <1>3. CASE PassesBy
    BY <1>1, <1>3 DEF ReportTypes, PassesBy
  <1>4. QED
    BY <1>2, <1>3, EitherWay

(* A comparison keeps the invariant.                                       *)
LEMMA ReportCompare ==
  ASSUME MAX_FILTERS <= PAIRS, FilterInv, ReportInv, Compare
  PROVE  ReportInv'
  <1>1. Comparing
    BY DEF Comparing, Compare
  <1>2. ReportTypes'
    BY <1>1, ReportTypesStep
  <1>3. stage' \in {"comparing", "reported"}
    BY <1>1, Advances
  <1>4. Compared' /\ RowsReal'
    BY <1>1, ComparedStep
  <1>5. Fits' = Fits
    BY <1>1, ComparingFacts DEF Fits
  <1>6. Fits => Once' /\ (stage' = "comparing" => PairsExact')
    BY <1>1, OnceStep, PairsExactStep
  <1>7. stage' = "comparing" => PairsPassed'
    BY <1>1, PairsPassedStep
  <1>8. QED
    BY <1>2, <1>3, <1>4, <1>5, <1>6, <1>7 DEF ReportInv

(* Nothing is compared yet when the loops begin.                           *)
LEMMA ReportEndOfFile == ASSUME FilterInv, ReportInv, EndOfFile PROVE ReportInv'
  <1>1. /\ s \in Seq(Filters) /\ s' = s /\ rows = << >> /\ rows' = << >> /\ pair_index = 0
        /\ pair_index' = 0 /\ P' = P /\ behind' = behind /\ i' = 1 /\ j' = 1
        /\ stage' = "comparing" /\ ReportTypes
    BY DEF FilterInv, FilterTypes, ReportInv, EndOfFile, build
  <1>2. DOMAIN s = 1 .. Len(s) /\ Len(s) \in Nat /\ (s # << >> => Len(s) > 0)
    BY <1>1, EmptySeq
  <1>3. ReportTypes'
    BY <1>1 DEF ReportTypes
  <1>4. ASSUME NEW x \in DOMAIN s, NEW y \in DOMAIN s PROVE ~Before(x, y)'
    BY <1>1, <1>2 DEF Before
  <1>5. Compared'
    BY <1>1, <1>4 DEF Compared
  <1>6. RowsReal' /\ Once'
    BY <1>1 DEF RowsReal, Once
  <1>7. PairsPassed'
    <2>1. s' # << >> => i' \in DOMAIN s' /\ j' \in DOMAIN s'
      BY <1>1, <1>2
    <2>2. pair_index' <= PAIRS /\ pair_index' <= (i' - 1) * MAX_FILTERS + j' - 1
      BY <1>1, FilterAssumption
    <2>3. 0 .. pair_index' - 1 = {}
      BY <1>1
    <2>4. QED
      BY <2>1, <2>2, <2>3 DEF PairsPassed
  <1>8. PairsExact'
    <2>1. 2 * pair_index' = (i' - 1) * (2 * Len(s') - i') + (IF j' > i' THEN 2 * (j' - i' - 1) ELSE 0)
      BY <1>1, <1>2
    <2>2. 0 .. pair_index' - 1 = {}
      BY <1>1
    <2>3. Len(rows') = pair_index'
      BY <1>1
    <2>4. QED
      BY <1>1, <1>4, <2>1, <2>2, <2>3 DEF PairsExact
  <1>9. QED
    BY <1>1, <1>3, <1>5, <1>6, <1>7, <1>8 DEF ReportInv

(* Every two filters get their row, once while P[] has room.               *)
LEMMA ReportInvariance == ASSUME MAX_FILTERS <= PAIRS PROVE Spec => []ReportInv
  <1>1. Init => ReportInv
    <2> SUFFICES ASSUME Init PROVE ReportInv
      OBVIOUS
    <2>1. stage = "counting" /\ rows = << >> /\ pair_index = 0 /\ i = 1 /\ j = 1
          /\ behind \in {"pair_index", "other"} /\ P = [k \in Slots |-> [i |-> 0, j |-> 0]]
      BY DEF Init
    <2>2. P \in [Slots -> PairSet]
      BY <2>1 DEF PairSet
    <2>3. QED
      BY <2>1, <2>2 DEF ReportInv, ReportTypes
  <1>2. ASSUME FilterInv, ReportInv, [Next]_vars PROVE ReportInv'
    <2>0. ReportTypes
      BY <1>2 DEF ReportInv
    <2>1. CASE ReadOutputFile
      BY <2>0, <2>1 DEF ReadOutputFile, ReportInv, ReportTypes, build, pairs
    <2>2. CASE NothingToBeDone
      BY <2>0, <2>2 DEF NothingToBeDone, ReportInv, ReportTypes, build, pairs
    <2>3. CASE Initialize
      BY <2>0, <2>3 DEF Initialize, ReportInv, ReportTypes, build
    <2>4. CASE Record
      BY <1>2, <2>0, <2>4 DEF Record, ReportInv, ReportTypes, build, pairs
    <2>5. CASE ReadLine
      <3>1. stage = "reading" /\ stage' \in {"reading", "overrun"} /\ UNCHANGED <<build, pairs>>
        BY <2>5 DEF ReadLine
      <3>2. QED
        BY <1>2, <2>0, <3>1 DEF ReportInv, ReportTypes, build, pairs
    <2>6. CASE EndOfFile
      BY <1>2, <2>6, ReportEndOfFile
    <2>7. CASE Compare
      BY <1>2, <2>7, ReportCompare
    <2>8. CASE NothingToCompare
      <3>1. /\ s = << >> /\ s' = << >> /\ stage = "comparing" /\ stage' = "reported"
            /\ rows' = rows /\ i' = i /\ j' = j /\ P' = P /\ pair_index' = pair_index /\ behind' = behind
        BY <2>8 DEF NothingToCompare, build, pairs
      <3>2. ReportTypes'
        BY <2>0, <3>1 DEF ReportTypes
      <3>3. Compared' /\ RowsReal' /\ Once'
        BY <1>2, <3>1 DEF ReportInv, Compared, RowsReal, Once
      <3>4. QED
        BY <3>1, <3>2, <3>3 DEF ReportInv
    <2>9. CASE NextRound
      BY <2>0, <2>9 DEF NextRound, ReportInv, ReportTypes, build, pairs
    <2>10. CASE UNCHANGED vars
      <3>1. /\ s' = s /\ stage' = stage /\ rows' = rows /\ i' = i /\ j' = j /\ P' = P
            /\ pair_index' = pair_index /\ behind' = behind
        BY <2>10 DEF vars, build, pairs
      <3>2. ReportTypes'
        BY <2>0, <3>1 DEF ReportTypes
      <3>3. (Compared => Compared') /\ (RowsReal => RowsReal') /\ (Fits' = Fits) /\ (Once => Once')
        <4>1. \A x, y : (Before(x, y)' <=> Before(x, y)) /\ (Reported(x, y)' <=> Reported(x, y))
          BY <3>1 DEF Before, Reported
        <4>2. QED
          BY <3>1, <4>1 DEF Compared, RowsReal, Fits, Once
      <3>4. (PairsPassed => PairsPassed') /\ (PairsExact => PairsExact')
        BY <3>1 DEF PairsPassed, PairsExact, Before
      <3>5. QED
        BY <1>2, <3>1, <3>2, <3>3, <3>4 DEF ReportInv
    <2>11. QED
      BY <1>2, <2>1, <2>2, <2>3, <2>4, <2>5, <2>6, <2>7, <2>8, <2>9, <2>10 DEF Next
  <1>3. QED
    BY <1>1, <1>2, FilterInvariance, PTL DEF Spec

(* The bits of a thread's samples are finitely many.                       *)
LEMMA FiniteImage ==
  ASSUME samples \in Seq(Samples), NEW t
  PROVE  IsFiniteSet(Image(t))
  <1> DEFINE f == [n \in ThisRound(t) |-> Bin(samples[n].line)]
  <1>1. IsFiniteSet(DOMAIN samples)
    BY FS_Interval
  <1>2. ThisRound(t) \in SUBSET DOMAIN samples
    BY OfDomain
  <1>3. IsFiniteSet(ThisRound(t))
    BY <1>1, <1>2, FS_Subset
  <1>4. f \in Surjection(ThisRound(t), Image(t))
    BY DEF Surjection, Image
  <1>5. QED
    BY <1>3, <1>4, FS_Surjection

(* A row is about the two filters whose threads it names.                  *)
LEMMA RowOfBoth ==
  ASSUME OwnFilters, RowsReal, NEW k \in DOMAIN s, NEW l \in DOMAIN s, NEW r \in DOMAIN rows
  PROVE  Range(rows[r].tids) = {s[k].tid, s[l].tid}
           <=> rows[r] \in {Row(s[k], s[l]), Row(s[l], s[k])} /\ k # l
  <1>1. PICK x \in DOMAIN s, y \in DOMAIN s : x # y /\ rows[r] = Row(s[x], s[y])
    BY DEF RowsReal
  <1>2. \A f, g : Range(Row(f, g).tids) = {f.tid, g.tid}
    <2>1. \A a, b : Range(<<a, b>>) = {a, b}
      <3> TAKE a, b
      <3>1. DOMAIN <<a, b>> = {1, 2} /\ <<a, b>>[1] = a /\ <<a, b>>[2] = b
        OBVIOUS
      <3>2. QED
        BY <3>1 DEF Range
    <2>2. \A f, g : Row(f, g).tids = <<f.tid, g.tid>>
      BY DEF Row
    <2>3. ASSUME NEW f, NEW g PROVE Range(Row(f, g).tids) = {f.tid, g.tid}
      <3>1. Row(f, g).tids = <<f.tid, g.tid>>
        BY <2>2
      <3>2. Range(<<f.tid, g.tid>>) = {f.tid, g.tid}
        BY <2>1
      <3>3. QED
        BY <3>1, <3>2, Zenon
    <2>4. QED
      BY <2>3
  <1>3. s[x].tid # s[y].tid
    BY <1>1 DEF OwnFilters
  <1>4. ASSUME {s[x].tid, s[y].tid} = {s[k].tid, s[l].tid}
        PROVE  (x = k /\ y = l) \/ (x = l /\ y = k)
    BY <1>3, <1>4 DEF OwnFilters
  <1>5. Range(rows[r].tids) = {s[x].tid, s[y].tid}
    BY <1>1, <1>2
  <1>6. ASSUME rows[r] \in {Row(s[k], s[l]), Row(s[l], s[k])}
        PROVE  Range(rows[r].tids) = {s[k].tid, s[l].tid}
    <2>1. Range(Row(s[k], s[l]).tids) = {s[k].tid, s[l].tid} /\ Range(Row(s[l], s[k]).tids) = {s[l].tid, s[k].tid}
      BY <1>2
    <2>2. {s[l].tid, s[k].tid} = {s[k].tid, s[l].tid}
      OBVIOUS
    <2>3. CASE rows[r] = Row(s[k], s[l])
      BY <2>1, <2>3
    <2>4. CASE rows[r] = Row(s[l], s[k])
      BY <2>1, <2>2, <2>4
    <2>5. QED
      BY <1>6, <2>3, <2>4
  <1>7. QED
    BY <1>1, <1>4, <1>5, <1>6

(* Two threads sampled at a common address have a bit in common.           *)
LEMMA CommonBit ==
  ASSUME samples \in Seq(Samples), NEW x \in DOMAIN s, NEW y \in DOMAIN s, FilterOf(s[x]), FilterOf(s[y]),
         NEW n \in ThisRound(s[x].tid), NEW m \in ThisRound(s[y].tid),
         samples[n].line.addr = samples[m].line.addr
  PROVE  Row(s[x], s[y]).intersection_bit_count > 0 /\ Row(s[y], s[x]).intersection_bit_count > 0
  <1>1. Bin(samples[n].line) = Bin(samples[m].line)
    BY DEF Bin
  <1>2. Bin(samples[n].line) \in s[x].filter \cap s[y].filter
    BY <1>1 DEF FilterOf, Image
  <1>3. IsFiniteSet(s[x].filter) /\ IsFiniteSet(s[y].filter)
    BY FiniteImage DEF FilterOf
  <1>4. IsFiniteSet(s[x].filter \cap s[y].filter)
    BY <1>3, FS_Intersection
  <1>5. Cardinality(s[x].filter \cap s[y].filter) > 0
    <2> DEFINE C == s[x].filter \cap s[y].filter
    <2>1. IsFiniteSet(C) /\ C # {}
      BY <1>2, <1>4
    <2> HIDE DEF C
    <2>2. Cardinality(C) > 0
      BY <2>1, FS_EmptySet, FS_CardinalityType
    <2>3. QED
      BY <2>2 DEF C
  <1>6. Cardinality(s[y].filter \cap s[x].filter) > 0
    <2>1. s[y].filter \cap s[x].filter = s[x].filter \cap s[y].filter
      OBVIOUS
    <2>2. QED
      BY <1>5, <2>1
  <1>7. \A f, g : Row(f, g).intersection_bit_count = Cardinality(f.filter \cap g.filter)
    BY DEF Row
  <1>8. QED
    BY <1>5, <1>6, <1>7

(* A round reports every two threads with a filter, once if all pairs fit      *)
(* into P[], and never finds two of them apart that were sampled at a common   *)
(* address (check_intersection_filter).  By the hypothesis, which holds of the *)
(* code with its 20 filters and 100 places, the number of a filter that an     *)
(* overrun of P[] writes over pair_index still is an index of P[].             *)
THEOREM PairsAll == ASSUME MAX_FILTERS <= PAIRS PROVE Spec => []PairsReported
  <1>1. ASSUME FilterInv, ReportInv PROVE PairsReported
    <2> SUFFICES ASSUME stage = "reported", NEW k \in DOMAIN s, NEW l \in DOMAIN s, k < l
                 PROVE  LET both == {r \in DOMAIN rows : Range(rows[r].tids) = {s[k].tid, s[l].tid}} IN
                        /\ both # {}
                        /\ Len(s) * (Len(s) - 1) <= 2 * PAIRS => Cardinality(both) = 1
                        /\ (\E n \in ThisRound(s[k].tid), m \in ThisRound(s[l].tid) :
                              samples[n].line.addr = samples[m].line.addr)
                           => \A r \in both : rows[r].intersection_bit_count > 0
      BY DEF PairsReported
    <2> DEFINE both == {r \in DOMAIN rows : Range(rows[r].tids) = {s[k].tid, s[l].tid}}
    <2>1. Filled /\ OwnFilters /\ samples \in Seq(Samples) /\ Compared /\ RowsReal /\ (Fits => Once)
      BY <1>1 DEF FilterInv, FilterTypes, InRound, Filled, ReportInv
    <2>2. k # l
      <3>1. s \in Seq(Filters)
        BY <1>1 DEF FilterInv, FilterTypes
      <3>2. k \in Int /\ l \in Int
        BY <3>1
      <3>3. QED
        BY <3>2
    <2>3. \A r \in DOMAIN rows : r \in both <=> rows[r] \in {Row(s[k], s[l]), Row(s[l], s[k])}
      <3>1. ASSUME NEW r \in DOMAIN rows
            PROVE  Range(rows[r].tids) = {s[k].tid, s[l].tid}
                     <=> rows[r] \in {Row(s[k], s[l]), Row(s[l], s[k])}
        <4>1. OwnFilters /\ RowsReal
          BY <2>1
        <4>2. Range(rows[r].tids) = {s[k].tid, s[l].tid}
                <=> rows[r] \in {Row(s[k], s[l]), Row(s[l], s[k])} /\ k # l
          BY <4>1, RowOfBoth
        <4>3. QED
          BY <2>2, <4>2
      <3>2. QED
        BY <3>1
    <2>4. PICK r \in both : TRUE
      <3>1. Reported(k, l)
        BY <2>1, <2>2 DEF Compared
      <3>2. QED
        BY <2>3, <3>1 DEF Reported
    <2>5. ASSUME Len(s) * (Len(s) - 1) <= 2 * PAIRS PROVE Cardinality(both) = 1
      <3>1. Once
        BY <2>1, <2>5 DEF Fits
      <3>2. \A q \in both : q = r
        BY <2>3, <3>1 DEF Once
      <3>3. both = {r}
        BY <3>2
      <3>4. QED
        BY <3>3, FS_Singleton
    <2>6. ASSUME NEW n \in ThisRound(s[k].tid), NEW m \in ThisRound(s[l].tid),
                 samples[n].line.addr = samples[m].line.addr, NEW q \in both
          PROVE  rows[q].intersection_bit_count > 0
      <3>1. FilterOf(s[k]) /\ FilterOf(s[l])
        BY <2>1 DEF Filled
      <3>2. Row(s[k], s[l]).intersection_bit_count > 0 /\ Row(s[l], s[k]).intersection_bit_count > 0
        BY <2>1, <2>6, <3>1, CommonBit
      <3>3. QED
        BY <2>3, <3>2
    <2>7. both # {}
      BY <2>4
    <2>8. QED
      BY <2>5, <2>6, <2>7
  <1>2. QED
    BY <1>1, FilterInvariance, ReportInvariance, PTL

-----------------------------------------------------------------------------
(***************************************************************************)
(* SignalSampler, for every number of samples: the handler that runs is    *)
(* not the one that allocates.                                             *)
(***************************************************************************)

(* Of the two handlers only the second is ever registered; so data is      *)
(* never allocated, and nothing is printed.                                *)
SignalInv ==
  /\ handler \in {0, 2}
  /\ handler_at \in {"idle", "head", "copy", "return"}
  /\ handler_at # "idle" => handler = 2
  /\ data_head \in [Cores -> Nat] /\ prev_head \in [Cores -> Nat]
  /\ allocated \subseteq {2}
  /\ handler_at = "copy" => data_head[2] > 0
  /\ prev_head[2] <= data_head[2]
  /\ got = << >>

(* The second registration is the one that lasts.                          *)
LEMMA LastRegistered == Last(Registrations) = 2
  BY DEF Last, Registrations

(* Initially no handler is registered and nothing was read.                *)
LEMMA SignalInitInv == SignalInit => SignalInv
  BY DEF SignalInit, SignalInv, Cores

(* Only the second handler runs, so a copy it makes would be of records of *)
(* the second buffer.                                                      *)
LEMMA SignalNextInv == SignalInv /\ [SignalNext]_signal_vars => SignalInv'
  <1> SUFFICES ASSUME SignalInv, [SignalNext]_signal_vars PROVE SignalInv'
    OBVIOUS
  <1> USE DEF SignalInv, kernel, memory
  <1>1. ASSUME UNCHANGED signal_vars PROVE SignalInv'
    BY <1>1 DEF signal_vars
  <1>2. ASSUME Main PROVE SignalInv'
    <2>1. UNCHANGED <<handler_at, data_head, prev_head, allocated, got>> /\ handler_at = "idle"
      BY <1>2 DEF Main, CountEvents, Register, Open, Enable, Wake, Unmap, Close, Step
    <2>2. handler' \in {0, 2}
      BY <1>2, LastRegistered DEF Main, CountEvents, Register, Open, Enable, Wake, Unmap, Close
    <2>3. QED
      BY <2>1, <2>2
  <1>3. ASSUME Deliver PROVE SignalInv'
    BY <1>3 DEF Deliver
  <1>4. ASSUME ReadHead PROVE SignalInv'
    <2>1. handler = 2 /\ UNCHANGED <<handler, data_head, got>>
      BY <1>4 DEF ReadHead
    <2>2. CASE 2 \in maps
      <3>1. /\ size' = data_head[2] - prev_head[2]
            /\ prev_head' = [prev_head EXCEPT ![2] = data_head[2]]
            /\ allocated' = allocated \cup {2}
            /\ handler_at' = IF size' = 0 THEN "return" ELSE "copy"
        BY <2>1, <2>2, <1>4 DEF ReadHead
      <3>2. data_head[2] \in Nat /\ prev_head[2] \in Nat
        BY DEF Cores
      <3>3. size' # 0 => data_head[2] > 0
        BY <3>1, <3>2
      <3>4. prev_head' \in [Cores -> Nat] /\ prev_head'[2] = data_head[2]
        BY <3>1, <3>2 DEF Cores
      <3>5. QED
        BY <2>1, <3>1, <3>2, <3>3, <3>4
    <2>3. CASE 2 \notin maps
      BY <2>1, <2>3, <1>4 DEF ReadHead
    <2>4. QED
      BY <2>2, <2>3
  <1>5. ASSUME Copy PROVE SignalInv'
    BY <1>5 DEF Copy
  <1>6. ASSUME Return PROVE SignalInv'
    BY <1>6 DEF Return
  <1>7. ASSUME NEW c \in Cores, Sample(c) \/ Note(c) PROVE SignalInv'
    <2>1. /\ UNCHANGED <<handler, handler_at, prev_head, allocated, got>>
          /\ data_head' = [data_head EXCEPT ![c] = @ + 1] \/ data_head' = data_head
      <3>1. CASE Sample(c)
        <4>1. /\ UNCHANGED <<handler, handler_at, memory>>
              /\ data_head' = [data_head EXCEPT ![c] = IF c \in maps THEN @ + 1 ELSE @]
          BY <3>1 DEF Sample
        <4>2. CASE c \in maps
          BY <4>1, <4>2
        <4>3. CASE c \notin maps
          BY <4>1, <4>3
        <4>4. QED
          BY <4>2, <4>3
      <3>2. CASE Note(c)
        BY <3>2 DEF Note
      <3>3. QED
        BY <1>7, <3>1, <3>2
    <2>2. data_head' \in [Cores -> Nat] /\ data_head'[2] >= data_head[2]
      BY <2>1 DEF Cores
    <2>3. QED
      BY <2>1, <2>2 DEF Cores
  <1>8. QED
    BY <1>1, <1>2, <1>3, <1>4, <1>5, <1>6, <1>7 DEF SignalNext, Handler

(* Where the program may crash.                                            *)
LEMMA WhereItCrashes ==
  ASSUME SignalInv, [SignalNext]_signal_vars, main_at # "crashed", main_at' = "crashed"
  PROVE  handler_at # "idle" /\ (data_head[2] > 0 \/ 2 \notin maps)
  <1>1. ~(UNCHANGED signal_vars) /\ ~Main /\ ~Deliver /\ ~Return
    BY DEF signal_vars, Main, CountEvents, Register, Open, Enable, Wake, Unmap, Close, Step, Deliver, Return
  <1>2. ASSUME NEW c \in Cores PROVE ~Sample(c) /\ ~Note(c)
    BY DEF Sample, Note
  <1>3. ReadHead \/ Copy
    BY <1>1, <1>2 DEF SignalNext, Handler
  <1>4. CASE ReadHead
    BY <1>4 DEF ReadHead, SignalInv
  <1>5. CASE Copy
    BY <1>5 DEF Copy, SignalInv
  <1>6. QED
    BY <1>3, <1>4, <1>5

(* Whatever is sampled and however signals fall, the version of the        *)
(* detector that reads in signal handlers prints no sample.                *)
THEOREM HandlersReadNothing == SignalSpec => []NothingRead
  <1>1. SignalInv => NothingRead
    BY DEF SignalInv, NothingRead
  <1>2. QED
    BY SignalInitInv, SignalNextInv, <1>1, PTL DEF SignalSpec

(* It crashes only in a handler, and only once the second core recorded    *)
(* something or its buffer was not mapped.                                 *)
THEOREM HandlerCrashes == SignalSpec => CrashesAtSecondBuffer
  <1>1. SignalInv /\ [SignalNext]_signal_vars
        => [main_at # "crashed" /\ main_at' = "crashed"
            => handler_at # "idle" /\ (data_head[2] > 0 \/ 2 \notin maps)]_signal_vars
    BY WhereItCrashes
  <1>2. QED
    BY SignalInitInv, SignalNextInv, <1>1, PTL DEF SignalSpec, CrashesAtSecondBuffer
=============================================================================
