---------------------------- MODULE SampleStore ----------------------------
(***************************************************************************)
(* The false-sharing detectors hardcore_new4.c, hardcore_new5.c and        *)
(* hardcore_new6.c.  main counts coherence events; over the threshold it   *)
(* samples addresses on every core, stores each sample under its thread    *)
(* (storeSample), and reports for every pair of threads how much their     *)
(* address filters overlap (checkIntersection).  Version 6 also stores the *)
(* physical translation of each sample and hashes with MurmurHash; the     *)
(* earlier ones hash with a polynomial whose product overflows.  Version 4 *)
(* keeps no count per filter bit: here it does, and reports none.          *)
(*                                                                         *)
(* A thread's record holds two lists of the same shape, one for virtual    *)
(* and one for physical addresses: an array of UNIQUE addresses, an array  *)
(* of UNIQUE counts, the number of entries, and a one-hash Bloom filter    *)
(* with a count per bit.  In the struct the counts follow the addresses    *)
(* and the number of entries follows the counts, so a write at position    *)
(* UNIQUE of an array lands in the next field; the model writes there too. *)
(* A write that leaves the filter, or threads[], ends the model: where it  *)
(* lands depends on the byte layout and the link order.                    *)
(*                                                                         *)
(* Reading the samples out of the kernel's buffer is abstracted to the     *)
(* choice of the next sample of the core being read.                       *)
(***************************************************************************)
EXTENDS Integers, Sequences, FiniteSetsExt

CONSTANTS
  CORES,        (* number of cores sampled; 10 in the program               *)
  UNIQUE,       (* length of the address and count arrays; 100              *)
  THREAD_MAX,   (* length of threads[]; 100                                 *)
  M,            (* number of filter bits; 1000                              *)
  FD_MAX,       (* descriptors left for /proc/<pid>/pagemap                 *)
  MAX_SAMPLES,  (* bound: samples in the kernel's buffers                   *)
  Tids,         (* threads that run while the cores are sampled             *)
  PidOf,        (* the process of each thread                               *)
  Addrs,        (* sampled virtual addresses                                *)
  PhysAddrs,    (* what virt_to_phys_user computes: physical addresses, and *)
                (* the page offsets that absent pages translate to          *)
  Frame,        (* Frame[p][a]: where address a of process p is in memory   *)
  Offset,       (* Offset[a]: the page offset of a, as an address in frame 0 *)
  FAILURE,      (* the 1 that virt_to_phys_user returns on a failure        *)
  Hash,         (* hash() of version 6, of virtual and physical addresses   *)
  PolyHash,     (* hash() of versions 4 and 5; the remainder of a product   *)
                (* that overflowed may be negative                          *)
  LowHalf, HighHalf, (* the two ints an address makes over freq[0..1]       *)
  NoAddr        (* content of an array element never written                *)

ASSUME StoreAssumption ==
  /\ CORES \in Nat \ {0} /\ UNIQUE \in Nat /\ UNIQUE >= 2
  /\ THREAD_MAX \in Nat /\ M \in Nat \ {0} /\ FD_MAX \in Nat /\ MAX_SAMPLES \in Nat
  /\ FAILURE \notin PhysAddrs
  /\ NoAddr \notin Addrs \cup PhysAddrs \cup {FAILURE}
  /\ Hash \in [Addrs \cup PhysAddrs \cup {FAILURE} -> 0 .. M - 1]
  /\ PolyHash \in [Addrs -> -(M - 1) .. M - 1]
  /\ LowHalf \in [Addrs \cup PhysAddrs \cup {FAILURE} -> Int]
  /\ HighHalf \in [Addrs \cup PhysAddrs \cup {FAILURE} -> Int]
  /\ \A t \in Tids : \A a \in Addrs : Frame[PidOf[t]][a] \in PhysAddrs
  /\ \A a \in Addrs : Offset[a] \in PhysAddrs

Bins     == 0 .. M - 1
Entries  == 0 .. UNIQUE - 1
Pids     == {PidOf[t] : t \in Tids}
AnyAddr  == Addrs \cup PhysAddrs \cup {FAILURE}

VARIABLES
  version,   (* the detector that runs: 4, 5 or 6; never changes            *)
  stage,     (* control point of main                                       *)
  core,      (* the core whose buffer is being read                         *)
  threads,   (* threads[0 .. thread_index-1], as a sequence                 *)
  gone,      (* processes that have exited                                  *)
  leaked,    (* pagemap descriptors never closed                            *)
  report,    (* rows printed by checkIntersection                           *)
  history    (* history: the samples stored, as [tid, addr, phys]           *)

vars == <<version, stage, core, threads, gone, leaked, report, history>>

-----------------------------------------------------------------------------
(* One address list *)

HashOf(a) == IF version = 6 THEN Hash[a] ELSE PolyHash[a]

(* filter[hash(a)] = true; filter_freq[hash(a)] += 1 *)
MarkFilter(list, a) ==
  [addr |-> list.addr, freq |-> list.freq, n |-> list.n,
   filter |-> list.filter \cup {HashOf(a)},
   ffreq |-> [list.ffreq EXCEPT ![HashOf(a)] = @ + 1]]

(* The physical list where there is none. *)
EmptyList ==
  [addr |-> [j \in Entries |-> NoAddr], freq |-> [j \in Entries |-> 0],
   n |-> 0, filter |-> {}, ffreq |-> [b \in Bins |-> 0]]

(* The first address of a new thread, whose filter is clear: initialize()  *)
(* cleared it, or it is a global of which nothing was written.             *)
FirstEntry(a) ==
  MarkFilter([addr |-> [j \in Entries |-> IF j = 0 THEN a ELSE NoAddr],
              freq |-> [j \in Entries |-> IF j = 0 THEN 1 ELSE 0],
              n |-> 1, filter |-> {}, ffreq |-> [b \in Bins |-> 0]], a)

(* addr[n] = a, whether or not a is known; at n = UNIQUE this overwrites   *)
(* the first two counts.                                                   *)
Scratch(list, a) ==
  IF list.n < UNIQUE THEN [list EXCEPT !.addr = [list.addr EXCEPT ![list.n] = a]]
  ELSE [list EXCEPT !.freq = [list.freq EXCEPT ![0] = LowHalf[a], ![1] = HighHalf[a]]]

(* freq[n] = 1; n++.  At n = UNIQUE the count is written over n itself,    *)
(* which the increment then makes 2.                                        *)
Extend(list) ==
  IF list.n < UNIQUE
  THEN [addr |-> list.addr, freq |-> [list.freq EXCEPT ![list.n] = 1], n |-> list.n + 1,
        filter |-> list.filter, ffreq |-> list.ffreq]
  ELSE [list EXCEPT !.n = 2]

(* Mutation: the filter is marked for the first entry only. *)
NewEntryUnmarked(list, a) == Extend(list)

(* Mutation: the number of entries grows past the arrays. *)
NewEntryGrows(list, a) == MarkFilter([list EXCEPT !.n = @ + 1], a)

(* A new entry is completed: its address is in place already. *)
NewEntry(list, a) == MarkFilter(Extend(list), a)

Positions(list, a) == {j \in 0 .. list.n - 1 : list.addr[j] = a}

(* Mutation: the search overlooks entry 0. *)
RecordSkipsFirst(list, a) ==
  LET known == Positions(list, a) \ {0}
      s     == Scratch(list, a)
  IN  IF known = {} THEN NewEntry(s, a)
      ELSE [s EXCEPT !.freq = [s.freq EXCEPT ![Min(known)] = @ + 1]]

Record(list, a) ==
  LET known == Positions(list, a)
      s     == Scratch(list, a)
  IN  IF known = {} THEN NewEntry(s, a)
      ELSE [s EXCEPT !.freq = [s.freq EXCEPT ![Min(known)] = @ + 1]]

-----------------------------------------------------------------------------
(* virt_to_phys_user(pid, addr): its result, and the descriptor it leaves  *)
(* open when the entry cannot be read.                                     *)

OpenFails(p) == leaked >= FD_MAX \/ p \in gone

(* Mutation: the page map of any process is read. *)
TranslateAnyProcess(p, a, phys) ==
  \/ OpenFails(p) /\ phys = FAILURE /\ UNCHANGED <<leaked, gone>>
  \/ /\ ~OpenFails(p)
     /\ phys = Offset[a] \/ \E q \in Pids : phys = Frame[q][a]
     /\ UNCHANGED <<leaked, gone>>
  \/ leaked < FD_MAX /\ phys = FAILURE /\ leaked' = leaked + 1 /\ gone' = gone \cup {p}

(* Mutation: the descriptor is closed on no path. *)
TranslateKeepsOpen(p, a, phys) ==
  \/ OpenFails(p) /\ phys = FAILURE /\ UNCHANGED <<leaked, gone>>
  \/ ~OpenFails(p) /\ phys \in {Frame[p][a], Offset[a]} /\ leaked' = leaked + 1 /\ UNCHANGED gone
  \/ leaked < FD_MAX /\ phys = FAILURE /\ leaked' = leaked + 1 /\ gone' = gone \cup {p}

(* An address of a live process translates to where it is in memory.  The  *)
(* entry's present bit is not tested: the frame number of a page that was  *)
(* given back is 0, as is every one the kernel hides from an unprivileged  *)
(* reader, and what is computed is the page offset.  The open fails when   *)
(* no descriptor is left or the process is gone; when the process is       *)
(* exiting it succeeds and the read of the entry fails, which leaves the   *)
(* descriptor open.                                                        *)
Translate(p, a, phys) ==
  \/ OpenFails(p) /\ phys = FAILURE /\ UNCHANGED <<leaked, gone>>
  \/ ~OpenFails(p) /\ phys \in {Frame[p][a], Offset[a]} /\ UNCHANGED <<leaked, gone>>
  \/ leaked < FD_MAX /\ phys = FAILURE /\ leaked' = leaked + 1 /\ gone' = gone \cup {p}

-----------------------------------------------------------------------------
(* storeSample(pid, tid, addr, cpu) *)

(* Mutation: a thread is looked up by its process and not by its id. *)
IndexOfProcess(tid) == {i \in DOMAIN threads : threads[i].pid = PidOf[tid]}

IndexOf(tid) == {i \in DOMAIN threads : threads[i].tid = tid}

NewThread(tid, a, phys) ==
  /\ IndexOf(tid) = {}
  /\ threads' = Append(threads,
       [pid |-> PidOf[tid], tid |-> tid, core |-> core,
        virt |-> FirstEntry(a),
        phys |-> IF version = 6 THEN FirstEntry(phys) ELSE EmptyList])

KnownThread(tid, a, phys) ==
  /\ IndexOf(tid) # {}
  /\ LET i == Min(IndexOf(tid))
         t == threads[i]
     IN  threads' = [threads EXCEPT ![i] =
           [pid |-> t.pid, tid |-> t.tid, core |-> t.core,
            virt |-> Record(t.virt, a),
            phys |-> IF version = 6 THEN Record(t.phys, phys) ELSE t.phys]]

(* thread_index is not tested against THREAD_MAX, nor the hash against 0.  *)
Outside(tid, a) == (IndexOf(tid) = {} /\ Len(threads) = THREAD_MAX) \/ HashOf(a) \notin Bins

StoreSample(tid, a) ==
  /\ stage = "sampling"
  /\ Len(history) < MAX_SAMPLES
  /\ ~Outside(tid, a)
  /\ \E phys \in PhysAddrs \cup {FAILURE, NoAddr} :
       /\ IF version = 6 THEN Translate(PidOf[tid], a, phys)
                         ELSE phys = NoAddr /\ UNCHANGED <<leaked, gone>>
       /\ NewThread(tid, a, phys) \/ KnownThread(tid, a, phys)
       /\ history' = Append(history, [tid |-> tid, addr |-> a, phys |-> phys])
  /\ UNCHANGED <<version, stage, core, report>>

StoreOutside(tid, a) ==
  /\ stage = "sampling"
  /\ Len(history) < MAX_SAMPLES
  /\ Outside(tid, a)
  /\ stage' = "overrun"
  /\ UNCHANGED <<version, core, threads, gone, leaked, report, history>>

-----------------------------------------------------------------------------
(* checkIntersection *)

(* Row of the report for one kind of address: the bits set in both         *)
(* filters, the bits of each, the total of the counts of each and the part *)
(* of it under the common bits.                                            *)
Total(list, bits) == MapThenSumSet(LAMBDA b : list.ffreq[b], bits)

Overlap(x, y) ==
  LET common == x.filter \cap y.filter IN
  [inter |-> Cardinality(common),
   t1 |-> Cardinality(x.filter), t2 |-> Cardinality(y.filter),
   freqt1 |-> Total(x, x.filter), freqt2 |-> Total(y, y.filter),
   freq_t1 |-> Total(x, common), freq_t2 |-> Total(y, common)]

(* Version 4 prints nothing of the counts, version 5 nothing physical.     *)
Row(i, j) == [tid1 |-> threads[i].tid, tid2 |-> threads[j].tid,
              virt |-> Overlap(threads[i].virt, threads[j].virt),
              phys |-> Overlap(threads[i].phys, threads[j].phys)]

(* Mutation: the last thread is left out of the loops. *)
CheckIntersectionShort ==
  /\ stage = "reporting"
  /\ report' = {Row(p[1], p[2]) : p \in {q \in (1 .. Len(threads) - 1) \X (1 .. Len(threads) - 1) :
                                           q[1] # q[2]}}
  /\ stage' = "done"
  /\ UNCHANGED <<version, core, threads, gone, leaked, history>>

CheckIntersection ==
  /\ stage = "reporting"
  /\ report' = {Row(p[1], p[2]) : p \in {q \in (DOMAIN threads) \X (DOMAIN threads) : q[1] # q[2]}}
  /\ stage' = "done"
  /\ UNCHANGED <<version, core, threads, gone, leaked, history>>

-----------------------------------------------------------------------------
(* main, count_events and sample *)

Init ==
  /\ version \in {4, 5, 6} /\ stage = "counting" /\ core = 0
  /\ threads = << >> /\ report = {} /\ history = << >>
  /\ gone = {} /\ leaked = 0

(* No core over the threshold, or a counter that cannot be opened, ends    *)
(* the program.                                                            *)
CountEvents ==
  /\ stage = "counting"
  /\ stage' \in {"opening", "done", "exited"}
  /\ UNCHANGED <<version, core, threads, gone, leaked, report, history>>

(* The sampling counters: an error of perf_event_open exits, one of mmap   *)
(* is not looked at and crashes the first read of the buffer.              *)
StartSampling ==
  /\ stage = "opening"
  /\ stage' \in {"sampling", "exited", "crashed"}
  /\ UNCHANGED <<version, core, threads, gone, leaked, report, history>>

(* The buffers are read one core after the other. *)
NextCore ==
  /\ stage = "sampling"
  /\ IF core < CORES - 1 THEN core' = core + 1 /\ UNCHANGED stage
                         ELSE stage' = "reporting" /\ UNCHANGED core
  /\ UNCHANGED <<version, threads, gone, leaked, report, history>>

(* The sampled processes run on and may end before they are translated;    *)
(* only version 6 notices.                                                 *)
ProcessExits(p) ==
  /\ version = 6 /\ stage = "sampling"
  /\ p \notin gone
  /\ gone' = gone \cup {p}
  /\ UNCHANGED <<version, stage, core, threads, leaked, report, history>>

Next ==
  \/ CountEvents \/ StartSampling \/ NextCore \/ CheckIntersection
  \/ \E tid \in Tids, a \in Addrs : StoreSample(tid, a) \/ StoreOutside(tid, a)
  \/ \E p \in Pids : ProcessExits(p)

Spec == Init /\ [][Next]_vars

-----------------------------------------------------------------------------
(* Properties *)

SampledBy(tid)  == {k \in DOMAIN history : history[k].tid = tid}
VirtOf(tid)     == {history[k].addr : k \in SampledBy(tid)}
PhysOf(tid)     == {history[k].phys : k \in SampledBy(tid)} \ {NoAddr}

(* No thread was sampled again once it had UNIQUE addresses: the next      *)
(* sample, even of a known address, overwrites the first two counts.       *)
WithinUnique ==
  \A t \in Tids : \A k \in SampledBy(t) :
    LET before == {j \in SampledBy(t) : j < k} IN
    /\ Cardinality({history[j].addr : j \in before}) < UNIQUE
    /\ Cardinality({history[j].phys : j \in before}) < UNIQUE

ListOK(list, S) ==
  /\ list.addr \in [Entries -> S \cup {NoAddr}] /\ list.freq \in [Entries -> Int]
  /\ list.n \in 0 .. UNIQUE
  /\ list.filter \subseteq Bins /\ list.ffreq \in [Bins -> Nat]

(* Every variable has its type, and the number of entries stays within     *)
(* UNIQUE even when the arrays are overrun.                                 *)
TypeOK ==
  /\ stage \in {"counting", "opening", "sampling", "reporting", "done", "exited", "crashed", "overrun"}
  /\ version \in {4, 5, 6}
  /\ core \in 0 .. CORES - 1
  /\ \A i \in DOMAIN threads :
       /\ threads[i].tid \in Tids /\ threads[i].pid = PidOf[threads[i].tid]
       /\ threads[i].core \in 0 .. core
       /\ ListOK(threads[i].virt, Addrs) /\ ListOK(threads[i].phys, PhysAddrs \cup {FAILURE})
  /\ gone \subseteq Pids /\ leaked \in 0 .. FD_MAX

(* A thread sampled on several cores has one record: every sampled thread  *)
(* has exactly one, and no other thread has any.  Version 6 writes outside *)
(* its arrays only when THREAD_MAX different threads have records, the     *)
(* others also when an address hashes below zero.                          *)
OneRecordPerThread ==
  /\ \A i, j \in DOMAIN threads : threads[i].tid = threads[j].tid => i = j
  /\ \A t \in Tids : SampledBy(t) # {} <=> \E i \in DOMAIN threads : threads[i].tid = t
  /\ stage = "overrun" =>
       Len(threads) = THREAD_MAX \/ (version # 6 /\ \E a \in Addrs : HashOf(a) < 0)

(* A filter bit is set exactly when one of the thread's samples hashes to  *)
(* it, even after the arrays were overrun: the filters have no false       *)
(* negative and hold nothing another thread sampled.                       *)
FiltersExact ==
  \A i \in DOMAIN threads :
    /\ threads[i].virt.filter = {HashOf(a) : a \in VirtOf(threads[i].tid)}
    /\ threads[i].phys.filter = {HashOf(a) : a \in PhysOf(threads[i].tid)}

ListExact(list, samples) ==
  LET sampled == {samples[k][2] : k \in DOMAIN samples} IN
  /\ \A a \in sampled : \E j \in 0 .. list.n - 1 :
       /\ list.addr[j] = a
       /\ list.freq[j] = Cardinality({k \in DOMAIN samples : samples[k][2] = a})
  /\ list.n = Cardinality(sampled)
  /\ Total(list, list.filter) = list.n

(* While no array was overrun, every sampled address has one entry, its     *)
(* count is the number of its samples, and TotalFrequency is the number of *)
(* entries.                                                                 *)
CountsExact ==
  WithinUnique => \A i \in DOMAIN threads :
    LET own == SampledBy(threads[i].tid) IN
    /\ ListExact(threads[i].virt, [k \in own |-> <<k, history[k].addr>>])
    /\ version = 6 => ListExact(threads[i].phys, [k \in own |-> <<k, history[k].phys>>])

(* Two threads that sampled a common virtual (physical) address appear in  *)
(* the report with a common bit: sharing that was sampled is never missed. *)
SharingReported ==
  stage = "done" =>
    \A t, u \in Tids : t # u =>
      /\ VirtOf(t) \cap VirtOf(u) # {} =>
           \E r \in report : r.tid1 = t /\ r.tid2 = u /\ r.virt.inter > 0
      /\ PhysOf(t) \cap PhysOf(u) # {} =>
           \E r \in report : r.tid1 = t /\ r.tid2 = u /\ r.phys.inter > 0

(* The memory a sample really touched, and whether it may be stored under  *)
(* the page offset instead, as a page that is absent is.                   *)
TrueAddr(k) == Frame[PidOf[history[k].tid]][history[k].addr]
Absent(k)   == history[k].phys = Offset[history[k].addr]

(* Why two threads can have a common bit in the physical report while all  *)
(* sampled processes live: a sample of each touched the same memory, or    *)
(* two different translations have one hash, or they were stored as one    *)
(* because the page of one was absent, which virt_to_phys_user does not    *)
(* notice.  In the last case nothing need be shared.  There is no fourth:  *)
(* the translation leaves no descriptor open, so no lookup fails, and the  *)
(* value that all failures have in common is never among the samples.      *)
OverlapExplained ==
  gone = {} =>
    \A r \in report : r.phys.inter > 0 =>
      \E j \in SampledBy(r.tid1), k \in SampledBy(r.tid2) :
        /\ HashOf(history[j].phys) = HashOf(history[k].phys)
        /\ history[j].phys = history[k].phys =>
             TrueAddr(j) = TrueAddr(k) \/ Absent(j) \/ Absent(k)
=============================================================================
