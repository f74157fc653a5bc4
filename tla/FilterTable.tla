---------------------------- MODULE FilterTable ----------------------------
(***************************************************************************)
(* The round-based detector of perf2_new.c.  main counts coherence events  *)
(* for five seconds; over the threshold it clears the filters, lets perf   *)
(* record memory accesses, reads perf's report line by line, and compares  *)
(* the filters of every two threads; then it counts again, for ever.       *)
(*                                                                         *)
(* A kept line goes into two tables: threads[] with the addresses and      *)
(* counts of each thread, never cleared, and s[], one Bloom filter with    *)
(* counts for each of the first MAX_FILTERS threads of the round.  Both    *)
(* are filled from the front, so each is a sequence here.  The pairs of    *)
(* filters already compared are kept in P[], whose end is not tested.      *)
(***************************************************************************)
EXTENDS Integers, Sequences, FiniteSets, SequencesExt

CONSTANTS
  MAX_FILTERS,  (* length of s[]; 20                                        *)
  PAIRS,        (* length of P[]; 100                                       *)
  UNIQUE,       (* length of a thread's address and count arrays; 100       *)
  THREAD_MAX,   (* length of threads[]; 100                                 *)
  M,            (* number of filter bits; 2000                              *)
  MAX_LINES,    (* bound: lines kept over all rounds, those of a failed     *)
                (* recording's second reading apart                         *)
  MAX_ROUNDS,   (* bound: rounds of main                                    *)
  Workloads,    (* for each name of a workload, the reports perf may make:  *)
                (* sequences of Lines                                       *)
  TEXT          (* the characters of an address, read as a count            *)

(* A line of a report; addr is the sequence of its hex digits.             *)
Lines == [pid : Nat, tid : Nat, addr : Seq(0 .. 15) \ {<< >>}]

ASSUME FilterAssumption ==
  /\ MAX_FILTERS \in Nat \ {0} /\ PAIRS \in Nat \ {0} /\ UNIQUE \in Nat \ {0}
  /\ THREAD_MAX \in Nat \ {0} /\ M \in Nat \ {0}
  /\ MAX_LINES \in Nat /\ MAX_ROUNDS \in Nat /\ TEXT \in Nat
  /\ \A w \in DOMAIN Workloads : Workloads[w] \subseteq Seq(Lines)

Bins    == 0 .. M - 1
Entries == 0 .. UNIQUE - 1
Slots   == 0 .. PAIRS + MAX_FILTERS * MAX_FILTERS

VARIABLES
  workload,   (* what is sampled; never changes                             *)
  behind,     (* the global behind P[]: "pair_index" or "other"; constant   *)
  stage,      (* control point of main                                      *)
  round,      (* rounds begun                                               *)
  hot,        (* event_cnt[0] > THRESHOLD_VAL                               *)
  report,     (* the lines of mem_D_report.txt                              *)
  at,         (* how many of them were read                                 *)
  threads,    (* threads[0 .. thread_index-1]                               *)
  s,          (* the filters taken                                          *)
  P, pair_index,
  i, j,       (* loop variables of check_intersection_filter                *)
  rows,       (* what it printed in this round                              *)
  samples     (* history: the kept lines, each with its round               *)

build == <<workload, behind>>
files == <<hot, report, at>>
pairs == <<P, pair_index, i, j, rows>>
vars  == <<build, stage, round, files, threads, s, pairs, samples>>

-----------------------------------------------------------------------------
(* process_string *)

(* User addresses of at most twelve digits, the first of them 1 to 7; the  *)
(* idle task is left out.  Comments and shorter lines leave no trace.      *)
Kept(l) ==
  /\ Len(l.addr) <= 12 /\ l.addr[1] \in 1 .. 7
  /\ l.pid # 0 \/ l.tid # 0

(* The hex digits are added up as if they were decimal ones.               *)
typeAddr(addr) == FoldLeft(LAMBDA n, d : n * 10 + d, 0, addr)

Hashk(addr) == (6 * addr - 6) % M

Bin(l) == Hashk(typeAddr(l.addr))

ThreadOf(l) == {k \in DOMAIN threads : threads[k].tid = l.tid}

EntriesOf(t, a) == {e \in 0 .. t.n - 1 : t.addr[e] = a}

(* The address goes to mem_addr[n] and the count to freq[n], whatever n    *)
(* is.  Behind the last address are the counts, up to four of which the    *)
(* text overwrites, and behind the counts is n: set to 1, incremented to 2.*)
NewAddress(t, a) ==
  IF t.n < UNIQUE
  THEN [t EXCEPT !.addr[t.n] = a, !.freq[t.n] = 1, !.n = @ + 1]
  ELSE [t EXCEPT !.freq = [e \in Entries |-> IF e < 4 THEN TEXT ELSE @[e]], !.n = 2]

KnownAddress(t, a) ==
  LET e == CHOOSE e \in EntriesOf(t, a) : \A d \in EntriesOf(t, a) : e <= d
  IN  [t EXCEPT !.freq[e] = @ + 1]

FirstAddress(l) ==
  [pid |-> l.pid, tid |-> l.tid, n |-> 1,
   addr |-> [e \in Entries |-> IF e = 0 THEN l.addr ELSE << >>],
   freq |-> [e \in Entries |-> IF e = 0 THEN 1 ELSE 0]]

(* add_threadInfo; a new thread beyond THREAD_MAX would be written behind  *)
(* the array, see Overrun.                                                 *)
AddThreadInfo(l) ==
  threads' =
    IF ThreadOf(l) = {} THEN Append(threads, FirstAddress(l))
    ELSE LET k == CHOOSE k \in ThreadOf(l) : TRUE IN
         [threads EXCEPT ![k] = IF EntriesOf(@, l.addr) = {} THEN NewAddress(@, l.addr)
                                                             ELSE KnownAddress(@, l.addr)]

(* Mutation: the first free filter is taken, even by a thread that has one *)
findIndexFree(tid) == IF Len(s) < MAX_FILTERS THEN {Len(s) + 1} ELSE {}

(* The first filter that is free or the thread's own; none when all are    *)
(* taken by others.                                                        *)
findIndex(tid) ==
  LET own == {k \in DOMAIN s : s[k].tid = tid} IN
  IF own # {} THEN own ELSE IF Len(s) < MAX_FILTERS THEN {Len(s) + 1} ELSE {}

(* insert_into_filter sets one bit and counts it.                          *)
Insert(f, b) == [f EXCEPT !.filter = @ \cup {b}, !.frequency[b] = @ + 1]

Untaken(tid) == [tid |-> tid, filter |-> {}, frequency |-> [b \in Bins |-> 0]]

getfilters(l) ==
  IF findIndex(l.tid) = {} THEN UNCHANGED s
  ELSE LET k == CHOOSE k \in findIndex(l.tid) : TRUE IN
       s' = IF k \in DOMAIN s THEN [s EXCEPT ![k] = Insert(@, Bin(l))]
            ELSE Append(s, Insert(Untaken(l.tid), Bin(l)))

-----------------------------------------------------------------------------
(* main, readOutputFile, sample_addresses and read_mems *)

(* event_cnt is on the stack and not initialised.                          *)
Init ==
  /\ workload \in DOMAIN Workloads /\ behind \in {"pair_index", "other"}
  /\ stage = "counting" /\ round = 0
  /\ hot \in BOOLEAN /\ report = << >> /\ at = 0
  /\ threads = << >> /\ s = << >>
  /\ P = [k \in Slots |-> [i |-> 0, j |-> 0]] /\ pair_index = 0
  /\ i = 1 /\ j = 1 /\ rows = << >> /\ samples = << >>

(* perf stat, then the numbers in its output: with none, event_cnt keeps   *)
(* what the last round left there.  A missing file is not looked for and   *)
(* ends in a crash.                                                        *)
ReadOutputFile ==
  /\ stage = "counting" /\ round < MAX_ROUNDS
  /\ round' = round + 1
  /\ \/ stage' = "deciding" /\ hot' \in BOOLEAN
     \/ stage' = "deciding" /\ UNCHANGED hot
     \/ stage' = "crashed" /\ UNCHANGED hot
  /\ UNCHANGED <<build, report, at, threads, s, pairs, samples>>

NothingToBeDone ==
  /\ stage = "deciding" /\ ~hot
  /\ stage' = "counting"
  /\ UNCHANGED <<build, round, files, threads, s, pairs, samples>>

(* Mutation: the pairs compared in the last round stay.                    *)
InitializeFiltersOnly ==
  /\ stage = "deciding" /\ hot
  /\ stage' = "recording" /\ s' = << >> /\ rows' = << >>
  /\ UNCHANGED <<build, round, files, threads, P, pair_index, i, j, samples>>

(* Mutation: threads[] is emptied too.                                     *)
InitializeAll ==
  /\ stage = "deciding" /\ hot
  /\ stage' = "recording" /\ s' = << >> /\ pair_index' = 0 /\ rows' = << >> /\ threads' = << >>
  /\ UNCHANGED <<build, round, files, P, i, j, samples>>

(* initialize_filters(); pair_index=0                                      *)
Initialize ==
  /\ stage = "deciding" /\ hot
  /\ stage' = "recording" /\ s' = << >> /\ pair_index' = 0 /\ rows' = << >>
  /\ UNCHANGED <<build, round, files, threads, P, i, j, samples>>

(* perf mem record and perf mem report, whose results are not looked at: a *)
(* recording that fails leaves the data of the last one, to be reported    *)
(* again; a report that fails leaves an empty file, or none.               *)
Record ==
  /\ stage = "recording"
  /\ at' = 0
  /\ \/ /\ stage' = "reading"
        /\ report' \in {file \in Workloads[workload] : Len(file) + Len(samples) <= MAX_LINES}
     \/ stage' = "reading" /\ UNCHANGED report
     \/ stage' = "crashed" /\ UNCHANGED report
  /\ UNCHANGED <<build, round, hot, threads, s, pairs, samples>>

Line == report[at + 1]

(* A thread too many: what is behind threads[] is overwritten.  The model  *)
(* does not follow the program any further.                                *)
Overrun(l) == ThreadOf(l) = {} /\ Len(threads) = THREAD_MAX

ReadLine ==
  /\ stage = "reading" /\ at < Len(report)
  /\ at' = at + 1
  /\ IF ~Kept(Line) THEN UNCHANGED <<stage, threads, s, samples>>
     ELSE IF Overrun(Line) THEN stage' = "overrun" /\ UNCHANGED <<threads, s, samples>>
     ELSE /\ AddThreadInfo(Line) /\ getfilters(Line)
          /\ samples' = Append(samples, [line |-> Line, round |-> round])
          /\ UNCHANGED stage
  /\ UNCHANGED <<build, round, hot, report, pairs>>

(* End of the file; the tables are displayed.                              *)
EndOfFile ==
  /\ stage = "reading" /\ at = Len(report)
  /\ stage' = "comparing" /\ i' = 1 /\ j' = 1
  /\ UNCHANGED <<build, round, files, threads, s, P, pair_index, rows, samples>>

-----------------------------------------------------------------------------
(* check_intersection_filter; filters are numbered from 1 here             *)

(* The pair at k.  Behind the end of P[] is other memory, which keeps what *)
(* was written there, or pair_index itself.                                *)
Pair(k) ==
  IF behind = "pair_index" /\ k = PAIRS THEN [P[k] EXCEPT !.i = pair_index] ELSE P[k]

checkPair(a, b) ==
  \A k \in 0 .. pair_index - 1 : Pair(k) \notin {[i |-> a, j |-> b], [i |-> b, j |-> a]}

(* P[pair_index].i=i; P[pair_index].j=j; pair_index++: the first of the    *)
(* three may change pair_index under the others.                           *)
insertPair(a, b) ==
  LET now == IF behind = "pair_index" /\ pair_index = PAIRS THEN a ELSE pair_index IN
  /\ P' = [[P EXCEPT ![pair_index].i = a] EXCEPT ![now].j = b]
  /\ pair_index' = now + 1

Sum(f, bits) == FoldFunctionOnSet(+, 0, f, bits)

(* What is counted and printed for two filters.                            *)
Row(x, y) ==
  LET common == x.filter \cap y.filter IN
  [tids |-> <<x.tid, y.tid>>,
   intersection_bit_count |-> Cardinality(common),
   set |-> <<Cardinality(x.filter), Cardinality(y.filter)>>,
   fr |-> <<Sum(x.frequency, x.filter), Sum(y.frequency, y.filter)>>,
   intersect_fr |-> <<Sum(x.frequency, common), Sum(y.frequency, common)>>]

NextPair ==
  IF j < Len(s) THEN j' = j + 1 /\ UNCHANGED <<i, stage>>
  ELSE IF i < Len(s) THEN i' = i + 1 /\ j' = 1 /\ UNCHANGED stage
  ELSE stage' = "reported" /\ UNCHANGED <<i, j>>

Compare ==
  /\ stage = "comparing" /\ s # << >>
  /\ IF i # j /\ checkPair(i - 1, j - 1)
     THEN insertPair(i - 1, j - 1) /\ rows' = Append(rows, Row(s[i], s[j]))
     ELSE UNCHANGED <<P, pair_index, rows>>
  /\ NextPair
  /\ UNCHANGED <<build, round, files, threads, s, samples>>

NothingToCompare ==
  /\ stage = "comparing" /\ s = << >>
  /\ stage' = "reported"
  /\ UNCHANGED <<build, round, files, threads, s, pairs, samples>>

NextRound ==
  /\ stage = "reported"
  /\ stage' = "counting"
  /\ UNCHANGED <<build, round, files, threads, s, pairs, samples>>

Next ==
  \/ ReadOutputFile \/ NothingToBeDone \/ Initialize \/ Record \/ ReadLine \/ EndOfFile
  \/ Compare \/ NothingToCompare \/ NextRound

Spec == Init /\ [][Next]_vars

-----------------------------------------------------------------------------
(* Properties *)

SamplesOf(tid) == {k \in DOMAIN samples : samples[k].line.tid = tid}
ThisRound(tid) == {k \in SamplesOf(tid) : samples[k].round = round}
SampledTids    == {samples[k].line.tid : k \in DOMAIN samples}
RoundTids      == {t \in SampledTids : ThisRound(t) # {}}

InRound == stage \in {"reading", "comparing", "reported", "overrun"}

(* A thread's filter counts exactly its samples of this round, bit by bit: *)
(* nothing of an earlier round, of another thread or of a thread whose id  *)
(* was reused is missing or left over.  A thread goes without a filter     *)
(* only when MAX_FILTERS threads were sampled before it.                   *)
FiltersOfRound ==
  InRound =>
    /\ \A k \in DOMAIN s : \A b \in Bins :
         /\ s[k].frequency[b] = Cardinality({n \in ThisRound(s[k].tid) : Bin(samples[n].line) = b})
         /\ b \in s[k].filter <=> s[k].frequency[b] > 0
    /\ \A k, l \in DOMAIN s : s[k].tid = s[l].tid => k = l
    /\ \A t \in RoundTids \ {s[k].tid : k \in DOMAIN s} :
         /\ Len(s) = MAX_FILTERS
         /\ \A k \in DOMAIN s : \E n \in ThisRound(s[k].tid) : \A m \in ThisRound(t) : n < m

(* A round reports every two threads with a filter, even when P[] is       *)
(* overrun and pair_index with it, and once only, in one order or the      *)
(* other, as long as the pairs fit into P[].  Two threads sampled at a     *)
(* common address are never found apart.                                   *)
PairsReported ==
  stage = "reported" =>
    \A k, l \in DOMAIN s : k < l =>
      LET both == {r \in DOMAIN rows : Range(rows[r].tids) = {s[k].tid, s[l].tid}} IN
      /\ both # {}
      /\ Len(s) * (Len(s) - 1) <= 2 * PAIRS => Cardinality(both) = 1
      /\ (\E n \in ThisRound(s[k].tid), m \in ThisRound(s[l].tid) :
            samples[n].line.addr = samples[m].line.addr)
         => \A r \in both : rows[r].intersection_bit_count > 0

(* Once the arrays of a thread are overrun its counts are lost.            *)
WithinUnique(tid) ==
  Cardinality({samples[k].line.addr : k \in SamplesOf(tid)}) <= UNIQUE

(* threads[] is never cleared: it has one record for every thread sampled  *)
(* since the program began, under the process id it was first seen with,   *)
(* and counts its samples of all rounds, address by address.  So it is     *)
(* overrun only after THREAD_MAX different threads, however few a round    *)
(* has.                                                                    *)
CountsSinceStart ==
  /\ \A k, l \in DOMAIN threads : threads[k].tid = threads[l].tid => k = l
  /\ {threads[k].tid : k \in DOMAIN threads} = SampledTids
  /\ stage = "overrun" => Cardinality(SampledTids) = THREAD_MAX
  /\ \A k \in DOMAIN threads :
       LET t == threads[k] IN
       /\ \E n \in SamplesOf(t.tid) :
            samples[n].line.pid = t.pid /\ \A m \in SamplesOf(t.tid) : n <= m
       /\ WithinUnique(t.tid) =>
            /\ t.n = Cardinality({samples[n].line.addr : n \in SamplesOf(t.tid)})
            /\ \A n \in SamplesOf(t.tid) : \E e \in 0 .. t.n - 1 :
                 /\ t.addr[e] = samples[n].line.addr
                 /\ t.freq[e] = Cardinality({m \in SamplesOf(t.tid) : samples[m].line.addr = t.addr[e]})
=============================================================================
