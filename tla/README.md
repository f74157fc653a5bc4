# A TLA+ verification of node2x6x2b

The repository holds a detector of false sharing between threads, built on
`perf_event_open`, and the small concurrent programs that were written to give
it something to detect: rings, chains and ping-pong counters. It has no
documentation beside the comments in the code, and no tests. The modules here
model the code access by access, TLC checks them on small instances, and TLAPS
proves the central properties for every size.

## 1. Inventory of the system

| Part | Files | State | Operations | Hard behaviour | What makes it correct |
|---|---|---|---|---|---|
| Plain-index ring | `PCB/ProducerConsumer2_bufferRUN.cpp` | `buff`, `in`, `out` (plain ints), two loop counters | `Producer`, `Consumer`, `main` (perf counters, create, join) | two threads without lock or atomic | no slot is touched by both threads at once, FIFO, nothing lost, both threads end |
| Index-only and parallel rings | `Microbench/ProducerConsumer2.cpp`, `PCB/ProducerConsumer2.cpp`, `PCB/ProducerConsumer2_dryRUN.cpp`, `PCB/ParaPCB.cpp`, `PCB/ParaPCBBUFF.cpp` | `in`, `out`, one pair per ring | the same loops, without the array or in n copies | the same, and n pairs of threads | rings do not interfere |
| Increment-then-wrap ring | `Microbench/ProducerConsumer.cpp`, `Microbench/ProducerConsumerCircular.c` | `buff`, atomic `in` and `out` | `fetch_add` and then a modulo | the other thread reads an index between the two steps | FIFO while that does not happen |
| Single producer, several consumers | `PCB/SinglePMultipleC.cpp` | atomic `in`, `out` | `fetch_add`, `store(load % BUFF_MAX)` | several writers of `out` | consumptions do not exceed productions |
| Mutex chain | `Microbench/ProducerConsumerBenchMark.c`, `Microbench/CircularBuffer.c` | n circular buffers with mutex, `front`, `rear` | `insert_into_buffer`, `delete_from_buffer`, `create_threads` | n threads hand values on, nobody empties the last buffer | order and completeness through the chain, termination while the values fit |
| Semaphore and mutex buffers | `Microbench/ProducerConsumerNewSemaphore.c`, `Microbench/ProducerConsumerNew.c` | an array, two semaphores, a mutex | `sem_wait`, `sem_post` | blocking | bounded FIFO, no deadlock |
| Sharing detector | `hardcore_new6.c` | `threads[]` with address lists and Bloom filters, the perf buffers | `count_events`, `sample`, `perf_mmap_read`, `storeSample`, `virt_to_phys_user`, `displaySample`, `checkIntersection` | arrays without bound checks, translation of processes that go on running, buffers of several cores | one record per thread, exact filters and counts, sharing that was sampled is reported |
| Earlier detectors | `hardcore_new2.c` ... `hardcore_new5.c`, `PCB/hardcore*.c` | subsets of the same | subsets, and SIGIO handlers in `PCB/hardcore_new.c` | signal handlers share a buffer | as above |
| Round-based detector | `perf2_new.c` | 20 partitioned filters, `threads[]`, `P[100]` | rounds of sampling, filters, pairs | state that survives a round | a round reports only its own samples |
| Ping-pong threads | `Microbench/PP*.c`, `Microbench/PPWA.cpp`, `Microbench/pingPong_withoutAtomic.c`, `Microbench/pthread_equal.c`, `bench/PP_NEW2.c`, `ThreeFriends*.c`, `Microbench/DataRace.c` | counters | increment when it is one's turn | turns by parity, with or without a mutex | strict alternation, no lost update, the program ends |
| Ping-pong processes | `bench/NewProcess1.c`, `bench/NewProcess2.c`, `Microbench/sharedMemory*.c`, `Microbench/SimpleSM.c`, `Microbench/shmget.c` | a System V segment | the same between processes | a segment that outlives its processes, restarts | a run counts from zero |
| Page-map tools | `physical/*.c`, `Microbench/testVP.c` | none | read `/proc/<pid>/pagemap` | short reads | the translation |
| Lock-free queue draft | `Microbench/MSQueue.cpp` | a linked list | | does not compile | |
| MurmurHash | `murmurhash/` | none | vendored hash | | |

The detector and the benchmarks interact only through the hardware: the
detector samples addresses of whatever runs. Inside each program the
interaction is shared memory between threads, or a System V segment between
processes.

## 2. Modules and their correspondence to the code

**BoundedFifo** is the abstract specification: a queue of at most `Capacity`
items with `Put` and `Take`. It models no code.

**SpscRing** models `PCB/ProducerConsumer2_bufferRUN.cpp`. The threads are
`"P"` and `"C"`; `pc` follows the statements of their loops. A step is one
access to a variable that the other thread touches too: the test of a spin
(`SeeSpace`, `SeeItem`), the array access (`WriteSlot`, `ReadSlot`), the store
to the index (`PublishIn`, `ReleaseOut`). An index is read by its owner without
interference, so its own load is merged into the step that uses it. `main`
opens two perf counters and exits if one fails, creates both threads, where a
failure is only printed, and joins them; joining an id that was never filled in
either returns or crashes. `Pin` may end the process from inside a thread.
Accesses are taken in program order and sequentially consistent: the program is
compiled without optimisation, and x86 keeps stores in order. The load of the
other thread's index may overtake one's own store on x86, which this model does
not show.

**AtomicRing** models `Microbench/ProducerConsumer.cpp` and
`Microbench/ProducerConsumerCircular.c`, which differ in what a missing core
does: the first exits, the second goes on unpinned. `BumpIn` and `BumpOut` are
the `fetch_add`, `WrapIn` and `WrapOut` the modulo. Only the owner writes an
index, so the load and the store of the modulo are one step. `raced` is a
history variable that records that a thread left its spin because the other's
index stood at `BUFF_MAX`, where the wrapped index would have held it.

**LockedChain** models `Microbench/ProducerConsumerBenchMark.c`. A call of
`insert_into_buffer` or `delete_from_buffer` holds the buffer's mutex from its
first to its last statement and is one action; a call that fails is repeated and
changes nothing. The number of iterations is chosen at the start among `Counts`.
The mutexes come from `malloc` and are never initialised; the model takes them
to work, as they do when the memory is zero. `Microbench/CircularBuffer.c` has
the same two functions without a mutex and calls them at random from `main`; it
is the program `"circular"` of the same module.

**SampleStore** models the detector in the versions `hardcore_new4.c`,
`hardcore_new5.c` and `hardcore_new6.c`: `CountEvents` and `StartSampling` are the
control of `count_events` and `sample` with their exits, `NextCore` the loop
over the cores' buffers, `StoreSample` the whole of `storeSample` with the call
of `virt_to_phys_user` (version 6), `CheckIntersection` the report,
`ProcessExits` the sampled processes that go on running and may end. An address
list is the same structure twice, for virtual and for physical addresses. The
arrays have no bound check, so the model follows the layout of the struct: at
`UNIQUE` the address is written over the first two counts (`Scratch`) and the
count over the number of entries, which becomes 2 after the increment
(`Extend`). Versions 4 and 5 hash with a polynomial whose product overflows, so
the remainder may be negative. A write outside `threads[]` or before a filter
lands where the linker put something else: the model stops there, at the stage
`"overrun"`. Addresses, frames and both hashes are constants; the theorems hold
for every hash. `Translate` computes what `virt_to_phys_user` does: it takes the
frame number as it is, 0 for a page that is absent or hidden from the reader; a page
in swap, whose entry holds its place there instead, is left out. The reading of the kernel's buffers is abstracted to the choice
of the next sample of the core being read; it is modelled by `PerfRing`.
`displaySample` changes nothing and is not modelled.

**PerfRing** models `sample` and `perf_mmap_read` of eight versions of the
detector. The kernel (external) appends records to the buffer of each core,
drops what does not fit and says so in a LOST record later. A buffer is the set of
its records, each with its kind and the word it starts at; buffers are never
overwritten, because the mapping is writable and `data_tail` stays 0 until
the buffer was read. The reader is followed record by record: `offset` is how far
the record was parsed, `loffset` where it starts, and the loop tests `offset`.
The versions are records that say what is parsed of a sample and what was asked
for, whether counting comes first, and which ioctl is to stop the events:
`DISABLE` stops them, `REFRESH` with 0 does not, so that the kernel writes on
while the reader copies. The copy is a page longer than the buffer, which
crashes or copies something harmless; a record that is being written is seen
whole, not at all, or torn.

**SignalSampler** models `PCB/hardcore_new.c`, the version that reads in a signal
handler. `Main` is `sample()` step by step, from the two registrations for one
signal to the unmapping and closing of both events; the handler is `Deliver`,
`ReadHead`, `Copy` and `Return`, and interrupts `Main` between any two of its
steps. The kernel is external: `Sample` records and signals, `Note` is a signal
without a sample, and SIGIO is blocked while its handler runs, so that signals
coincide. What is recorded is a count of records; the buffers hold them all.

**FilterTable** models `perf2_new.c`. A round is `ReadOutputFile` (the counts of
`perf stat`), `NothingToBeDone` or `Initialize`, `Record` (both calls of `perf
mem`, external: they may fail and leave the last round's data), `ReadLine` for
every line, and `Compare` for every two filters. A line goes to `threads[]`
(`AddThreadInfo`) and to a filter (`getfilters`) in one action. An address is the
sequence of its digits, because which lines are kept depends on them and
`typeAddr` adds hexadecimal digits up as decimal ones. `P[]` has no bound check:
what lies behind it is `pair_index` or something else, a choice made at the
start (`behind`), and the model writes there.

**PingPong** models eleven programs as scripts: a program is a record of the
turns of each thread, the counters it waits for, its locks, whether an increment
is atomic and how the players are made. They are compiled without optimisation,
so every test of a plain variable reads memory. A thread's statistics of turns
and spins are left out, and so is the clearing loop of `PP_NEW.c`, which runs
past its array into variables that are still zero. The bound is tested before
the parity in most programs, so that the last turn may start when the partner
has reached `MAX` already: a count ends at `MAX` or one more. A thread learns its
number from `pthread_self` compared with `threads[]`; the id is stored before the
thread runs. Two of the programs are families of processes over a shared
mapping: `Microbench/sharedMemory.c` forks two children, `sharedMemory2.c` makes
one by `vfork`, which suspends the parent until the child exits (`Suspended`);
neither tests whether the mapping was made (`MmapFails`).

**SharedMemPingPong** models `bench/NewProcess1.c` and `bench/NewProcess2.c`: one
access to the segment is an action; processes are started and killed at any
time, and the segment survives them. Two history variables tell the runs apart
in which the properties are promised: `torn` records that the segment was
cleared during a turn, or that a process died within one; `orderly` that both
programs were started as they must be for both to end.

**PairedRings** models seven programs with one ring or several, each with a
producer and a consumer of its own; a script says how a thread waits, whether
there is an array, whether errors of the set-up end the program, and how many
pairs it has. Five spin on the indices. `ProducerConsumerNewSemaphore.c` waits
for two counting semaphores and a third used as a mutex, one `sem_wait` or
`sem_post` being an action; its threads wait for `start`. `ProducerConsumerNew.c`
only locks: its consumer tests nothing and is kept behind the producer by two
seconds of sleep, so `overtaken` records that it was not. Neither wraps its
indices. In the two parallel programs a failed `malloc` of a thread's argument
ends the process while earlier pairs run (`MallocFails`).

**SpmcRing** models `PCB/SinglePMultipleC.cpp`. Every atomic access is an action:
the test of a consumer loads `in` and then `out`, and the wrap loads `out` and
stores it back. `raced` records that two consumers were inside a round at once,
or that somebody was misled by an index at `BUFF_MAX`. Of the two `malloc` of a
thread's arguments only one is tested: the other's failure is a crash.

**SpscRingProofs**, **AtomicRingProofs**, **LockedChainProofs**,
**SampleStoreProofs**, **PairedRingsProofs** and **PingPongProofs** hold the theorems
about one component each, **UnlockedProofs** those about `SharedMemPingPong`,
`SpmcRing` and `PerfRing`, where one side writes and another reads without a lock,
**DetectorProofs** those about `FilterTable` and `SignalSampler`. A module can only
extend several components that share no name; that is why some say `SpmcInit`,
`perf_vars` or `handler_at` where others say `Init`, `vars` or `pc`. The **MC**
modules hold the instances.

Operators named as a mutation in their comment (`SeeSpaceUntested` and the
like) are not part of the model: each is a plausible bug of the definition that
follows it, kept to show that a property notices it.

## 3. What the runs check

| Run | Instance | Shows |
|---|---|---|
| `spsc_ring` | 3 slots, 5 rounds, 2 values | `TypeOK`, `SlotRaceFree`, `FifoDelivery`, `UnreadItemsKept`, `NothingLeftBehind`, `Completes`, and that the ring implements `BoundedFifo`. Three slots are full with two items, five rounds wrap both indices; two values make a stale or repeated item visible. Each creation may fail, and `NothingLeftBehind` says over what `main` returns then. |
| `atomic_ring` | 3 slots, 7 rounds, 2 values, 2 programs | `FifoUnlessRaced`, `CompletesUnlessRaced`: the ring is a queue, and ends, as long as no spin was left on an unwrapped index. Seven rounds reach the end of the array twice and leave room for an overrun. |
| `atomic_ring_stale` | same | violated `FifoDelivery`: the consumer empties the ring, sees `in` at `BUFF_MAX` and reads slot 0 again. |
| `locked_chain` | 3 threads, 2 cells, 2 or 5 values of two kinds; 6 calls of the single-threaded program | `NothingLost`, `ImplementsFifo` through buffers that wrap, fill and empty. `Completes`: two values just fit the last buffer and the program ends, five do not and it never returns, which the comment of the file announces. |
| `sample_store` | 3 versions, 2 cores, 3 threads of 2 processes, 3 addresses, arrays of 2, `threads[]` of 2, 3 samples, 1 descriptor | `TypeOK`, `OneRecordPerThread`, `FiltersExact`, `CountsExact`, `SharingReported`, `OverlapExplained`. The processes share a page at different addresses, every address may translate to page offset 0 because its page is absent, two addresses collide in each hash, one hash is negative, one lookup of an ended process uses up the descriptors, three samples of a thread overrun its arrays, a third thread overruns `threads[]`. Three samples do not let an overrun thread share an address with a second one afterwards; `NoSharingMissed` covers any number. |
| `perf_ring` | 8 versions, 2 cores, 24 words, 4 records | `EverySampleOnce`, `AtMostOneBeyond`, `Completes`. 24 words hold two samples and no third, but a LOST and a short record after it; four records suffice for every order of kinds around the head. |
| `signal_sampler` | 2 cores, 2 samples on each | `NothingRead`, `CrashesAtSecondBuffer`, `Completes`: only the second handler is ever called, and it crashes as soon as its buffer has a record or is gone; no sample is ever printed. Two samples let signals coincide, repeat and come after the buffers were unmapped. |
| `filter_table` | 3 workloads, 3 filters, 2 pairs, arrays of 3, `threads[]` of 4, 10 bits, 5 lines, 2 rounds | `FiltersOfRound`, `PairsReported`, `CountsSinceStart`. Three filters make three pairs for an array of two; five threads overrun the filters and `threads[]`, four addresses the arrays of a thread; two addresses share their number; a second round meets what the first left. |
| `ping_pong` | 11 programs, two of them with two numbers of rounds, `MAX` 4 | `NoLostIncrement`, `Alternates`, `InStep`, `FinalCount`. `Completes`: every program ends but `Microbench/PP_NEW2.c`, whose second thread waits for the parity of a counter that none increments, and `sharedMemory2.c` with more than one round, whose child waits for the parent that `vfork` suspended. Four is two full turns of each thread and the race at the bound. |
| `shared_mem` | `ITER` 4, 3 counters, each program started twice | `OneTurn`, `InStep`, `RunsEnd`, with every order of starting, clearing and killing; two starts let a process meet what an earlier one left. |
| `paired_rings` | 7 programs, 2 pairs, 2 slots, 5 of those that never wrap, 4 rounds, 2 values | `IndicesCount`, `PairFifo`, `Completes`. Two slots are full with one item and wrap twice in four rounds; the linear buffer has one slot more than the rounds use, as in the source. |
| `spmc_ring` | 1 producer, 2 consumers, 3 slots, 9 items | `CountsUnlessRaced`, `CompletesUnlessRaced`: unless two consumers overlap or an unwrapped index misleads, the indices count the items and the program ends. |

Deadlock is not checked because all these programs end. In `perf_ring` the
versions 4 to 6 behave alike, and so do `PCB/hardcore_new2.c` and
`PCB/hardcore_test.c`, which count first where `hardcore_new2.c` does not; eight
versions make five initial states.

Bounds: `ITER`, `COUNT`, `CALLS`, `MAX`, `MAX_SAMPLES`, `MAX_RECORDS`,
`MAX_LINES`, `MAX_ROUNDS` and `RUNS` bound the loops and the environment;
`BUFF_MAX`, `LINEAR`, `MAX` of the chain, `UNIQUE`, `THREAD_MAX`, `MAX_FILTERS`,
`PAIRS` of the filters and `CAP` shrink the arrays so that they wrap and overflow
within the bounds. Where a write leaves its array, the model follows it if the
source fixes what lies there (the struct of a thread) or names the choices (`P[]`)
and otherwise ends in the stage `"overrun"`; the properties say when that may
happen.

Fairness: weak fairness for each thread and each running process. The ring
threads are pinned to cores of their own and re-read memory in their spins; the
threads of the chain and of the ping-pong programs also need the kernel to give
them a mutex that others take and release repeatedly, which is assumed of the
chain alone: in the ping-pong programs and in those with semaphores the holder
cannot take the lock for ever, because its turn is over or its rounds come to
an end. In `SignalSampler` the program and the handler each go on, so a pending
signal is delivered in the end; nothing says when. No fairness is assumed of the
user who starts and kills processes, nor of the kernel's writes. The safety
properties use none.

## 4. What is proved

`SpscRing`, for every `BUFF_MAX`, `ITER` and `Items`: the inductive invariant
`IInv` conjoins the types, `TestsStayTrue` (what each control point has
established about the other thread's index, and keeps), `CountersAgree` (the loop
counters are the lengths of the histories), `FifoDelivery` and
`UnreadItemsKept`. The last is not inductive without `TestsStayTrue`: that a
write hits a free slot follows from the full test two steps earlier. From it
follow `TypeCorrect`, `FifoSafety`, `NoOverwrite`, `RaceFreedom`, `AllMoved` and
`Refinement`, that the ring implements `BoundedFifo` with `BUFF_MAX - 1` places
(`PublishIn` is `Put`, `ReleaseOut` is `Take`, every other step stutters).

`AtomicRing`, for every `BUFF_MAX`, `ITER` and `Items`: `IndicesSafe`, that no
thread accesses a slot outside the array although an index stands at `BUFF_MAX`
between the two steps of its increment, and `QueueUnlessRaced`, that the ring is a
queue unless `raced`. The occupied slots are those between `Home(out)` and
`Home(in)`, the indices as they will be once wrapped, so that a wrap changes
nothing and the increment is the step that moves an item. `TestsStayTrue` is the
central part again: a test may be taken for true of the other's wrapped index
exactly when it is not one of the two that `raced` records. Together with the
violation in `atomic_ring_stale` this shows that the race is real and the only
one. `Refinement` states it as an implementation: up to a race the ring is a
`BoundedFifo` with `BUFF_MAX - 1` places (`BumpIn` is `Put`, `BumpOut` is `Take`).

`LockedChain`, for every `N`, `MAX`, `COUNT` and `CALLS` and both programs:
`NoValueLost` states `NothingLost`, and `Refinement` that every buffer implements
`BoundedFifo` with `MAX` places (`insert_into_buffer` is `Put`,
`delete_from_buffer` is `Take` on one buffer, every other step stutters). The
invariant says of each buffer (`BufferOK`) that its indices are both in the array
or both -1 and that what was inserted is what was deleted followed by what lies
between them; of the threads, that nobody inserts before `main` started it
(`Control`) and that the last value a thread deleted is inserted or in its hand
(`HandOver`). The indices alone do not tell a full buffer from an empty one; the
-1 does, and that it is set exactly when the last value leaves is what the proof
of a deletion shows.

`SharedMemPingPong`, for every `ITER`, `LAST` and `RUNS`: `TurnsExclusive` states
`OneTurn`, `CountersEqual` states `InStep`. While the segment is not `torn`, a process in
its turn still sees its own parity (`TurnHeld`), what it loaded is still there
when it stores (`LoadStays`), the cells P1 has passed while clearing are 0
(`Cleared`), and a counter is one ahead of `ar[0]` exactly if the process in its
turn has incremented it (`Counted`). None of the four is inductive alone: a store
keeps the others' turns because `ar[0]` is incremented last, and clearing cannot
meet a turn because `ar[0]`, cleared first, has the parity of P1, who is clearing.

`SampleStore`, for every number of cores, samples and threads, every array
length of at least 2 and every hash into the filter: `StoreInv` relates each
record to the history of samples: the filter is the image of the sampled
addresses, and every entry the search may find was sampled. The second part is
what makes the first inductive: a known address needs no new bit, because it was
entered when its bit was. It gives `OneRecord` and `FilterExactness`, in all three
versions. `NoSharingMissed` states `SharingReported`: exact filters make the
overlap of two threads with a common address contain its bit, `ReportInv` (the
report printed at the end is that of the samples taken, and there are none before
the sampling) carries it to the report, and the count of a set with a member is
positive.

With the invariant that every list holds addresses of its own kind (`Kinds`)
follows `TypeCorrect`, which states `TypeOK`. `OverlapCauses` states
`OverlapExplained` under the hypothesis `FD_MAX # 0`, that the process may
open descriptors at all. It does not say that a reported physical overlap is
shared memory, because that is not so: `virt_to_phys_user` never tests
`entry.present`, so an absent page, whose frame number is 0, is stored under its
page offset, and two threads of different processes with absent pages at one
offset are reported as sharing. What holds while all sampled processes live is
that there are three causes and no other: a sample of each thread touched the
same memory, two different translations have one hash, or the translations are
equal because one of the pages was absent. TLC finds a report for each of the
three: leaving any of them out of the property makes it false. What is excluded is a fourth cause, the value 1 that all failed lookups
share: a descriptor stays open only after the lookup of a process that is gone,
so while all live no lookup fails, and every stored translation is the memory
touched or the page offset (`Told` in `LiveInv`). When one of the processes has
ended that cause is there, and nothing is promised.

`CountsKept` states `CountsExact`. Its invariant (`CountInv`) says, while no array was
overrun, that a list has each sampled address once, with the number of its samples
(`Counted`); that the arrays were not overrun before a sample gives the room its
entry needs. The total of the filter's counts is a fold over a set, and the
library's induction over finite sets cannot be applied. Instead `SumCounts` shows
for any finite set that the fold is the number of the units counted (`Units`, pairs
of a bit and a number up to its count): both solve the equation the fold is the
choice of (`SumStep`), and a least subset on which they differed, which the
well-founded order of subsets would provide (`LeastSubset`), does not exist. A
sample adds one unit at most, and exactly one for a new entry.

`PairedRings`, for every `BUFF_MAX`, `LINEAR`, `ITER`, `PAIRS` and set of items
and for all seven programs: `CountsKept` states `IndicesCount`, `PairsDeliver`
states `PairFifo`. An index is a function of the rounds its owner has done
(`Place`: modulo in a ring, the number itself in an array that is never wrapped,
whose length is then what bounds the rounds), so that the occupied slots are known
from the lengths of two histories (`Content`). `Room` is the inductive part: what
a test, or the value of a semaphore, has told a thread about the number of items
stays true until it has acted on it; for the semaphores it is an equation between
each of them, the number of items and the control points of the two threads. Pairs
share no variable but `start` and `mutex`, so a step of one keeps the others'
parts (`Assembled`). `Refinement` follows from it: where the slots are used, each
pair's buffer implements `BoundedFifo` (`Publish` is `Put`, `Release` is `Take`), a
ring with `BUFF_MAX - 1` places and an array that is never wrapped with `LINEAR`,
up to a consumer's overtaking its producer.

`PingPong`, for every even `MAX` and all thirteen scripts: `NothingLost` states
`NoLostIncrement`, `InAlternation` `Alternates`, `LevelWhenFree` `InStep`,
`FinalCounts` `FinalCount`. First each script is shown to have some facts in common
with the others (`Fit`: whose turns increment a counter, under which lock, with
which parity, what ends the loop); the rest of the proof uses these alone. The
invariant says that the parity a thread has seen stays until it has incremented
(`InTurn`), that what it loaded is not stale (`Loaded`), that it holds its lock
(`Holds`), and between two increments has made only the first (`Lagging`); that the
counters of one turn are equal but for a thread between the two (`Level`), are the
sums of what each side counted (`Sums`) and stay within `MAX` and one
(`Limits`). Without a mutex it is the parity that excludes: no two threads have
the turn of one counter, because only the increment changes it.

`FilterTable`, for every length of its arrays, every number of bits, lines and
rounds, and whatever `perf` reports: all three properties of the run are proved.
`FiltersExact` states `FiltersOfRound`. Its invariant `FilterInv` says what each
filter is the image of (`FilterOf`; the hash is the remainder of a fold, of which
the proof assumes nothing), that a thread has one filter, and who is without
(`WithoutFilter`);
and that no sample of a round precedes the clearing of the filters
(`RoundsPassed`), which is why nothing of an earlier round is left. `CountsExact`
states `CountsSinceStart`: as long as a thread's addresses fit its arrays, the
first `n` entries are its addresses, each once (`Exact`), and that property cannot
come back once it was lost, because addresses are only added. `PairsAll` states
`PairsReported` under the hypothesis `MAX_FILTERS <= PAIRS` (20 and 100 in the
code). Behind the end of `P[]` an insertion may set `pair_index` back, so that
entries are forgotten or overwritten by half; the invariant that survives this is
that every entry `checkPair` reads is a pair that was looked at before
(`PairsPassed`), so that a pair is passed by only if its mirror image has a row. As
long as the pairs fit (`Fits`), `P[]` is exactly the rows in order (`PairsExact`),
and `pair_index` a sum in closed form from which it follows that the end is not
reached. The run checks the same property with two places for three filters,
outside the hypothesis.

`SpmcRing`, for every `N`, `BUFF_MAX` and `ROUNDS`: `IndicesCountUnlessRaced` states
`CountsUnlessRaced`. The invariant `SpmcInv` says, while nothing `raced`, that the
distance of the indices, each taken to where its wrap will put it (`Home`,
`Between`), is the number of items produced and not consumed, and that a producer
past its test has room for one more (`Indices`); and that a consumer's view is not
stale (`Loaded`): what it loaded of `in` is no further from `out` than there are
items, after the test there is one for it, only one consumer is between its
`fetch_add` and its wrap, and what that one loaded of `out` still is `out`. The last
two are what a second consumer breaks, and `raced` records exactly that. How much
all consumers have taken is a fold over their counts, equated with a number of
units as in `SampleStore`.

`PerfRing`, for every `CORES`, `CAP` and `MAX_RECORDS` and all eight versions:
`ReadsEverySampleOnce` states `EverySampleOnce`, `ReadsAtMostOneBeyond`
`AtMostOneBeyond`. `PerfInv` says of a buffer that its records neither overlap nor
leave a gap up to its head (`RingOK`), so that from every record one comes to the
next by its length and in the end to any boundary, which the head that was read is
and stays (`HeadFound`); that the copy holds what the buffer does before it
(`Copied`); and of the walk that it stands at a record before the head, having
handed on the samples before that (`Before`), or at the head (`AtSize`), or has
passed it (`Past`). At the head the loop goes on only if the last record was not
stepped over in full, and that is the case `OneBeyond`. A sample is stepped over in
full because every version parses all the fields it asks for (`Versions8`), and
with the events disabled what lies at the head is 0 and no sample.

`SignalSampler`, for every `MAX_SAMPLES`: `HandlersReadNothing` states `NothingRead`,
`HandlerCrashes` `CrashesAtSecondBuffer`. `SignalInv` says that no handler but the
second ever runs, hence that `data` is not allocated; that a copy is only begun for
a buffer that has records makes the second theorem hold.

So every safety invariant and every action property that a passing run checks is
stated by a theorem; TLC has checked each inductive invariant on the instance
of its run. The assumptions are the named ones of the modules: sizes are natural
numbers, positive where the source has arrays of that size, `ITER` or `MAX` is even
where turns alternate, and `Programs` and the like hold the versions the modules
define and nothing else. Two theorems have a hypothesis, `FD_MAX # 0` and
`MAX_FILTERS <= PAIRS`, named above. Only model-checked are:

- `Completes`, `CompletesUnlessRaced`, `RunsEnd` and the other liveness properties:
  beyond the prover, as is `ENABLED`;
- that `AtomicRing` violates `FifoDelivery`: a counterexample, not a theorem.

## 5. Disagreements between the code and its comments

Shown by a run:

1. `Microbench/ProducerConsumer.cpp:229` says the ring works because `in` and
   `out` have a single writer each. It does not: `fetch_add` and modulo are two
   steps, and an item is delivered twice (`atomic_ring_stale`).

Met while modelling, without a run of their own:

2. `hardcore_new6.c:99` documents 1 as the failure of `virt_to_phys_user`; line
   1041 stores it as an address, so two threads whose process ended appear to
   share memory. So do two threads of live processes with absent pages at one page
   offset: line 90 decodes `entry.present`, and line 128 computes with the frame
   number without testing it. `OverlapExplained` says nothing when a process has
   ended, and names the absent page as one cause of an overlap.
3. `Microbench/ProducerConsumer.cpp:176`: the same two steps on `out` let the
   producer overrun a full ring.
4. `PCB/SinglePMultipleC.cpp:59` makes `out` atomic because several consumers
   modify it; test and increment are still two steps, and two consumers can take
   one item (the case `raced` excludes in `CountsUnlessRaced`).
5. `hardcore_new6.c:594` prints "overflow!" only above the size of the buffer
   plus a page, which never happens: a full buffer makes the kernel drop records
   silently. Line 618 copies that page too many.
6. `hardcore_new6.c:625` tests the offset of the last parsed record, so a last
   record that is no sample makes it look one header too far; where
   `IOC_REFRESH` with 0 left the events running, it prints what it finds there.
7. `hardcore_new6.c:1055` takes an address that the search misses for a new one;
   after an overrun of the arrays it may be a known one.
8. `hardcore_new6.c:880` prints entries of two independent lists as pairs.
9. `Microbench/PP_NEW2.c:1` announces alternation on every count; its first
   thread counts to the end alone, its second waits for ever, and `main` for it.
10. `hardcore_new5.c:667`, and `hash` of `hardcore_new4.c:662`: the
    product of the hash overflows, so its remainder may be negative and the
    filter is written before its first bit.
11. `PCB/hardcore_new.c:309` registers a second handler for the signal of the
    first and thereby replaces it; what both copy to is allocated by the first
    alone.
12. `perf2_new.c:181`: 20 filters make 190 pairs, `P[]` has room for 100. With
    `pair_index` behind it pairs are compared twice; none is left out.
13. `perf2_new.c:532`: `threads[]` is filled over all rounds and its end is not
    tested.
14. `Microbench/ProducerConsumerNew.c:54` reads without a test that anything was
    produced (the case `overtaken` excludes in `PairFifo`).

Where a defect is one the program has, a property cannot forbid it and hold.
The properties then exclude it by a history variable and say that it is the only
way to fail; what happens behind it is not judged:

- `raced` (`AtomicRing`): both threads' races on an index at `BUFF_MAX` and the
  hang after one. `atomic_ring_stale` exhibits the consumer's.
- `raced` (`SpmcRing`): two consumers in one round, the counts and the hang that
  follow.
- `torn` and `orderly` (`SharedMemPingPong`): a death within a turn, a clearing
  during a turn of P2, and for the liveness property a start out of order.
- `overtaken` (`PairedRings`): a consumer that read before its producer wrote.

## 6. Plan

Done: every component of section 1 but the page-map tools and what is listed
below as not modelled. Left, in this order:

1. proofs: what is left of `SpmcRing` once it `raced` (how far the indices can run);
2. `SampleStore` fed by `PerfRing`, for the samples a full buffer drops;
3. a variant of `SpscRing` with store buffers.

## 7. Not modelled

- `physical/*.c` and `Microbench/testVP.c`: command-line readers of
  `/proc/<pid>/pagemap` whose result depends on the kernel alone; the translation
  as the detector uses it is in `SampleStore`.
- `Microbench/MSQueue.cpp` and `Microbench/ThreeFriends.c`: they do not compile.
- `Microbench/DataRace.c`: a race on purpose, with no promise to check.
- `Microbench/SimpleSM.c` and `Microbench/shmget.c`: a hand-over of letters, and a
  segment that is created and printed.
- `PCB/hardcore.c`, `displaySample` and the decoding of data sources in all
  versions: they only print.
- `murmurhash/`: vendored; the hash is a constant of `SampleStore`.
