------------------------------ MODULE PerfRing ------------------------------
(***************************************************************************)
(* How the detectors take their samples out of the kernel's buffers.       *)
(* sample() opens one event per core, maps its buffer, lets the kernel     *)
(* write for a while, stops the events and calls perf_mmap_read for one    *)
(* core after the other.  perf_mmap_read reads data_head, copies the       *)
(* buffer, and walks over the records of the copy: loffset is where the    *)
(* current record starts, offset is how far the record was parsed, and the *)
(* loop goes on while offset < size.                                       *)
(*                                                                         *)
(* The versions of the detector differ in how sample() stops the events.   *)
(* Positions are counted in words of 8 bytes, the size of a record header. *)
(* Of a record the model keeps its kind and the word it starts at, which   *)
(* identifies it.                                                          *)
(***************************************************************************)
EXTENDS Integers, Sequences, SequencesExt

CONSTANTS
  CORES,        (* number of cores; 10, or 2 in the first versions          *)
  CAP,          (* words of a buffer: PAGE_COUNT pages                      *)
  MAX_RECORDS,  (* bound: records the kernel writes, over all buffers       *)
  Programs      (* the versions of the detector to check, see below         *)

Cores == 0 .. CORES - 1

-----------------------------------------------------------------------------
(* The versions: what perf_mmap_read parses of a sample, one word for each *)
(* of these sample_type bits ...                                           *)

Fields == {"IP", "TID", "TIME", "ADDR", "ID", "STREAM_ID", "CPU", "PERIOD", "WEIGHT", "DATA_SRC"}

parsed_new6     == [fields |-> Fields, sink |-> "storeSample"]
parsed_new5     == [fields |-> Fields, sink |-> "storeSample"]
parsed_new4     == [fields |-> Fields, sink |-> "storeSample"]
parsed_new3     == [fields |-> Fields, sink |-> "printf"]
parsed_PCB_new3 == [fields |-> Fields, sink |-> "printf"]
parsed_new2     == [fields |-> Fields, sink |-> "printf"]
parsed_PCB_new2 == [fields |-> Fields, sink |-> "printf"]
parsed_PCB_test == [fields |-> Fields, sink |-> "printf"]

(* ... what main may do after count_events: a counter that does not open   *)
(* ends the program, and some versions sample only above a threshold ...   *)

counted_new6     == {"opening", "exited", "done"}
counted_new5     == {"opening", "exited", "done"}
counted_new4     == {"opening", "exited", "done"}
counted_new3     == {"opening", "exited"}
counted_PCB_test == {"opening", "exited"}
counted_PCB_new2 == {"opening", "exited"}
uncounted        == {"opening"}

(* ... and what sample() asks the kernel for, and the ioctl that is to     *)
(* stop the events before the buffers are read.  IOC_REFRESH with 0 leaves *)
(* a running event running.                                                *)

Asked == {"IP", "TID", "ADDR", "CPU", "PERIOD", "WEIGHT", "DATA_SRC"}

hardcore_new6     == [read |-> parsed_new6, asked |-> Asked, counts |-> counted_new6, stop |-> "DISABLE"]
hardcore_new5     == [read |-> parsed_new5, asked |-> Asked, counts |-> counted_new5, stop |-> "DISABLE"]
hardcore_new4     == [read |-> parsed_new4, asked |-> Asked, counts |-> counted_new4, stop |-> "DISABLE"]
hardcore_new3     == [read |-> parsed_new3, asked |-> Asked, counts |-> counted_new3, stop |-> "DISABLE"]
PCB_hardcore_new3 == [read |-> parsed_PCB_new3, asked |-> Asked, counts |-> uncounted, stop |-> "DISABLE"]
hardcore_new2     == [read |-> parsed_new2, asked |-> Asked, counts |-> uncounted, stop |-> "REFRESH"]
PCB_hardcore_new2 == [read |-> parsed_PCB_new2, asked |-> Asked, counts |-> counted_PCB_new2, stop |-> "REFRESH"]
PCB_hardcore_test == [read |-> parsed_PCB_test, asked |-> Asked, counts |-> counted_PCB_test, stop |-> "REFRESH"]

Versions ==
  {hardcore_new6, hardcore_new5, hardcore_new4, hardcore_new3, PCB_hardcore_new3,
   hardcore_new2, PCB_hardcore_new2, PCB_hardcore_test}

ASSUME PerfAssumption ==
  CORES \in Nat \ {0} /\ CAP \in Nat \ {0} /\ MAX_RECORDS \in Nat /\ Programs \subseteq Versions

-----------------------------------------------------------------------------
VARIABLES
  prog,      (* the version that runs                                       *)
  stage,     (* control point of sample and perf_mmap_read                  *)
  core,      (* the core whose buffer is read                               *)
  ring,      (* ring[c]: the records of the buffer of c                     *)
  data_head, (* data_head[c], in words                                      *)
  data_tail, (* data_tail[c], in words                                      *)
  lost,      (* the kernel dropped a record and has not yet said so         *)
  size,      (* what perf_mmap_read found of data_head                      *)
  data,      (* its copy of the buffer                                      *)
  offset, loffset,
  got        (* history: got[c], the samples handed on, in order            *)

kernel    == <<ring, data_head, lost>>
reader    == <<size, data, offset, loffset>>
perf_vars == <<prog, stage, core, kernel, data_tail, reader, got>>

-----------------------------------------------------------------------------
(* The kernel *)

Kinds == {"SAMPLE", "THROTTLE", "TASK"}

(* Length of a record: its header, and the body of its kind. *)
Words(kind) ==
  CASE kind \in {"SAMPLE", "torn"} -> 1 + Cardinality(prog.asked)
    [] kind \in {"THROTTLE", "TASK"} -> 4
    [] kind = "LOST" -> 3
    [] kind = "zero" -> 0

(* Mutation: the events are not stopped. *)
RunningOn(c) ==
  \/ stage = "sampling"
  \/ c >= core /\ stage \in {"head", "copy", "parse", "tail"}

(* The event of core c is running, and its buffer still to be read.        *)
Running(c) ==
  \/ stage = "sampling"
  \/ prog.stop = "REFRESH" /\ c >= core /\ stage \in {"head", "copy", "parse", "tail"}

LostWords(c) == IF lost[c] THEN Words("LOST") ELSE 0

(* A buffer is never filled to the last byte.  The mapping is writable, so *)
(* the kernel drops what does not fit before data_tail, which stays 0      *)
(* until the buffer was read; the next record that fits follows a LOST     *)
(* record.                                                                 *)
Fits(c, kind) == data_head[c] + LostWords(c) + Words(kind) < CAP

KernelWrites(c, kind) ==
  /\ Running(c)
  /\ MapThenSumSet(LAMBDA d : Cardinality(ring[d]), Cores) < MAX_RECORDS
  /\ Fits(c, kind)
  /\ ring' = [ring EXCEPT ![c] =
       @ \cup {[at |-> data_head[c] + LostWords(c), kind |-> kind]}
         \cup (IF lost[c] THEN {[at |-> data_head[c], kind |-> "LOST"]} ELSE {})]
  /\ data_head' = [data_head EXCEPT ![c] = @ + LostWords(c) + Words(kind)]
  /\ lost' = [lost EXCEPT ![c] = FALSE]
  /\ UNCHANGED <<prog, stage, core, data_tail, reader, got>>

KernelDrops(c, kind) ==
  /\ Running(c) /\ ~lost[c]
  /\ ~Fits(c, kind)
  /\ lost' = [lost EXCEPT ![c] = TRUE]
  /\ UNCHANGED <<prog, stage, core, ring, data_head, data_tail, reader, got>>

-----------------------------------------------------------------------------
(* main and sample *)

PerfInit ==
  /\ prog \in Programs
  /\ stage = "counting"
  /\ core = 0
  /\ ring = [c \in Cores |-> {}]
  /\ data_head = [c \in Cores |-> 0] /\ data_tail = [c \in Cores |-> 0]
  /\ lost = [c \in Cores |-> FALSE]
  /\ size = 0 /\ data = {} /\ offset = 0 /\ loffset = 0
  /\ got = [c \in Cores |-> << >>]

CountEvents ==
  /\ stage = "counting"
  /\ stage' \in prog.counts
  /\ UNCHANGED <<prog, core, kernel, data_tail, reader, got>>

(* perf_event_open, mmap, and the enabling ioctls. *)
Open ==
  /\ stage = "opening"
  /\ stage' \in {"sampling", "exited"}
  /\ UNCHANGED <<prog, core, kernel, data_tail, reader, got>>

(* The sleep is over and the ioctls were made. *)
Wake ==
  /\ stage = "sampling"
  /\ stage' = "head"
  /\ UNCHANGED <<prog, core, kernel, data_tail, reader, got>>

-----------------------------------------------------------------------------
(* perf_mmap_read *)

(* head = data_head; prev_head is 0 at every call, so size = head.  The    *)
(* test for an overflow compares with a page more than the buffer has and  *)
(* only prints.  A map that failed is not NULL and crashes here.           *)
ReadHead ==
  /\ stage = "head"
  /\ \/ /\ size' = data_head[core]
        /\ stage' = IF size' = 0 THEN "tail" ELSE "copy"
     \/ stage' = "crashed" /\ UNCHANGED size
  /\ UNCHANGED <<prog, core, kernel, data_tail, data, offset, loffset, got>>

(* The copy is a page longer than the buffer, since bytesize counts the    *)
(* control page too: it ends in whatever is mapped behind, or crashes.     *)
(* Beside the records up to size it holds those the kernel has added       *)
(* since, and when an event runs maybe the beginning of one more.          *)
Copy ==
  /\ stage = "copy"
  /\ \/ /\ stage' = "parse"
        /\ data' \in {ring[core]} \cup
             (IF Running(core) /\ Fits(core, "SAMPLE")
              THEN {ring[core] \cup {[at |-> data_head[core], kind |-> "torn"]}} ELSE {})
        /\ offset' = 0 /\ loffset' = 0
     \/ stage' = "crashed" /\ UNCHANGED <<data, offset, loffset>>
  /\ UNCHANGED <<prog, core, kernel, data_tail, size, got>>

(* The record that starts at loffset; a page nothing was written to is 0.  *)
Event == IF \E r \in data : r.at = loffset THEN CHOOSE r \in data : r.at = loffset
         ELSE [at |-> loffset, kind |-> "zero"]

(* Mutation: WEIGHT is taken for a field the kernel was not asked for. *)
ParsedWithoutWeight(kind) ==
  CASE kind \in {"SAMPLE", "torn"} -> 1 + Cardinality(prog.asked \cap (prog.read.fields \ {"WEIGHT"}))
    [] kind = "THROTTLE" -> 4
    [] OTHER -> 1

(* How many words of a record the loop steps over with offset: all of a    *)
(* sample and of a throttle record, only the header of any other.          *)
Parsed(kind) ==
  CASE kind \in {"SAMPLE", "torn"} -> 1 + Cardinality(prog.asked \cap prog.read.fields)
    [] kind = "THROTTLE" -> 4
    [] OTHER -> 1

(* Mutation: the loop advances by the length of the record only if it was  *)
(* a sample.                                                               *)
ParseSticks ==
  /\ stage = "parse" /\ offset < size
  /\ offset' = loffset + Parsed(Event.kind)
  /\ loffset' = IF Event.kind = "SAMPLE" THEN loffset + Words(Event.kind) ELSE loffset
  /\ got' = IF Event.kind \in {"SAMPLE", "torn"} THEN [got EXCEPT ![core] = Append(@, Event)] ELSE got
  /\ UNCHANGED <<prog, stage, core, kernel, data_tail, size, data>>

Parse ==
  /\ stage = "parse" /\ offset < size
  /\ offset' = loffset + Parsed(Event.kind)
  /\ loffset' = loffset + Words(Event.kind)
  /\ got' = IF Event.kind \in {"SAMPLE", "torn"} THEN [got EXCEPT ![core] = Append(@, Event)] ELSE got
  /\ UNCHANGED <<prog, stage, core, kernel, data_tail, size, data>>

EndOfRecords ==
  /\ stage = "parse" /\ offset >= size
  /\ stage' = "tail"
  /\ UNCHANGED <<prog, core, kernel, data_tail, reader, got>>

(* data_tail = head, the copy is freed, and sample() goes on to the next   *)
(* core.                                                                   *)
SetTail ==
  /\ stage = "tail"
  /\ data_tail' = [data_tail EXCEPT ![core] = size]
  /\ IF core < CORES - 1 THEN core' = core + 1 /\ stage' = "head"
                         ELSE stage' = "done" /\ UNCHANGED core
  /\ size' = 0 /\ data' = {} /\ offset' = 0 /\ loffset' = 0
  /\ UNCHANGED <<prog, kernel, got>>

Detector == CountEvents \/ Open \/ Wake \/ ReadHead \/ Copy \/ Parse \/ EndOfRecords \/ SetTail

PerfNext == Detector \/ \E c \in Cores, kind \in Kinds : KernelWrites(c, kind) \/ KernelDrops(c, kind)

PerfSpec     == PerfInit /\ [][PerfNext]_perf_vars
PerfFairSpec == PerfSpec /\ WF_perf_vars(Detector)

-----------------------------------------------------------------------------
(* Properties *)

(* The sequence s lists the records of the set S once each, in the order   *)
(* in which they were written.                                             *)
Lists(s, S) ==
  /\ \A n \in DOMAIN s : s[n] \in S
  /\ \A r \in S : \E n \in DOMAIN s : s[n] = r
  /\ \A n, m \in DOMAIN s : n < m => s[n].at < s[m].at

Sampled(c, limit) == {r \in ring[c] : r.kind = "SAMPLE" /\ r.at < limit}

(* One record after those before head, where head follows on a record      *)
(* whose body the reader does not step over.                               *)
OneBeyond(c, head) ==
  /\ got[c] # << >> /\ Lists(Front(got[c]), Sampled(c, head))
  /\ Last(got[c]).at = head
  /\ \E r \in ring[c] : r.at + Words(r.kind) = head /\ r.kind \notin {"SAMPLE", "THROTTLE"}

WasRead(c) == c < core \/ stage = "done"

(* The versions that disable the events hand on, of every buffer they      *)
(* read, every sample the kernel wrote, once and in order, whatever other  *)
(* records stand between them or at the end.                               *)
EverySampleOnce ==
  stage = "done" /\ prog.stop = "DISABLE" =>
    \A c \in Cores : Lists(got[c], {r \in ring[c] : r.kind = "SAMPLE"})

(* While the events run, a read hands on the samples before the head it    *)
(* saw; a last record that is not a sample makes it read one header too    *)
(* many, and then it hands on the record that was being written there.     *)
AtMostOneBeyond ==
  \A c \in Cores : WasRead(c) =>
    Lists(got[c], Sampled(c, data_tail[c])) \/ OneBeyond(c, data_tail[c])

(* The walk over the records ends, whatever the kernel wrote meanwhile,    *)
(* and with it the program.                                                *)
Completes == <>(stage \in {"done", "exited", "crashed"})
=============================================================================
