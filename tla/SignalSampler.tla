--------------------------- MODULE SignalSampler ---------------------------
(***************************************************************************)
(* PCB/hardcore_new.c, the version of the detector that reads the samples  *)
(* in a signal handler.  sample() opens one event for each of two cores,   *)
(* maps a buffer for each, and asks for SIGIO at every sample; a handler   *)
(* was written for each buffer.  The handler interrupts sample() between   *)
(* any two of its steps, and the cores record beside both.                 *)
(*                                                                         *)
(* What one core has recorded is a number of records; the buffers hold     *)
(* them all.  Numbers of cores, maps and handlers are those of the source. *)
(***************************************************************************)
EXTENDS Integers, Sequences, SequencesExt

CONSTANT MAX_SAMPLES   (* bound: samples taken on each core                  *)

ASSUME SignalAssumption == MAX_SAMPLES \in Nat

Cores == {1, 2}

VARIABLES
  main_at,    (* control point of main and sample                           *)
  handler,    (* the handler registered for SIGIO, 0 for none               *)
  handler_at, (* control point of the handler                               *)
  pending,    (* SIGIO is pending                                           *)
  maps,       (* the buffers that are mapped                                *)
  enabled,    (* the events that run                                        *)
  sampled,    (* history: samples taken on each core                        *)
  data_head,  (* records in each buffer                                     *)
  prev_head,  (* prev_head and prev_head2                                   *)
  allocated,  (* which of data and data2 are not NULL                       *)
  base, size, (* locals of the handler: first record and number of records  *)
  got         (* history: the records printed, as <<map, record>>           *)

kernel      == <<enabled, sampled, data_head>>
memory      == <<prev_head, allocated, base, size, got>>
signal_vars == <<main_at, handler, handler_at, pending, maps, kernel, memory>>

-----------------------------------------------------------------------------
(* The kernel *)

Alive == main_at \notin {"done", "exited", "crashed"}

(* An event samples until its descriptor is closed: IOC_REFRESH with 0     *)
(* does not stop it.  Without a buffer the sample is dropped but signalled.*)
Sample(c) ==
  /\ Alive /\ c \in enabled /\ sampled[c] < MAX_SAMPLES
  /\ sampled' = [sampled EXCEPT ![c] = @ + 1]
  /\ data_head' = [data_head EXCEPT ![c] = IF c \in maps THEN @ + 1 ELSE @]
  /\ pending' = TRUE
  /\ UNCHANGED <<main_at, handler, handler_at, maps, enabled, memory>>

(* Records of forks, exits and maps are written without a signal.          *)
Note(c) ==
  /\ Alive /\ c \in enabled /\ c \in maps /\ data_head[c] <= sampled[c]
  /\ data_head' = [data_head EXCEPT ![c] = @ + 1]
  /\ UNCHANGED <<main_at, handler, handler_at, pending, maps, enabled, sampled, memory>>

-----------------------------------------------------------------------------
(* main, count_events and sample; they run while no handler does *)

SignalInit ==
  /\ main_at = "counting" /\ handler = 0 /\ handler_at = "idle" /\ pending = FALSE
  /\ maps = {} /\ enabled = {}
  /\ sampled = [c \in Cores |-> 0] /\ data_head = [c \in Cores |-> 0]
  /\ prev_head = [c \in Cores |-> 0] /\ allocated = {}
  /\ base = 0 /\ size = 0 /\ got = << >>

Step(from, to) == main_at = from /\ main_at' = to /\ handler_at = "idle"

CountEvents ==
  /\ Step("counting", "registering") \/ Step("counting", "exited")
  /\ UNCHANGED <<handler, handler_at, pending, maps, kernel, memory>>

(* Mutation: the handlers are registered in the opposite order.            *)
RegistrationsSwapped == <<2, 1>>

(* sigaction(SIGIO, &sa) and then sigaction(SIGIO, &sa2)                   *)
Registrations == <<1, 2>>

Register ==
  /\ \/ Step("registering", "opening") /\ handler' = Last(Registrations)
     \/ Step("registering", "exited") /\ UNCHANGED handler
  /\ UNCHANGED <<handler_at, pending, maps, kernel, memory>>

(* An event that does not open ends the program; a map that fails is not   *)
(* noticed.                                                                *)
Open ==
  /\ \/ Step("opening", "enable1") /\ maps' \in SUBSET Cores
     \/ Step("opening", "exited") /\ UNCHANGED maps
  /\ UNCHANGED <<handler, handler_at, pending, kernel, memory>>

Enable(c, from, to) ==
  /\ Step(from, to)
  /\ enabled' = enabled \cup {c}
  /\ UNCHANGED <<handler, handler_at, pending, maps, sampled, data_head, memory>>

(* nanosleep ends after its time or after a handler ran; then both events  *)
(* are refreshed and their counts read and printed.                        *)
Wake ==
  /\ Step("sleeping", "unmap1")
  /\ UNCHANGED <<handler, handler_at, pending, maps, kernel, memory>>

Unmap(c, from, to) ==
  /\ Step(from, to)
  /\ maps' = maps \ {c}
  /\ UNCHANGED <<handler, handler_at, pending, kernel, memory>>

Close(c, from, to) ==
  /\ Step(from, to)
  /\ enabled' = enabled \ {c}
  /\ UNCHANGED <<handler, handler_at, pending, maps, sampled, data_head, memory>>

Main ==
  \/ CountEvents \/ Register \/ Open
  \/ Enable(1, "enable1", "enable2") \/ Enable(2, "enable2", "sleeping")
  \/ Wake
  \/ Unmap(1, "unmap1", "unmap2") \/ Unmap(2, "unmap2", "close1")
  \/ Close(1, "close1", "close2") \/ Close(2, "close2", "done")

-----------------------------------------------------------------------------
(* our_handler1 and our_handler2 *)

(* SIGIO is blocked while its handler runs.                                *)
Deliver ==
  /\ Alive /\ pending /\ handler_at = "idle" /\ handler # 0
  /\ pending' = FALSE /\ handler_at' = "head"
  /\ UNCHANGED <<main_at, handler, maps, kernel, memory>>

(* Without F_SETSIG si_fd is 0 whichever event signalled, so disabling and *)
(* refreshing it does nothing.  Each handler reads the head of its own     *)
(* buffer and allocates its own copy, but both place the first record by   *)
(* prev_head, the first handler's.                                         *)
ReadHead ==
  /\ handler_at = "head"
  /\ IF handler \in maps
     THEN /\ size' = data_head[handler] - prev_head[handler]
          /\ base' = prev_head[1]
          /\ prev_head' = [prev_head EXCEPT ![handler] = data_head[handler]]
          /\ allocated' = allocated \cup {handler}
          /\ handler_at' = IF size' = 0 THEN "return" ELSE "copy"
          /\ UNCHANGED main_at
     ELSE main_at' = "crashed" /\ handler_at' = "idle" /\ UNCHANGED <<prev_head, allocated, base, size>>
  /\ UNCHANGED <<handler, pending, maps, kernel, got>>

(* Both handlers copy to data, and print what they copied.                 *)
Copy ==
  /\ handler_at = "copy"
  /\ IF 1 \in allocated
     THEN /\ got' = got \o [k \in 1 .. size |-> <<handler, base + k>>]
          /\ handler_at' = "return" /\ UNCHANGED main_at
     ELSE main_at' = "crashed" /\ handler_at' = "idle" /\ UNCHANGED got
  /\ UNCHANGED <<handler, pending, maps, kernel, prev_head, allocated, base, size>>

(* Mutation: the signal stays pending after it was handled.                *)
ReturnPending ==
  /\ handler_at = "return" /\ handler_at' = "idle" /\ size' = 0 /\ base' = 0
  /\ pending' = TRUE
  /\ UNCHANGED <<main_at, handler, maps, kernel, prev_head, allocated, got>>

Return ==
  /\ handler_at = "return" /\ handler_at' = "idle" /\ size' = 0 /\ base' = 0
  /\ UNCHANGED <<main_at, handler, pending, maps, kernel, prev_head, allocated, got>>

Handler == Alive /\ (Deliver \/ ReadHead \/ Copy \/ Return)

SignalNext == Main \/ Handler \/ \E c \in Cores : Sample(c) \/ Note(c)

SignalSpec == SignalInit /\ [][SignalNext]_signal_vars

(* A signal that is pending is delivered before the program goes on for    *)
(* ever, and a handler runs to its end.                                    *)
SignalFairSpec == SignalSpec /\ WF_signal_vars(Main) /\ WF_signal_vars(Handler)

-----------------------------------------------------------------------------
(* Properties *)

(* The program prints no sample whatever is sampled: the second            *)
(* registration replaces the first, so our_handler2 alone runs, data is    *)
(* never allocated, and to copy into it crashes.                           *)
NothingRead == got = << >>

(* It crashes only in a handler, and only once the second core recorded    *)
(* something or its buffer was not mapped, any more or at all.             *)
CrashesAtSecondBuffer ==
  [][main_at # "crashed" /\ main_at' = "crashed" => handler_at # "idle" /\ (data_head[2] > 0 \/ 2 \notin maps)]_signal_vars

(* The program ends, however many signals interrupt it.                    *)
Completes == <>~Alive
=============================================================================
