----------------------------- MODULE TraceRing -----------------------------
(***************************************************************************)
(* The ring of trace events (c/src/trace.c): node threads write through    *)
(* rx_trace_write while another thread may run rx_trace_export.            *)
(*                                                                         *)
(* A writer reads the clock first and stores the event under the lock      *)
(* afterwards.  The export takes its counters under the lock and copies    *)
(* the events without it, while a writer may be in the middle of one: the  *)
(* 16 bytes of a slot are modelled as two words, its time and the rest of  *)
(* it, written and copied one at a time.  log is the history of everything *)
(* stored; a word of a slot holds the position in log of the event it is   *)
(* of, 0 when unused.                                                      *)
(***************************************************************************)
EXTENDS Naturals, Sequences

CONSTANTS
  Writers,       \* the threads that trace
  Capacity,      \* RX_TRACE_MAX_EVENTS
  HeadModulus,   \* 2^32, the range of the uint32_t counters
  MaxEvents      \* bound: events in one behaviour, and one export of them

(* 512 divides 2^32; a capacity set with -D has to do so as well.          *)
ASSUME TraceAssumption ==
  /\ Capacity \in Nat \ {0} /\ HeadModulus \in Nat \ {0}
  /\ HeadModulus % Capacity = 0 /\ HeadModulus > Capacity
  /\ MaxEvents \in Nat

VARIABLES
  clock,     \* RX_TRACE_NOW_NS: every reading is later than the one before
  stamp,     \* the local t of a thread inside rx_trace_write, or 0
  lock,      \* lock: the writer that holds it, if there is one
  ring,      \* ev[]
  head,      \* head
  stored,    \* n
  dropped,   \* dropped
  log,       \* history: the events, in the order they were stored
  export     \* rx_trace_export: its local counters and what it has written

traceVars == <<clock, stamp, lock, ring, head, stored, dropped, log, export>>

Words == {"time", "rest"}

Idle == [n |-> 0, head |-> 0, out |-> <<>>, from |-> 0]

TraceInit ==
  /\ clock = 0
  /\ stamp = [w \in Writers |-> 0]
  /\ lock = {}
  /\ ring = [i \in 0 .. Capacity - 1 |-> [p \in Words |-> 0]]
  /\ head = 0 /\ stored = 0 /\ dropped = 0
  /\ log = <<>>
  /\ export = Idle

(* rx_trace_write reads the clock, before it asks for the lock.            *)
Stamp(w) ==
  /\ stamp[w] = 0
  /\ clock < MaxEvents
  /\ clock' = clock + 1
  /\ stamp' = [stamp EXCEPT ![w] = clock + 1]
  /\ UNCHANGED <<lock, ring, head, stored, dropped, log, export>>

(* It takes the lock and has written the time.  (For a thread that reads   *)
(* without the lock the words may appear in the other order; as it reads   *)
(* one after the other itself, it can find the same pairs.)                *)
Overwrite(w) ==
  /\ stamp[w] # 0
  /\ lock = {} /\ lock' = {w}
  /\ ring' = [ring EXCEPT ![head % Capacity].time = Len(log) + 1]
  /\ UNCHANGED <<clock, stamp, head, stored, dropped, log, export>>

CountOnce ==                             \* mutant: an overwrite is not counted
  /\ stored' = IF stored < Capacity THEN stored + 1 ELSE stored
  /\ dropped' = IF stored + 1 < Capacity THEN dropped ELSE dropped

Count ==
  /\ stored' = IF stored < Capacity THEN stored + 1 ELSE stored
  /\ dropped' = IF stored < Capacity THEN dropped ELSE (dropped + 1) % HeadModulus

(* The rest of rx_trace_write: the other word and the counters, which are  *)
(* read only under the lock, and the lock is released.                     *)
Store(w, mark) ==
  /\ w \in lock /\ lock' = {}
  /\ ring' = [ring EXCEPT ![head % Capacity] = [p \in Words |-> Len(log) + 1]]
  /\ head' = (head + 1) % HeadModulus
  /\ Count
  /\ log' = Append(log, [time |-> stamp[w], mark |-> mark])
  /\ stamp' = [stamp EXCEPT ![w] = 0]
  /\ UNCHANGED <<clock, export>>

(* rx_trace_export takes its counters under the lock, ...                  *)
Snapshot ==
  /\ export.from = 0 /\ Len(log) > 0 /\ lock = {}
  /\ export' = [n |-> stored, head |-> head, out |-> <<>>, from |-> Len(log)]
  /\ UNCHANGED <<clock, stamp, lock, ring, head, stored, dropped, log>>

FirstOfHead == export.head % Capacity    \* mutant: as if the ring were full

(* (head - n) % RX_TRACE_MAX_EVENTS, in 32 bits.                           *)
First == ((export.head + HeadModulus - export.n) % HeadModulus) % Capacity

(* ... and copies the slots from the oldest on, word by word, without it.  *)
Copy ==
  /\ Len(export.out) < 2 * export.n
  /\ LET slot == (First + Len(export.out) \div 2) % Capacity
         word == IF Len(export.out) % 2 = 0 THEN "time" ELSE "rest"
     IN export' = [export EXCEPT !.out = Append(@, ring[slot][word])]
  /\ UNCHANGED <<clock, stamp, lock, ring, head, stored, dropped, log>>

Exporter == Snapshot \/ Copy
-----------------------------------------------------------------------------
Oldest == Len(log) - stored + 1

(* The ring is the end of the log: the last n events, each in the slot     *)
(* where an export of this moment looks for it, but for the one that is    *)
(* being overwritten; and the rest is counted in dropped, also after the   *)
(* counters have wrapped (trace.c:186-200).                                *)
RingIsLogSuffix ==
  /\ stored \in 0 .. Capacity
  /\ Len(log) % HeadModulus = head
  /\ (stored + dropped) % HeadModulus = head
  /\ stored < Capacity => Len(log) = stored
  /\ \A k \in Oldest .. Len(log), p \in Words :
       lock = {} \/ (k - 1) % Capacity # head % Capacity => ring[(k - 1) % Capacity][p] = k

(* Both words of an event of an export are those of the event its counters *)
(* promised, or of a later one that has been written over it since: never  *)
(* of an older one, nor of a slot that was never written.  An event is     *)
(* torn, its words of two events, only where a writer has come round to    *)
(* its slot while the export ran (trace.c:300-310).                        *)
ExportNeverStale ==
  \A i \in 1 .. Len(export.out) :
    LET promised == export.from - export.n + (i + 1) \div 2 IN
    /\ export.out[i] >= promised
    /\ export.out[i] # promised => export.out[i] > export.from
=============================================================================
