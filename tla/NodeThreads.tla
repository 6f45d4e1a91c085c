---------------------------- MODULE NodeThreads ----------------------------
(***************************************************************************)
(* Node threads that share a runtime.  They meet in the barriers of the    *)
(* port (PortBarrier); in the callbacks in between they open and close     *)
(* critical sections (SharedResources) and write trace events (TraceRing). *)
(* A thread does one thing at a time, and leaves a callback with no        *)
(* section open, as in docs/user-c.md.                                     *)
(***************************************************************************)
EXTENDS SharedResources, TraceRing, PortBarrier

CONSTANT Callbacks    \* bound: those of "evaluate", "deferred", "dump" that do so

ASSUME ThreadsAssumption == Writers = Nodes /\ Threads = Nodes

vars == <<resourceVars, traceVars, barrierVars>>

Init == ResourcesInit /\ TraceInit /\ BarrierInit

(* An event carries the resource whose section it was written in.          *)
MarkOf(n) == IF section[n] = "inside" THEN resource[n] ELSE Nobody

UseResource(n) ==
  /\ stage[n] \in Callbacks
  /\ stamp[n] = 0
  /\ ResourceStep(n)
  /\ UNCHANGED <<traceVars, barrierVars>>

Trace(n) ==
  /\ stage[n] \in Callbacks
  /\ section[n] \in {"none", "inside"}
  /\ Stamp(n) \/ Store(n, MarkOf(n)) \/ Overwrite(n)
  /\ UNCHANGED <<resourceVars, barrierVars>>

Meet(n) ==
  /\ stamp[n] = 0 /\ section[n] = "none"
  /\ BarrierStep(n)
  /\ UNCHANGED <<resourceVars, traceVars>>

Gather ==
  /\ \E members \in SUBSET Nodes : OpenGroup(members)
  /\ UNCHANGED <<resourceVars, traceVars>>

Export == Exporter /\ UNCHANGED <<resourceVars, barrierVars>>

Next ==
  \/ Export \/ Gather
  \/ \E n \in Nodes : UseResource(n) \/ Trace(n) \/ Meet(n)

Spec == Init /\ [][Next]_vars
-----------------------------------------------------------------------------
(* Two threads may store their events in the other order than they read    *)
(* the clock, but not within critical sections on one resource: there the  *)
(* trace shows the accesses in the order they took place (trace.c:182      *)
(* with runtime.c:186).                                                    *)
SectionsInOrder ==
  \A i, j \in DOMAIN log :
    i < j /\ log[i].mark # Nobody /\ log[i].mark = log[j].mark =>
      log[i].time < log[j].time
=============================================================================
