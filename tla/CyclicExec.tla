----------------------------- MODULE CyclicExec -----------------------------
(***************************************************************************)
(* The cyclic executive (c/src/cyclic.c): a table with one slot for every  *)
(* base period of the hyperperiod, built once, and a loop that runs one    *)
(* slot, runtime by runtime, and sleeps until the next.                    *)
(***************************************************************************)
EXTENDS Integers, FiniteSets, FiniteSetsExt

CONSTANTS
  Runtimes,       \* 0 .. ntasks - 1, in the order they were added
  NodesOf,        \* the nodes of each runtime
  Period,         \* period_us, 0 for an asynchronous node
  Deadline,       \* effective_deadline; of an asynchronous node it is unused
  MaxSlots,       \* RXNET_CE_MAX_SLOTS
  Horizon         \* bound: the clock stops here

Nodes == UNION {NodesOf[r] : r \in Runtimes}
RuntimeCount == Cardinality(Runtimes)

PeriodicNodes == {n \in Nodes : Period[n] > 0}
AsyncNodes    == {n \in Nodes : Period[n] = 0}

(* The nodes are numbered in the order their runtimes were added.          *)
ASSUME RuntimesAssumption ==
  /\ Runtimes = 0 .. RuntimeCount - 1 /\ RuntimeCount \in Nat \ {0}
  /\ \A r \in Runtimes : NodesOf[r] \subseteq Nat /\ NodesOf[r] \cap PeriodicNodes # {}
  /\ \A r, q \in Runtimes : r < q =>
       \A n \in NodesOf[r], m \in NodesOf[q] : n < m
ASSUME TimesAssumption ==
  /\ Period \in [Nodes -> Nat]
  /\ \A n \in PeriodicNodes : Deadline[n] \in 1 .. Period[n]
ASSUME BoundsAssumption == MaxSlots \in Nat /\ Horizon \in Nat

VARIABLES
  now,          \* the clock, since run() was called
  slot,         \* the local slot
  activation,   \* the local activation_us, which is also next_tick
  task,         \* the local t
  pc,           \* where the executive's thread is
  label,        \* activation_us of the runtimes' contexts
  active,       \* the nodes of each runtime's latest tick, and their
                \* places in the node_idx array
  stop          \* stop_requested

vars == <<now, slot, activation, task, pc, label, active, stop>>
-----------------------------------------------------------------------------
(* rx_cyclic_exec_build.                                                   *)

(* The two helpers of cyclic.c.                                            *)
gcd[p \in Nat \X Nat] == IF p[2] = 0 THEN p[1] ELSE gcd[<<p[2], p[1] % p[2]>>]

lcm(a, b) == (a \div gcd[<<a, b>>]) * b

Periods == {Period[n] : n \in PeriodicNodes}

(* What the loop over all nodes makes of the helpers: the greatest common  *)
(* divisor, and a number of slots after which every node is due again.     *)
Base == Max({d \in 1 .. Min(Periods) : \A p \in Periods : p % d = 0})

SlotCounts == {s \in 1 .. MaxSlots : \A p \in Periods : (s * Base) % p = 0}
SlotCount  == Min(SlotCounts)

TableOfActiveRuntimes(s) ==              \* mutant: no asynchronous node on its own
  LET periodic == {n \in PeriodicNodes : (s * Base) % Period[n] = 0} IN
  periodic \cup {n \in AsyncNodes :
                   \E r \in Runtimes : n \in NodesOf[r] /\ NodesOf[r] \cap periodic # {}}

(* slots[s]: the periodic nodes of its instant, and every asynchronous one. *)
Table(s) == {n \in PeriodicNodes : (s * Base) % Period[n] = 0} \cup AsyncNodes

(* sort_slot_by_deadline keeps the order of equals, and the asynchronous   *)
(* nodes are collected after it.                                           *)
Before(n, m) ==
  IF Period[n] > 0 /\ Period[m] > 0
    THEN Deadline[n] < Deadline[m] \/ (Deadline[n] = Deadline[m] /\ n < m)
    ELSE Period[n] > 0 \/ (Period[m] = 0 /\ n < m)

(* The nodes of runtime r that the current slot runs, each with its place. *)
Active(r) ==
  LET here == Table(slot) \cap NodesOf[r] IN
  [n \in here |-> Cardinality({m \in here : Before(m, n)})]
-----------------------------------------------------------------------------
(* run() gives up at once when the table does not fit.                     *)
Init ==
  /\ now = 0
  /\ slot = 0
  /\ activation = 0
  /\ task = 0
  /\ pc = IF SlotCounts = {} THEN "done" ELSE "task"
  /\ label = [r \in Runtimes |-> 0]
  /\ active = [r \in Runtimes |-> [n \in {} |-> 0]]
  /\ stop = FALSE

StartTick ==
  /\ pc = "task" /\ DOMAIN Active(task) # {}
  /\ active' = [active EXCEPT ![task] = Active(task)]
  /\ label' = [label EXCEPT ![task] = activation]
  /\ pc' = "tick"
  /\ UNCHANGED <<now, slot, activation, task, stop>>

(* The next runtime of the slot, unless the last one or a stop ends it.    *)
NextTask ==
  LET more == ~stop /\ task + 1 \in Runtimes IN
  /\ task' = IF more THEN task + 1 ELSE task
  /\ pc' = IF more THEN "task" ELSE "slotEnd"

EndTick ==
  /\ pc = "tick"
  /\ NextTask
  /\ UNCHANGED <<now, slot, activation, label, active, stop>>

NothingActive ==
  /\ pc = "task" /\ DOMAIN Active(task) = {}
  /\ NextTask
  /\ UNCHANGED <<now, slot, activation, label, active, stop>>

EndSlotFromNow ==                        \* mutant: the next slot from the clock
  /\ pc = "slotEnd"
  /\ activation' = now + Base
  /\ slot' = (slot + 1) % SlotCount
  /\ pc' = IF stop THEN "done" ELSE "asleep"
  /\ UNCHANGED <<now, task, label, active, stop>>

(* Step to the next slot and sleep until it; a stop ends the loop.         *)
EndSlot ==
  /\ pc = "slotEnd"
  /\ activation' = activation + Base
  /\ slot' = (slot + 1) % SlotCount
  /\ pc' = IF stop THEN "done" ELSE "asleep"
  /\ UNCHANGED <<now, task, label, active, stop>>

Wake ==
  /\ pc = "asleep" /\ activation <= now
  /\ task' = 0
  /\ pc' = IF stop THEN "done" ELSE "task"
  /\ UNCHANGED <<now, slot, activation, label, active, stop>>

(* rx_cyclic_exec_stop, from a callback or another thread.                 *)
RequestStop ==
  /\ ~stop /\ pc # "done"
  /\ stop' = TRUE
  /\ UNCHANGED <<now, slot, activation, task, pc, label, active>>

(* The bound never cuts a sleep that has to end for a stop to be seen.     *)
Tick ==
  /\ now < Horizon \/ (stop /\ pc = "asleep" /\ now < activation)
  /\ now' = now + 1
  /\ UNCHANGED <<slot, activation, task, pc, label, active, stop>>

(* The executive has returned, or sleeps past the bound of the model.      *)
Finished ==
  /\ pc = "done" \/ (pc = "asleep" /\ now < activation /\ now >= Horizon)
  /\ UNCHANGED vars

Executive == StartTick \/ EndTick \/ NothingActive \/ EndSlot \/ Wake

Next == Executive \/ RequestStop \/ Tick \/ Finished

Spec == Init /\ [][Next]_vars

(* The thread is scheduled, callbacks return, and time passes.             *)
FairSpec == Spec /\ WF_vars(Executive) /\ WF_vars(Tick)
-----------------------------------------------------------------------------
(***************************************************************************)
(* Correctness.                                                            *)
(***************************************************************************)

(* The first instant of node n that its runtime has not ticked for.        *)
DueAfter(n, a) == (a \div Period[n] + 1) * Period[n]

Due(r, n) ==
  IF Period[n] = 0 \/ DOMAIN active[r] = {} THEN 0 ELSE DueAfter(n, label[r])

RuntimeOf(n) == CHOOSE r \in Runtimes : n \in NodesOf[r]

Abstract == INSTANCE TimeTriggered WITH
  due <- [n \in Nodes |-> Due(RuntimeOf(n), n)],
  group <- [r \in Runtimes |-> DOMAIN active[r]]

(* The table and the loop tick each runtime for each of its instants, in   *)
(* order, with the nodes due at that instant and no others, however late   *)
(* the executive runs and however often the table wraps around.            *)
ImplementsTimeTriggered == Abstract!Spec

(* fsm.h:82: a node of period 0 runs every base tick.                      *)
AsyncEveryBaseTick ==
  pc = "slotEnd" /\ ~stop =>
    \A r \in Runtimes : \A n \in NodesOf[r] \cap AsyncNodes :
      label[r] = activation /\ n \in DOMAIN active[r]
=============================================================================
