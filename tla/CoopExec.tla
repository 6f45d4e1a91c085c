------------------------------ MODULE CoopExec ------------------------------
(***************************************************************************)
(* The cooperative executor (c/src/coop.c): one thread that polls the      *)
(* clock once per pass, runs one tick of every runtime that has a node     *)
(* whose time has come, and sleeps until the next one.                     *)
(*                                                                         *)
(* A tick is the synchronous step of RuntimeTick; here it is an interval,  *)
(* during which the clock moves and the application may ask for a stop.    *)
(***************************************************************************)
EXTENDS Integers, FiniteSets, FiniteSetsExt

CONSTANTS
  Runtimes,       \* 0 .. ntasks - 1, in the order they were added
  NodesOf,        \* the nodes of each runtime
  Period,         \* period_us, 0 for an asynchronous node
  Deadline,       \* effective_deadline: deadline_us, or else the period
  Horizon,        \* bound: the clock stops here
  StopMayCome     \* TRUE: the application may call rx_coop_exec_stop

Nodes == UNION {NodesOf[r] : r \in Runtimes}
RuntimeCount == Cardinality(Runtimes)

Periodic(r) == {n \in NodesOf[r] : Period[n] > 0}
Async(r)    == {n \in NodesOf[r] : Period[n] = 0}

(* rx_coop_exec_add refuses a runtime without periodic nodes, and          *)
(* rx_runtime_build a deadline beyond its period.                          *)
ASSUME RuntimesAssumption ==
  /\ Runtimes = 0 .. RuntimeCount - 1 /\ RuntimeCount \in Nat \ {0}
  /\ \A r \in Runtimes : NodesOf[r] \subseteq Nat /\ Periodic(r) # {}
  /\ \A r, q \in Runtimes : r # q => NodesOf[r] \cap NodesOf[q] = {}
ASSUME TimesAssumption ==
  /\ Period \in [Nodes -> Nat]
  /\ Deadline \in [Nodes -> Nat]
  /\ \A n \in Nodes : Period[n] > 0 => Deadline[n] \in 1 .. Period[n]

VARIABLES
  now,      \* the clock, since run() was called
  polled,   \* the local now: the clock at the start of the pass
  task,     \* the local i
  pc,       \* where the executor's thread is
  due,      \* next_tick of each node, which is also its next_activation_us
  label,    \* activation_us of the runtime's context
  active,   \* the nodes of each runtime's latest tick, and their places in
            \* the node_idx array
  stop      \* stop_requested

vars == <<now, polled, task, pc, due, label, active, stop>>

TypeOK ==
  /\ now \in Nat
  /\ polled \in 0 .. now
  /\ task \in Runtimes
  /\ pc \in {"poll", "task", "tick", "sleep", "asleep", "done"}
  /\ due \in [Nodes -> Nat]
  /\ label \in [Runtimes -> Nat]
  /\ \A r \in Runtimes : DOMAIN active[r] \subseteq NodesOf[r]
  /\ stop \in BOOLEAN

Init ==
  /\ now = 0
  /\ polled = 0
  /\ task = 0
  /\ pc = "poll"
  /\ due = [n \in Nodes |-> 0]
  /\ label = [r \in Runtimes |-> 0]
  /\ active = [r \in Runtimes |-> [n \in {} |-> 0]]
  /\ stop = FALSE
-----------------------------------------------------------------------------
(* sort_active_by_deadline keeps the order of equals, and the asynchronous *)
(* nodes are collected after it.                                           *)
Before(n, m) ==
  IF Period[n] > 0 /\ Period[m] > 0
    THEN Deadline[n] < Deadline[m] \/ (Deadline[n] = Deadline[m] /\ n < m)
    ELSE Period[n] > 0 \/ (Period[m] = 0 /\ n < m)

(* The nodes that are ticked together, each with its place.                *)
InOrder(group) == [n \in group |-> Cardinality({m \in group : Before(m, n)})]

ExpiredSoon(r) ==                        \* mutant: one unit too early
  {n \in Periodic(r) : due[n] <= polled + 1}

Expired(r) == {n \in Periodic(r) : due[n] <= polled}

Nearest == Min({due[n] : n \in UNION {Periodic(r) : r \in Runtimes}})

NextTaskNever ==                         \* mutant: leaves the loop after one
  task' = 0 /\ pc' = "sleep"

NextTask ==
  /\ task' = IF task + 1 \in Runtimes THEN task + 1 ELSE 0
  /\ pc' = IF task + 1 \in Runtimes THEN "task" ELSE "sleep"
-----------------------------------------------------------------------------
PollAnyway ==                            \* mutant: for (;;)
  /\ pc = "poll"
  /\ polled' = now
  /\ task' = 0
  /\ pc' = "task"
  /\ UNCHANGED <<now, due, label, active, stop>>

(* while (!stop_requested): on_stop and return, or a new pass.             *)
Poll ==
  /\ pc = "poll" /\ ~stop
  /\ polled' = now
  /\ task' = 0
  /\ pc' = "task"
  /\ UNCHANGED <<now, due, label, active, stop>>

Return ==
  /\ pc = "poll" /\ stop
  /\ pc' = "done"
  /\ UNCHANGED <<now, polled, task, due, label, active, stop>>

StartTickOfNow ==                        \* mutant: the clock for the instant
  /\ pc = "task" /\ Expired(task) # {}
  /\ label' = [label EXCEPT ![task] = polled]
  /\ due' = [n \in Nodes |-> IF n \in Expired(task) THEN due[n] + Period[n] ELSE due[n]]
  /\ active' = [active EXCEPT ![task] = InOrder(Expired(task) \cup Async(task))]
  /\ pc' = "tick"
  /\ UNCHANGED <<now, polled, task, stop>>

(* Collect what has expired, advance each node by one period, and call     *)
(* rx_runtime_tick_nodes_at with the earliest of their instants.           *)
StartTick ==
  /\ pc = "task" /\ Expired(task) # {}
  /\ label' = [label EXCEPT ![task] = Min({due[n] : n \in Expired(task)})]
  /\ due' = [n \in Nodes |-> IF n \in Expired(task) THEN due[n] + Period[n] ELSE due[n]]
  /\ active' = [active EXCEPT ![task] = InOrder(Expired(task) \cup Async(task))]
  /\ pc' = "tick"
  /\ UNCHANGED <<now, polled, task, stop>>

EndTick ==
  /\ pc = "tick"
  /\ IF stop THEN pc' = "sleep" /\ task' = 0 ELSE NextTask
  /\ UNCHANGED <<now, polled, due, label, active, stop>>

NothingDue ==
  /\ pc = "task" /\ Expired(task) = {}
  /\ IF stop THEN pc' = "sleep" /\ task' = 0 ELSE NextTask
  /\ UNCHANGED <<now, polled, due, label, active, stop>>

(* rx_tick_sleep_until, unless a stop was asked for before it.             *)
Sleep ==
  /\ pc = "sleep"
  /\ pc' = IF stop THEN "poll" ELSE "asleep"
  /\ UNCHANGED <<now, polled, task, due, label, active, stop>>

Wake ==
  /\ pc = "asleep" /\ Nearest <= now
  /\ pc' = "poll"
  /\ UNCHANGED <<now, polled, task, due, label, active, stop>>

(* rx_coop_exec_stop, from a callback or another thread.                   *)
RequestStop ==
  /\ StopMayCome /\ ~stop
  /\ stop' = TRUE
  /\ UNCHANGED <<now, polled, task, pc, due, label, active>>

(* The bound never cuts a sleep that has to end for a stop to be seen.     *)
Tick ==
  /\ now < Horizon \/ (stop /\ pc = "asleep" /\ now < Nearest)
  /\ now' = now + 1
  /\ UNCHANGED <<polled, task, pc, due, label, active, stop>>

(* The executor has returned, or sleeps past the bound of the model.       *)
Finished ==
  /\ pc = "done" \/ (pc = "asleep" /\ Nearest > now /\ now >= Horizon)
  /\ UNCHANGED vars

Executor ==
  \/ Poll \/ Return \/ StartTick \/ EndTick \/ NothingDue \/ Sleep \/ Wake

Next == Executor \/ RequestStop \/ Tick \/ Finished

Spec == Init /\ [][Next]_vars

(* The thread is scheduled, callbacks return, and time passes.             *)
FairSpec == Spec /\ WF_vars(Executor) /\ WF_vars(Tick)
-----------------------------------------------------------------------------
(***************************************************************************)
(* Correctness.                                                            *)
(***************************************************************************)

Ticking == {n \in DOMAIN active[task] : Period[n] > 0}

InstantOf(n) == due[n] - Period[n]

(* A runtime never ticks twice for one instant nor goes back to an earlier *)
(* one, however late its nodes are: its activation_us increases.           *)
InstantsIncrease ==
  [][StartTick => DOMAIN active[task] = {} \/ label'[task] > label[task]]_vars

(* Where the periods of a runtime divide each other and the pass began     *)
(* before any deadline of the nodes it ticks, the tick is for one instant. *)
Harmonic(r) ==
  \A n, m \in Periodic(r) : Period[n] <= Period[m] => Period[m] % Period[n] = 0

OnTimeTicksAreExact ==
  pc = "tick" /\ Harmonic(task)
    /\ (\A n \in Ticking : InstantOf(n) + Deadline[n] > polled) =>
      \A n \in Ticking : InstantOf(n) = label[task]

(* An overload is worked off: no activation is dropped and no runtime is   *)
(* starved by another that is behind.                                      *)
BacklogDrains ==
  \A r \in Runtimes : \A n \in Periodic(r) : <>(due[n] > Horizon \/ stop)

(* coop.h:73: run() returns after a stop is requested.                     *)
StopReturns == stop ~> pc = "done"
=============================================================================
