----------------------------- MODULE ThreadExec -----------------------------
(***************************************************************************)
(* The threaded executor of rxnet (c/src/thread.c) running one runtime.    *)
(*                                                                         *)
(* Every node has a thread.  At each activation instant the threads whose  *)
(* period divides it meet in an activation group, taken from a fixed pool  *)
(* under activation_lock, and go through                                   *)
(*                                                                         *)
(*   latch; evaluate; [eval barrier]; commit; deferred; [commit barrier];  *)
(*   dump                                                                  *)
(*                                                                         *)
(* A node touches state that others read only inside a callback (evaluate  *)
(* reads the committed state of peers, commit publishes, deferred actions  *)
(* and dump read), in the activation group under its lock, and in the      *)
(* barriers under theirs.  So pc[n] names the callback n is inside, and a  *)
(* step is the end of that callback with the synchronisation that follows  *)
(* it.  Instants are multiples of one time unit; now is the clock.         *)
(***************************************************************************)
EXTENDS Integers, FiniteSets

CONSTANTS
  NodeCount,      \* rt->node_count
  Period,         \* nodes[n].period_us
  Deadline,       \* nodes[n].deadline_us; 0 in the code means the period
  PoolSize,       \* RXNET_THREAD_MAX_ACTIVE_GROUPS
  MaxNodes,       \* RXNET_MAX_RUNTIME_NODES
  Horizon,        \* bound: the clock stops here
  CreateMayFail,  \* TRUE: rx_thread_create may fail
  StopMayCome     \* TRUE: the application may call rx_thread_exec_stop

Nodes == 0 .. NodeCount - 1
Main  == NodeCount - 1        \* the last node runs on the calling thread
Slots == 0 .. PoolSize - 1

ASSUME NodeCountAssumption ==
  NodeCount \in Nat \ {0} /\ MaxNodes \in Nat /\ NodeCount <= MaxNodes
ASSUME PeriodAssumption    == Period \in [Nodes -> Nat \ {0}]
ASSUME DeadlineAssumption  ==
  Deadline \in [Nodes -> Nat] /\ \A n \in Nodes : Deadline[n] \in 1 .. Period[n]
ASSUME PoolAssumption      == PoolSize \in Nat \ {0}
ASSUME SwitchAssumption    ==
  /\ Horizon \in Nat
  /\ {CreateMayFail, StopMayCome} \subseteq BOOLEAN

VARIABLES
  now,        \* the clock, in time units since te->t0
  stop,       \* te->stop_requested
  pc,         \* where each node's thread is
  act,        \* activation_us of each node_loop
  slot,       \* ag of each node_loop: an index of the pool
  myGen,      \* the local gen of each thread's rx_barrier_wait
  inUse,      \* active[i].in_use
  instant,    \* active[i].activation_us
  count,      \* active[i].count
  done,       \* active[i].done
  evalB,      \* active[i].eval_b
  commitB,    \* active[i].commit_b
  commits     \* how many ticks each node has published

threadVars == <<pc, act, slot, myGen>>
groupVars  == <<inUse, instant, count, done>>
vars == <<now, stop, threadVars, groupVars, evalB, commitB, commits>>

Outside  == {"unspawned", "failed", "sleep", "check", "exited"}
EvalSide == {"latch", "evaluate", "evalWait"}
DumpSide == {"dump"}
Inside   == EvalSide \cup {"commit", "deferred", "commitWait"} \cup DumpSide

Barriers == [waiting : Nat, total : Nat, generation : Nat]

TypeOK ==
  /\ now \in Nat
  /\ stop \in BOOLEAN
  /\ pc \in [Nodes -> Outside \cup Inside]
  /\ act \in [Nodes -> Nat]
  /\ slot \in [Nodes -> Slots]
  /\ myGen \in [Nodes -> Nat]
  /\ inUse \in [Slots -> BOOLEAN]
  /\ instant \in [Slots -> Nat]
  /\ count \in [Slots -> Nat]
  /\ done \in [Slots -> Nat]
  /\ evalB \in [Slots -> Barriers]
  /\ commitB \in [Slots -> Barriers]
  /\ commits \in [Nodes -> Nat]

(***************************************************************************)
(* The nodes that take part in instant a.                                  *)
(***************************************************************************)
ActiveAt(a) == {n \in Nodes : a % Period[n] = 0}
-----------------------------------------------------------------------------
(* rx_barrier_t.                                                           *)

FreshBarrier(total) == [waiting |-> 0, total |-> total, generation |-> 0]

IsLastButOne(b) == b.waiting + 2 >= b.total    \* mutant: opens one early

IsLast(b) == b.waiting + 1 = b.total

ArriveSilently(b) ==                     \* mutant: the generation stays
  [waiting    |-> IF IsLast(b) THEN 0 ELSE b.waiting + 1,
   total      |-> b.total,
   generation |-> b.generation]

Arrive(b) ==
  [waiting    |-> IF IsLast(b) THEN 0 ELSE b.waiting + 1,
   total      |-> b.total,
   generation |-> IF IsLast(b) THEN b.generation + 1 ELSE b.generation]
-----------------------------------------------------------------------------
(* rx_thread_exec_run up to the spawn loop: stop_requested = 0, and the    *)
(* barriers as rx_thread_exec_add left them.                               *)
Init ==
  /\ now = 0
  /\ stop = FALSE
  /\ pc = [n \in Nodes |-> "unspawned"]
  /\ act = [n \in Nodes |-> 0]
  /\ slot = [n \in Nodes |-> 0]
  /\ myGen = [n \in Nodes |-> 0]
  /\ inUse = [i \in Slots |-> FALSE]
  /\ instant = [i \in Slots |-> 0]
  /\ count = [i \in Slots |-> 0]
  /\ done = [i \in Slots |-> 0]
  /\ evalB = [i \in Slots |-> FreshBarrier(MaxNodes)]
  /\ commitB = [i \in Slots |-> FreshBarrier(MaxNodes)]
  /\ commits = [n \in Nodes |-> 0]

Goto(n, label) == pc' = [pc EXCEPT ![n] = label]

(***************************************************************************)
(* The spawn loop of rx_thread_exec_run, in node order.  A failed creation *)
(* is logged and the loop goes on; the calling thread is the last.         *)
(***************************************************************************)
MayStart(n) == pc[n] = "unspawned" /\ \A m \in 0 .. n - 1 : pc[m] # "unspawned"

Spawn(n) ==
  /\ MayStart(n)
  /\ Goto(n, "sleep")
  /\ UNCHANGED <<now, stop, act, slot, myGen, groupVars, evalB, commitB, commits>>

SpawnFails(n) ==
  /\ CreateMayFail
  /\ n # Main
  /\ MayStart(n)
  /\ Goto(n, "failed")
  /\ UNCHANGED <<now, stop, act, slot, myGen, groupVars, evalB, commitB, commits>>
-----------------------------------------------------------------------------
(* activation_group_get, under activation_lock.                            *)

Matches(i, a)   == inUse[i] /\ instant[i] = a
FirstMatch(i, a) == Matches(i, a) /\ \A j \in 0 .. i - 1 : ~Matches(j, a)
FirstFree(i)    == ~inUse[i] /\ \A j \in 0 .. i - 1 : inUse[j]
HasGroup(a)     == \E i \in Slots : Matches(i, a)
HasFree         == \E i \in Slots : ~inUse[i]

Due(n) == pc[n] = "sleep" /\ act[n] <= now

Enter(n, i) ==
  /\ Goto(n, "latch")
  /\ slot' = [slot EXCEPT ![n] = i]

JoinGroup(n) ==
  /\ Due(n)
  /\ \E i \in Slots : FirstMatch(i, act[n]) /\ Enter(n, i)
  /\ UNCHANGED <<now, stop, act, myGen, groupVars, evalB, commitB, commits>>

CreateGroup(n) ==
  /\ Due(n)
  /\ ~HasGroup(act[n])
  /\ ActiveAt(act[n]) # {}
  /\ \E i \in Slots :
       LET size == Cardinality(ActiveAt(act[n])) IN
       /\ FirstFree(i)
       /\ Enter(n, i)
       /\ inUse' = [inUse EXCEPT ![i] = TRUE]
       /\ instant' = [instant EXCEPT ![i] = act[n]]
       /\ count' = [count EXCEPT ![i] = size]
       /\ done' = [done EXCEPT ![i] = 0]
       /\ evalB' = [evalB EXCEPT ![i] = FreshBarrier(size)]
       /\ commitB' = [commitB EXCEPT ![i] = FreshBarrier(size)]
  /\ UNCHANGED <<now, stop, act, myGen, commits>>

(* ag == NULL: the node raises stop_requested and leaves its loop.         *)
PoolExhausted(n) ==
  /\ Due(n)
  /\ ~HasGroup(act[n])
  /\ ~HasFree \/ ActiveAt(act[n]) = {}
  /\ stop' = TRUE
  /\ Goto(n, "exited")
  /\ UNCHANGED <<now, act, slot, myGen, groupVars, evalB, commitB, commits>>
-----------------------------------------------------------------------------
(* The phases of node_loop.                                                *)

Latch(n) ==
  /\ pc[n] = "latch"
  /\ Goto(n, "evaluate")
  /\ UNCHANGED <<now, stop, act, slot, myGen, groupVars, evalB, commitB, commits>>

(* evaluate returns and the thread enters rx_barrier_wait(&ag->eval_b).    *)
Evaluate(n) ==
  /\ pc[n] = "evaluate"
  /\ myGen' = [myGen EXCEPT ![n] = evalB[slot[n]].generation]
  /\ Goto(n, IF IsLast(evalB[slot[n]]) THEN "commit" ELSE "evalWait")
  /\ evalB' = [evalB EXCEPT ![slot[n]] = Arrive(@)]
  /\ UNCHANGED <<now, stop, act, slot, groupVars, commitB, commits>>

EvalWake(n) ==
  /\ pc[n] = "evalWait"
  /\ evalB[slot[n]].generation # myGen[n]
  /\ Goto(n, "commit")
  /\ UNCHANGED <<now, stop, act, slot, myGen, groupVars, evalB, commitB, commits>>

(* commit publishes; the thread goes on to dispatch its own context's      *)
(* deferred actions, before it enters the commit barrier.                  *)
Commit(n) ==
  /\ pc[n] = "commit"
  /\ commits' = [commits EXCEPT ![n] = @ + 1]
  /\ Goto(n, "deferred")
  /\ UNCHANGED <<now, stop, act, slot, myGen, groupVars, evalB, commitB>>

DispatchUnlessStopped(n) ==              \* mutant: a stop is obeyed mid-tick
  /\ pc[n] = "deferred"
  /\ myGen' = [myGen EXCEPT ![n] = commitB[slot[n]].generation]
  /\ IF stop
       THEN Goto(n, "exited") /\ UNCHANGED commitB
       ELSE /\ Goto(n, IF IsLast(commitB[slot[n]]) THEN "dump" ELSE "commitWait")
            /\ commitB' = [commitB EXCEPT ![slot[n]] = Arrive(@)]
  /\ UNCHANGED <<now, stop, act, slot, groupVars, evalB, commits>>

Dispatch(n) ==
  /\ pc[n] = "deferred"
  /\ myGen' = [myGen EXCEPT ![n] = commitB[slot[n]].generation]
  /\ Goto(n, IF IsLast(commitB[slot[n]]) THEN "dump" ELSE "commitWait")
  /\ commitB' = [commitB EXCEPT ![slot[n]] = Arrive(@)]
  /\ UNCHANGED <<now, stop, act, slot, groupVars, evalB, commits>>

CommitWake(n) ==
  /\ pc[n] = "commitWait"
  /\ commitB[slot[n]].generation # myGen[n]
  /\ Goto(n, "dump")
  /\ UNCHANGED <<now, stop, act, slot, myGen, groupVars, evalB, commitB, commits>>

(* activation_group_done: the last of the group frees the slot.            *)
GroupDone(i) ==
  /\ done' = [done EXCEPT ![i] = @ + 1]
  /\ inUse' = [inUse EXCEPT ![i] = done[i] + 1 # count[i]]

(* dump_outputs returns, the thread leaves its group and steps its instant. *)
Dump(n) ==
  /\ pc[n] = "dump"
  /\ GroupDone(slot[n])
  /\ act' = [act EXCEPT ![n] = @ + Period[n]]
  /\ Goto(n, "check")
  /\ UNCHANGED <<now, stop, slot, myGen, instant, count, evalB, commitB, commits>>

(* The end of the loop body.  When the caller's loop returns, run() sets   *)
(* stop_requested, calls on_stop and returns: pc[Main] = "exited".         *)
Check(n) ==
  /\ pc[n] = "check"
  /\ Goto(n, IF stop THEN "exited" ELSE "sleep")
  /\ UNCHANGED <<now, stop, act, slot, myGen, groupVars, evalB, commitB, commits>>
-----------------------------------------------------------------------------
NodeStep(n) ==
  \/ Spawn(n)       \/ SpawnFails(n)
  \/ JoinGroup(n)   \/ CreateGroup(n)  \/ PoolExhausted(n)
  \/ Latch(n)       \/ Evaluate(n)     \/ EvalWake(n)
  \/ Commit(n)      \/ Dispatch(n)     \/ CommitWake(n)
  \/ Dump(n)        \/ Check(n)

(* rx_thread_exec_stop, from any thread once run() has reset the flag.     *)
RequestStop ==
  /\ StopMayCome
  /\ ~stop
  /\ stop' = TRUE
  /\ UNCHANGED <<now, threadVars, groupVars, evalB, commitB, commits>>

(***************************************************************************)
(* The clock.  A node may take arbitrarily long.  Horizon bounds the clock *)
(* but never cuts the last tick of a thread after a stop.                  *)
(***************************************************************************)
InBound == now < Horizon \/ (stop /\ \E n \in Nodes : pc[n] = "sleep" /\ ~Due(n))

Tick ==
  /\ InBound
  /\ now' = now + 1
  /\ UNCHANGED <<stop, threadVars, groupVars, evalB, commitB, commits>>

(* Every thread has gone, or sleeps past the bound of the model.           *)
Finished ==
  /\ \A n \in Nodes : pc[n] \in {"exited", "sleep"}
  /\ \A n \in Nodes : pc[n] = "sleep" => act[n] > Horizon /\ ~stop
  /\ UNCHANGED vars

Next == Tick \/ RequestStop \/ Finished \/ \E n \in Nodes : NodeStep(n)

Spec == Init /\ [][Next]_vars

(* The operating system runs every runnable thread, and time passes.       *)
Fairness == WF_vars(Tick) /\ \A n \in Nodes : WF_vars(NodeStep(n))

FairSpec == Spec /\ Fairness
-----------------------------------------------------------------------------
(***************************************************************************)
(* Correctness.                                                            *)
(***************************************************************************)

(* The first instant of node m whose state is not published yet.           *)
NextPublished(m) == commits[m] * Period[m]

(* A thread inside a tick is in a group that is in use and carries its own *)
(* instant, and an instant has one group: nobody is left in a slot that is *)
(* recycled, and the nodes of an instant meet (thread.c, the pool).        *)
GroupIntegrity ==
  /\ \A n \in Nodes : pc[n] \in Inside =>
       inUse[slot[n]] /\ instant[slot[n]] = act[n]
  /\ \A i, j \in Slots : inUse[i] /\ inUse[j] /\ instant[i] = instant[j] => i = j

(* While a node evaluates, no node of its instant has published that       *)
(* instant yet, whatever the overruns: the eval barrier of thread.c:219.   *)
NoPeerAhead ==
  \A n \in Nodes : pc[n] = "evaluate" =>
    \A m \in ActiveAt(act[n]) : NextPublished(m) <= act[n]

(* A node dumps its outputs only when every node of its instant has        *)
(* published: the commit barrier of thread.c:224.                          *)
DumpAfterCommits ==
  \A n \in Nodes : pc[n] = "dump" =>
    \A m \in ActiveAt(act[n]) : NextPublished(m) > act[n]

(* A due node always finds its group or a free one: the default            *)
(* RXNET_THREAD_MAX_ACTIVE_GROUPS, one slot per node, is never exhausted.  *)
PoolSuffices ==
  \A n \in Nodes : Due(n) => HasGroup(act[n]) \/ HasFree

(* Node m has yet to come to the barrier that n waits at.                  *)
YetToEvaluate(m, a) ==
  act[m] < a \/ (act[m] = a /\ pc[m] \in Outside \cup {"latch", "evaluate"})
YetToCommit(m, a) ==
  YetToEvaluate(m, a) \/ (act[m] = a /\ pc[m] \in {"evalWait", "commit", "deferred"})

(* No wake-up is lost and no barrier is closed on a waiter: a thread that  *)
(* sleeps in a barrier waits for a node of its instant that has not come.  *)
WaitsForAPeer ==
  \A n \in Nodes :
    /\ (pc[n] = "evalWait" /\ evalB[slot[n]].generation = myGen[n]) =>
         \E m \in ActiveAt(act[n]) : YetToEvaluate(m, act[n])
    /\ (pc[n] = "commitWait" /\ commitB[slot[n]].generation = myGen[n]) =>
         \E m \in ActiveAt(act[n]) : YetToCommit(m, act[n])

(* The snapshot the user guide promises (docs/user-c.md, 6.5): while a     *)
(* node evaluates, a peer shows exactly the state it had after its last    *)
(* instant before this one, if one period divides the other and neither    *)
(* node is past its deadline.  Nothing weaker is enough: with periods of 2 *)
(* and 3 a peer may publish a later instant meanwhile (thread.c:216).      *)
InTime(n) == act[n] + Deadline[n] > now

Harmonic(n, m) == Period[n] % Period[m] = 0 \/ Period[m] % Period[n] = 0

OnTimeSnapshot ==
  \A n, m \in Nodes :
    pc[n] = "evaluate" /\ Harmonic(n, m) /\ InTime(n) /\ InTime(m) =>
      NextPublished(m) \in act[n] .. act[n] + Period[m] - 1

(* No barrier or sleep stops the nodes: as long as every thread was        *)
(* created and no stop is asked for, by the application or for want of a   *)
(* group, every node completes every instant up to the bound.              *)
EveryInstantCompletes ==
  \A n \in Nodes : <>(act[n] > Horizon \/ stop \/ \E m \in Nodes : pc[m] = "failed")

(* thread.h:127: run() returns after rx_thread_exec_stop() is requested.   *)
StopReturns == stop ~> pc[Main] = "exited"

(* After a stop no thread ticks for ever: each ends outside its loop, was  *)
(* never created, or stays in the first barrier of a group that others     *)
(* have left.                                                              *)
StopQuiesces ==
  stop ~> [](\A n \in Nodes : pc[n] \in {"exited", "failed", "evalWait"})

(* The nodes run as bulk-synchronous activations.                          *)
AbstractPhase(label) ==
  CASE label \in {"evalWait", "commit"}               -> "evaluated"
    [] label \in {"deferred", "commitWait", "dump"}   -> "committed"
    [] OTHER                                          -> "idle"

Abstract == INSTANCE Superstep WITH
  phase <- [n \in Nodes |-> AbstractPhase(pc[n])]

(* The threads, groups and barriers implement Superstep.                   *)
ImplementsSuperstep == Abstract!Spec
=============================================================================
