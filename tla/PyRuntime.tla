----------------------------- MODULE PyRuntime ------------------------------
(***************************************************************************)
(* The tick of the Python runtime (rxnet/runtime.py), one node and one     *)
(* phase at a time, with its four configurations: phases in sequence or    *)
(* on an executor, deferred actions run by the tick or by a WorkerPool.    *)
(*                                                                         *)
(* Nodes are numbered in registration order.  What a node computes is      *)
(* abstracted to the snapshot it evaluates and the action it proposes.  An *)
(* action may enqueue, or submit to the pool, one further action, and      *)
(* replaces ctx.inputs when it returns.                                    *)
(***************************************************************************)
EXTENDS WorkerPool, StableSort, Sequences

CONSTANTS
  Nodes,        \* 1 .. the number of nodes
  Priority,     \* the priority of each node's action
  MaxTicks,     \* bound: ticks in a behaviour
  Spawning      \* bound: the nodes whose actions create further actions

ASSUME RuntimeAssumption ==
  /\ Nodes = 1 .. Cardinality(Nodes) /\ Nodes # {}
  /\ Priority \in [Nodes -> 0 .. 3] /\ MaxTicks \in Nat /\ Spawning \subseteq Nodes

VARIABLES
  parallel,     \* the runtime has an executor
  pooled,       \* the runtime has a worker_pool
  tick,         \* ticks begun
  phase,        \* the phase of the tick, or "idle"
  todo,         \* the nodes still to go through the phase
  inputs,       \* ctx.inputs: how often it has been replaced
  latched,      \* ctx.latched_inputs
  read,         \* what each node evaluated
  proposal,     \* _proposed_action is set
  committed,    \* history: the last tick each node has committed
  queue,        \* _deferred_actions
  batch,        \* actions, the local copy of dispatch_deferred
  accepted,     \* history: the actions handed to the context or to the pool
  started       \* history: the actions begun, in order

config   == <<parallel, pooled>>
nodeVars == <<inputs, latched, read, proposal, committed>>
tickVars == <<config, tick, phase, todo, nodeVars, queue, batch, accepted, started>>
vars == <<poolVars, tickVars>>

Init ==
  /\ PoolInit
  /\ parallel \in BOOLEAN /\ pooled \in BOOLEAN
  /\ tick = 0 /\ phase = "idle" /\ todo = {}
  /\ inputs = 0 /\ latched = 0
  /\ read = [n \in Nodes |-> 0]
  /\ proposal = [n \in Nodes |-> FALSE]
  /\ committed = [n \in Nodes |-> 0]
  /\ queue = <<>> /\ batch = <<>> /\ accepted = {} /\ started = <<>>

ActionOf(n) == [node |-> n, tick |-> tick, priority |-> Priority[n], spawned |-> FALSE]
Further(a)  == [a EXCEPT !.spawned = TRUE]

(* Bound: an action of a Spawning node creates at most one further action. *)
CanSpawn(a) == a.node \in Spawning /\ ~a.spawned /\ Further(a) \notin accepted

(* ctx.latch_inputs copies the inputs once for all the nodes of the tick.  *)
BeginTick ==
  /\ phase = "idle" /\ tick < MaxTicks /\ ~shutdown
  /\ tick' = tick + 1
  /\ latched' = inputs
  /\ phase' = "latch" /\ todo' = Nodes
  /\ UNCHANGED <<poolVars, config, inputs, read, proposal, committed, queue, batch,
                 accepted, started>>

NextPhase(p) ==
  CASE p = "latch" -> "evaluate" [] p = "evaluate" -> "commit"
    [] p = "commit" -> "dispatch" [] p = "dump" -> "idle"

(* A node goes through the phase: in registration order, or in any order   *)
(* on an executor; the phase is over when list(ex.map(...)) has them all.  *)
Pass(n) ==
  /\ n \in todo
  /\ parallel \/ \A m \in todo : n <= m
  /\ IF todo # {n} THEN phase' = phase /\ todo' = todo \ {n}
     ELSE /\ phase' = NextPhase(phase)
          /\ todo' = IF phase' \in {"dispatch", "idle"} THEN {} ELSE Nodes
  /\ UNCHANGED <<poolVars, config, tick, inputs, latched, batch, started>>

(* node.latch_inputs and node.dump_outputs: callbacks of the application.  *)
LatchOrDump(n) ==
  /\ phase \in {"latch", "dump"} /\ Pass(n)
  /\ UNCHANGED <<read, proposal, committed, queue, accepted>>

EvaluateLive(n) ==                       \* mutant: reads ctx.inputs
  /\ phase = "evaluate" /\ Pass(n)
  /\ read' = [read EXCEPT ![n] = inputs]
  /\ \E b \in BOOLEAN : proposal' = [proposal EXCEPT ![n] = b]
  /\ UNCHANGED <<committed, queue, accepted>>

Evaluate(n) ==
  /\ phase = "evaluate" /\ Pass(n)
  /\ read' = [read EXCEPT ![n] = latched]
  /\ \E b \in BOOLEAN : proposal' = [proposal EXCEPT ![n] = b]
  /\ UNCHANGED <<committed, queue, accepted>>

(* Machine.commit and PetriNet.commit hand their actions to the context.   *)
Commit(n) ==
  /\ phase = "commit" /\ Pass(n)
  /\ committed' = [committed EXCEPT ![n] = tick]
  /\ IF proposal[n]
     THEN queue' = Append(queue, ActionOf(n)) /\ accepted' = accepted \cup {ActionOf(n)}
     ELSE UNCHANGED <<queue, accepted>>
  /\ UNCHANGED <<read, proposal>>

(* dispatch_deferred copies the queue and clears it under _deferred_lock.  *)
TakeQueue ==
  /\ phase = "dispatch" /\ phase' = "actions"
  /\ batch' = IF pooled THEN queue ELSE SortDescending(queue)
  /\ queue' = <<>>
  /\ UNCHANGED <<poolVars, config, tick, todo, nodeVars, accepted, started>>

(* Without a pool the tick runs the actions itself; what they enqueue is   *)
(* left for the dispatch of the next tick.                                 *)
RunAction ==
  /\ phase = "actions" /\ batch # <<>> /\ ~pooled
  /\ batch' = Tail(batch)
  /\ started' = Append(started, Head(batch))
  /\ inputs' = inputs + 1
  /\ \/ UNCHANGED <<queue, accepted>>
     \/ /\ CanSpawn(Head(batch))
        /\ queue' = Append(queue, Further(Head(batch)))
        /\ accepted' = accepted \cup {Further(Head(batch))}
  /\ UNCHANGED <<poolVars, config, tick, phase, todo, latched, read, proposal, committed>>

PostAction ==
  /\ phase = "actions" /\ batch # <<>> /\ pooled
  /\ Submit(Head(batch))
  /\ batch' = Tail(batch)
  /\ UNCHANGED <<config, tick, phase, todo, nodeVars, queue, accepted, started>>

EndDispatch ==
  /\ phase = "actions" /\ batch = <<>>
  /\ phase' = "dump" /\ todo' = Nodes
  /\ UNCHANGED <<poolVars, config, tick, nodeVars, queue, batch, accepted, started>>

(* A thread of the pool, if the runtime was given one.                     *)
TakeTask(w) == (\E t \in heap : Take(w, t)) /\ UNCHANGED tickVars

BeginTask(w) ==
  /\ Begin(w) /\ started' = Append(started, task[w])
  /\ UNCHANGED <<config, tick, phase, todo, nodeVars, queue, batch, accepted>>

(* A running action enqueues a further action, or submits it.              *)
Spawn(w) ==
  /\ worker[w] = "running" /\ CanSpawn(task[w])
  /\ accepted' = accepted \cup {Further(task[w])}
  /\ \/ queue' = Append(queue, Further(task[w])) /\ UNCHANGED poolVars
     \/ Submit(Further(task[w])) /\ UNCHANGED queue
  /\ UNCHANGED <<config, tick, phase, todo, nodeVars, batch, started>>

FinishTask(w) ==
  /\ Finish(w)
  /\ inputs' = inputs + 1
  /\ UNCHANGED <<config, tick, phase, todo, latched, read, proposal, committed, queue,
                 batch, accepted, started>>

WorkerStep(w) ==
  /\ pooled
  /\ \/ TakeTask(w) \/ BeginTask(w) \/ FinishTask(w)
     \/ (Wait(w) \/ Exit(w)) /\ UNCHANGED tickVars

(* The application shuts the pool down between two ticks.                  *)
ShutDown == pooled /\ phase = "idle" /\ Shutdown /\ UNCHANGED tickVars

TickStep ==
  \/ BeginTick \/ TakeQueue \/ RunAction \/ PostAction \/ EndDispatch
  \/ \E n \in Nodes : LatchOrDump(n) \/ Evaluate(n) \/ Commit(n)

Next == TickStep \/ ShutDown \/ \E w \in Workers : WorkerStep(w) \/ Spawn(w)

(* A tick goes on, the threads are scheduled and actions return; nothing   *)
(* makes the application shut the pool down.                               *)
Fairness == WF_vars(TickStep) /\ \A w \in Workers : WF_vars(WorkerStep(w))

Spec == Init /\ [][Next]_vars /\ Fairness
-----------------------------------------------------------------------------
Times(a, s) == Cardinality({i \in DOMAIN s : s[i] = a})

(* The proposed action of a tick begins when all the nodes have committed  *)
(* that tick, and is over before the dumps if there is no pool; and all    *)
(* the nodes of the tick evaluate one snapshot, though actions of earlier  *)
(* ticks replace ctx.inputs meanwhile (runtime.py:442-500).                *)
TickIsSynchronous ==
  /\ \A i \in DOMAIN started : \A n \in Nodes : committed[n] >= started[i].tick
  /\ ~pooled /\ phase = "dump" => \A a \in accepted :
       ~a.spawned => \E i \in DOMAIN started : started[i] = a
  /\ phase \in {"commit", "dispatch"} => \A n, m \in Nodes : read[n] = read[m]

(* An action is overtaken by a later one of its node only in the hands of  *)
(* a worker that has popped it and not begun it yet (worker_pool.py:142):  *)
(* never in the heap, the batch or the queue, whatever the size of the     *)
(* pool; so by fewer than there are workers, and without a pool by none.   *)
OvertakenOnlyWhenTaken ==
  \A i \in DOMAIN started : \A a \in accepted :
    /\ a.node = started[i].node /\ a.tick < started[i].tick
    /\ ~a.spawned /\ ~started[i].spawned /\ Times(a, started) = 0
    => \E w \in Workers : worker[w] = "taken" /\ task[w] = a

(* Once, for good: started only grows.                                     *)
Begun(a) == Times(a, started) = 1

(* Only what an action enqueues is left for a later tick, if there is one. *)
AllBegun == \A a \in accepted : Begun(a) \/ (a.spawned /\ Times(a, queue) = 1)

(* What is proposed in a tick, or submitted from an action, is begun once  *)
(* in the end, with no worker left asleep over a heap that is not empty;   *)
(* and nobody has to shut the pool down (worker_pool.py:114, 138).         *)
EveryActionRuns == <>[]AllBegun

(* "block until all queued actions finish" (worker_pool.py:117): shutdown  *)
(* returns, and then no submitted action is left, those that running       *)
(* actions submitted after the flag was set included.                      *)
ShutdownDrains ==
  shutdown ~> Joined /\ AllBegun
=============================================================================
