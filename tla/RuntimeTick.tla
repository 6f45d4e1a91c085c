---------------------------- MODULE RuntimeTick -----------------------------
(***************************************************************************)
(* rx_runtime_tick_nodes_at (c/src/runtime.c) with the state machines and  *)
(* Petri nets it drives and the queue of deferred actions of its context.  *)
(*                                                                         *)
(* A tick is one sequential function, but its phases call back into the    *)
(* application node by node, and every callback may read committed state   *)
(* and enqueue actions; so each callback is a step.  Actions run inside    *)
(* the tick: no worker pool is installed.                                  *)
(***************************************************************************)
EXTENDS NodeStep, StableSort

CONSTANTS
  Inputs,        \* what a node's latch_inputs may read
  Initial,       \* initial_state, initial_places
  ActiveLists,   \* the node_idx arrays an executor may pass
  Requests,      \* the priorities each node's callbacks may enqueue with
  Capacity       \* RXNET_MAX_DEFERRED_ACTIONS

NORMAL == 1      \* RX_PRIORITY_NORMAL

ASSUME CapacityAssumption == Capacity \in Nat \ {0}
ASSUME InitialAssumption ==
  /\ Initial = [n \in Nodes |-> Initial[n]]
  /\ \A n \in Nets : IsMarking(Initial[n])
ASSUME RequestsAssumption ==
  \A n \in Nodes : Requests[n] \subseteq Seq(0 .. 3) /\ <<>> \in Requests[n]
(* Every caller passes each node once, and only nodes of the runtime.      *)
ASSUME ActiveListsAssumption ==
  \A list \in ActiveLists :
    list \in Seq(Nodes) /\ list # <<>> /\ IsInjective(list)

VARIABLES
  phase,      \* the loop of the tick, "idle" between ticks
  order,      \* node_idx
  at,         \* the index of that loop
  latched,    \* the inputs each node copied in latch_inputs
  state,      \* machine->state and net->places
  proposed,   \* next_state or next_places, and the transitions to fire
  queue,      \* deferred_actions[0 .. deferred_count - 1]
  sorted,     \* history: how many entries the dispatch found and sorted
  ran,        \* history: the actions this dispatch ran, in order
  asked       \* history: how many actions were offered to the queue

nodeVars  == <<latched, state, proposed>>
queueVars == <<queue, sorted, ran, asked>>
vars == <<phase, order, at, nodeVars, queueVars>>

Phases == {"idle", "latch", "evaluate", "commit", "dispatch", "run", "dump"}

(* An entry of the queue; transition 0 is an action of the application.    *)
(* id numbers the entries in the order the queue took them.                *)
Action(n, t, priority) == [node |-> n, transition |-> t, priority |-> priority]

Entries == [node : Nodes, transition : Nat, priority : 0 .. 3, id : Nat]

TypeOK ==
  /\ phase \in Phases
  /\ phase # "idle" => order \in ActiveLists
  /\ at \in Nat \ {0}
  /\ latched \in [Nodes -> Inputs]
  /\ DOMAIN state = Nodes
  /\ DOMAIN proposed = Nodes
  /\ queue \in Seq(Entries) /\ Len(queue) <= Capacity
  /\ sorted \in 0 .. Capacity
  /\ ran \in Seq(Entries)
  /\ asked \in Nat

Init ==
  /\ phase = "idle"
  /\ order = <<>>
  /\ at = 1
  /\ latched \in [Nodes -> Inputs]
  /\ state = Initial
  /\ proposed = [n \in Nodes |-> Evaluation(Initial[n], <<>>)]
  /\ queue = <<>>
  /\ sorted = 0
  /\ ran = <<>>
  /\ asked = 0
-----------------------------------------------------------------------------
(* The deferred queue.                                                     *)

(* rx_context_enqueue_deferred_action_p for one action after the other;    *)
(* every caller in the library drops its -1.                               *)
Taken(actions) ==
  {i \in DOMAIN actions : Len(queue) + i <= Capacity}

Entry(actions, i) ==
  [node |-> actions[i].node, transition |-> actions[i].transition,
   priority |-> actions[i].priority, id |-> Len(queue) + i]

Offer(actions) ==
  /\ queue' = queue \o [i \in Taken(actions) |-> Entry(actions, i)]
  /\ asked' = asked + Len(actions)

(* The actions of the transitions a node fires, in firing order.           *)
ActionsOf(n, fired) ==
  LET acting == Ascending({i \in DOMAIN fired : Transitions[n][fired[i]].action})
  IN  [i \in DOMAIN acting |-> Action(n, fired[acting[i]], NORMAL)]

(* What the application's own code enqueues from a callback of node n.     *)
Callback(n) ==
  \E request \in Requests[n] :
    Offer([i \in DOMAIN request |-> Action(n, 0, request[i])])

-----------------------------------------------------------------------------
(* One callback of the current loop; the last one goes on to the next loop. *)
Current == order[at]

Advance(nextPhase) ==
  /\ at' = IF at = Len(order) THEN 1 ELSE at + 1
  /\ phase' = IF at = Len(order) THEN nextPhase ELSE phase

StartTick ==
  /\ phase = "idle"
  /\ order' \in ActiveLists
  /\ phase' = "latch"
  /\ at' = 1
  /\ UNCHANGED <<nodeVars, queueVars>>

Latch ==
  /\ phase = "latch"
  /\ \E in \in Inputs : latched' = [latched EXCEPT ![Current] = in]
  /\ Callback(Current)
  /\ Advance("evaluate")
  /\ UNCHANGED <<order, state, proposed, sorted, ran>>

EvaluateInPlace ==                       \* mutant: a node moves as it evaluates
  /\ phase = "evaluate"
  /\ LET e == Evaluate(Current, latched[Current], state) IN
       /\ proposed' = [proposed EXCEPT ![Current] = e]
       /\ state' = [state EXCEPT ![Current] = e.next]
       /\ Offer(ActionsOf(Current, e.fired))
  /\ Advance("commit")
  /\ UNCHANGED <<order, latched, sorted, ran>>

EvaluateNode ==
  /\ phase = "evaluate"
  /\ LET e == Evaluate(Current, latched[Current], state) IN
       /\ proposed' = [proposed EXCEPT ![Current] = e]
       /\ Offer(ActionsOf(Current, e.fired))
  /\ Advance("commit")
  /\ UNCHANGED <<order, latched, state, sorted, ran>>

CommitAllButLast ==                      \* mutant: the commit loop ends early
  /\ phase = "commit"
  /\ state' = [state EXCEPT ![Current] = proposed[Current].next]
  /\ at' = at + 1
  /\ phase' = IF at + 1 >= Len(order) THEN "dispatch" ELSE "commit"
  /\ UNCHANGED <<order, latched, proposed, queueVars>>

CommitNode ==
  /\ phase = "commit"
  /\ state' = [state EXCEPT ![Current] = proposed[Current].next]
  /\ Advance("dispatch")
  /\ UNCHANGED <<order, latched, proposed, queueVars>>

SortQueueNewestFirst ==                  \* mutant: the sort is not stable
  /\ phase = "dispatch"
  /\ queue' = SortDescending(Reverse(queue))
  /\ sorted' = Len(queue)
  /\ phase' = "run"
  /\ at' = 1
  /\ UNCHANGED <<order, nodeVars, ran, asked>>

(* rx_context_run_deferred_actions: sort once, then run up to a count that *)
(* is read again after every action.                                       *)
SortQueue ==
  /\ phase = "dispatch"
  /\ queue' = SortDescending(queue)
  /\ sorted' = Len(queue)
  /\ phase' = "run"
  /\ at' = 1
  /\ UNCHANGED <<order, nodeVars, ran, asked>>

RunAction ==
  /\ phase = "run"
  /\ at <= Len(queue)
  /\ ran' = Append(ran, queue[at])
  /\ Callback(queue[at].node)
  /\ at' = at + 1
  /\ UNCHANGED <<phase, order, nodeVars, sorted>>

ClearAfterSorted ==                      \* mutant: the count is read only once
  /\ phase = "run"
  /\ at > sorted
  /\ queue' = <<>>
  /\ phase' = "dump"
  /\ at' = 1
  /\ sorted' = 0
  /\ ran' = <<>>
  /\ asked' = 0
  /\ UNCHANGED <<order, nodeVars>>

ClearQueue ==
  /\ phase = "run"
  /\ at > Len(queue)
  /\ queue' = <<>>
  /\ phase' = "dump"
  /\ at' = 1
  /\ sorted' = 0
  /\ ran' = <<>>
  /\ asked' = 0
  /\ UNCHANGED <<order, nodeVars>>

Dump ==
  /\ phase = "dump"
  /\ Callback(Current)
  /\ Advance("idle")
  /\ UNCHANGED <<order, nodeVars, sorted, ran>>

Next ==
  \/ StartTick \/ Latch \/ EvaluateNode \/ CommitNode
  \/ SortQueue \/ RunAction \/ ClearQueue \/ Dump

Spec == Init /\ [][Next]_vars
-----------------------------------------------------------------------------
(***************************************************************************)
(* Correctness.                                                            *)
(***************************************************************************)

(* The node's turn in the current loop is still to come.                   *)
Pending(n) == \E i \in at .. Len(order) : order[i] = n

(* The state the tick has decided on: from the end of evaluate, a node     *)
(* that is still to commit counts as moved.                                *)
Decided ==
  [n \in Nodes |->
     IF phase = "commit" /\ Pending(n) THEN proposed[n].next ELSE state[n]]

Move(n, in, view) == Evaluate(n, in, view).next

Abstract == INSTANCE Synchronous WITH
  Groups <- {ToSet(list) : list \in ActiveLists},
  state  <- Decided

(* Evaluate before commit, whatever the order of the nodes: a tick is one  *)
(* synchronous step on the state before it (requirements.md, 1.1 to 1.3).  *)
ImplementsSynchronous == Abstract!Spec

(* A node that has evaluated proposes what the first-match or the greedy   *)
(* rule says of its latched input and the state the tick found.            *)
Proposals ==
  CASE phase = "evaluate" -> {order[i] : i \in 1 .. at - 1}
    [] phase = "commit" /\ at = 1 -> ToSet(order)
    [] OTHER -> {}

ProposalsObeyTheRules ==
  \A n \in Proposals : ObeysRule(n, latched[n], state, proposed[n])

(* user-c.md:571: by priority, first come first served among equals; what  *)
(* the actions themselves enqueue follows in order.                        *)
Before(e, f) ==
  IF e.id <= sorted /\ f.id <= sorted
    THEN e.priority > f.priority \/ (e.priority = f.priority /\ e.id < f.id)
    ELSE e.id < f.id

RunOrder == \A i, j \in DOMAIN ran : i < j => Before(ran[i], ran[j])

RunsOnce(n, t) ==
  \E i \in DOMAIN ran : \A j \in DOMAIN ran :
    (ran[j].node = n /\ ran[j].transition = t) <=> j = i

Acting(n) == {t \in ToSet(proposed[n].fired) : Transitions[n][t].action}

EveryFiredActionRan == \A n \in ToSet(order) : \A t \in Acting(n) : RunsOnce(n, t)

(* The tick goes on to dump only when what the queue took has run, once:   *)
(* what was enqueued while the queue was being run included, and nothing   *)
(* is lost before the queue is full.                                       *)
AcceptedActionsRun ==
  [][phase = "run" /\ phase' # "run" =>
       /\ Len(ran) = IF asked <= Capacity THEN asked ELSE Capacity
       /\ {ran[i].id : i \in DOMAIN ran} = DOMAIN ran
       /\ asked <= Capacity => EveryFiredActionRan]_vars

(* What an action or a dump reads is the whole tick's committed state.     *)
ActionsSeeEveryCommit ==
  phase \in {"dispatch", "run", "dump"} =>
    \A n \in ToSet(order) : state[n] = proposed[n].next
=============================================================================
