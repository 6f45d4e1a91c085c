------------------------------- MODULE Setup -------------------------------
(***************************************************************************)
(* How an application of the C library is put together: nodes are added to *)
(* runtimes (rx_runtime_add_node), runtimes to an executor                 *)
(* (rx_*_exec_add, which builds the runtime), the cyclic executive builds  *)
(* its table, and the executor runs.  The calls may come in any order and  *)
(* each may fail half way; a run is over before the next call.             *)
(***************************************************************************)
EXTENDS Integers, Sequences, FiniteSets, FiniteSetsExt, SequencesExt

CONSTANTS
  Runtimes,
  Executors,      \* subset of {"coop", "cyclic", "thread"}: the one in use
  Settings,       \* the [period, deadline] a node may be added with
  NodeCapacity,   \* node_capacity, and RXNET_MAX_RUNTIME_NODES
  MaxTasks,       \* RXNET_CE_MAX_TASKS, RXNET_THREAD_MAX_RUNTIMES
  MaxSlots        \* RXNET_CE_MAX_SLOTS

ASSUME SetupAssumption ==
  Settings \subseteq [period : Nat, deadline : Nat] /\ MaxSlots \in Nat

VARIABLES
  executor,   \* which executor this application uses
  nodes,      \* [runtime -> Seq(setting)]: rt->nodes
  base,       \* [runtime -> rt->period_us]; 0: not built, or no periodic node
  tasks,      \* the runtimes of the executor, in the order they were added
  table,      \* the slots of the cyclic executive; <<>> is nslots == 0
  contexts,   \* thread executor: the node contexts each group prepared
  running,    \* what the last call runs: a set of <<task, node>>, or {}
  late,       \* history: nodes added to a runtime after its last exec_add
  unseen      \* history: nodes added after the table was built

setupVars == <<executor, nodes, base, tasks, table, contexts, running, late, unseen>>

Registered(r) == r \in Range(tasks)
Ids(r)        == DOMAIN nodes[r]
Period(r, i)  == nodes[r][i].period
-----------------------------------------------------------------------------
SetupInit ==
  /\ executor \in Executors
  /\ nodes = [r \in Runtimes |-> <<>>]
  /\ base = [r \in Runtimes |-> 0]
  /\ tasks = <<>>
  /\ table = <<>>
  /\ contexts = <<>>
  /\ running = {}
  /\ late = {}
  /\ unseen = {}

(* rx_runtime_add_node: refused when the runtime is full; what was built   *)
(* of the runtime is forgotten, what the executor built is not.            *)
AddNode(r, setting) ==
  /\ Len(nodes[r]) < NodeCapacity
  /\ nodes' = [nodes EXCEPT ![r] = Append(@, setting)]
  /\ base' = [base EXCEPT ![r] = 0]
  /\ running' = {}
  /\ late' = IF Registered(r) THEN late \cup {<<r, Len(nodes[r]) + 1>>} ELSE late
  /\ unseen' = IF table # <<>> THEN unseen \cup {<<r, Len(nodes[r]) + 1>>} ELSE unseen
  /\ UNCHANGED <<executor, tasks, table, contexts>>

(* rx_runtime_build.                                                       *)
ValidButLast(r) ==                       \* mutant: the last node is not checked
  \A i \in Ids(r) \ {Len(nodes[r])} :
    Period(r, i) > 0 => nodes[r][i].deadline <= Period(r, i)

Valid(r) ==
  \A i \in Ids(r) : Period(r, i) > 0 => nodes[r][i].deadline <= Period(r, i)

CommonDivisor(periods) ==
  IF periods = {} THEN 0
  ELSE Max({d \in 1 .. Min(periods) : \A p \in periods : p % d = 0})

Periods(r) == {Period(r, i) : i \in Ids(r)} \ {0}

Builds(r) == nodes[r] # <<>> /\ Valid(r)

(* rx_coop_exec_add, rx_cyclic_exec_add, rx_thread_exec_add.               *)
RegisterKeepingTable(r) ==               \* mutant: the old table stays
  /\ tasks' = Append(tasks, r)
  /\ contexts' = Append(contexts, Ids(r))
  /\ late' = {l \in late : l[1] # r}
  /\ UNCHANGED <<table, unseen>>

Register(r) ==
  /\ tasks' = Append(tasks, r)
  /\ contexts' = Append(contexts, Ids(r))
  /\ late' = {l \in late : l[1] # r}
  /\ table' = <<>>
  /\ unseen' = {}

ThreadAccepts(r) == \A i \in Ids(r) : Period(r, i) > 0

ExecAdd(r) ==
  /\ Len(tasks) < MaxTasks
  /\ Builds(r)
  /\ base' = [base EXCEPT ![r] = CommonDivisor(Periods(r))]
  /\ IF Periods(r) # {} /\ (executor = "thread" => ThreadAccepts(r))
       THEN Register(r)
       ELSE UNCHANGED <<tasks, contexts, late, table, unseen>>
  /\ running' = {}
  /\ UNCHANGED <<executor, nodes>>

(* The barriers of a group cannot be had (rx_barrier_init): the runtime    *)
(* is built and not added.                                                 *)
ExecAddFails(r) ==
  /\ executor = "thread"
  /\ Len(tasks) < MaxTasks
  /\ Builds(r)
  /\ base' = [base EXCEPT ![r] = CommonDivisor(Periods(r))]
  /\ running' = {}
  /\ UNCHANGED <<executor, nodes, tasks, table, contexts, late, unseen>>
-----------------------------------------------------------------------------
(* rx_cyclic_exec_build: the nodes of every task as they are now.  A slot  *)
(* is kept as [<<task, node>> -> whether it is active there]; the order in *)
(* a slot is CyclicExec's.                                                 *)
AllPeriods == UNION {Periods(r) : r \in Range(tasks)}

(* The numbers of base periods after which every node is due again, of     *)
(* which the hyperperiod is the least, as far as the table holds them.     *)
SlotCounts ==
  {s \in 1 .. MaxSlots : \A p \in AllPeriods : (s * CommonDivisor(AllPeriods)) % p = 0}

SlotCount == Min(SlotCounts)

Activations == UNION {{t} \X Ids(tasks[t]) : t \in DOMAIN tasks}

DueIn(s) ==
  {a \in Activations :
     LET period == Period(tasks[a[1]], a[2]) IN
     period = 0 \/ (s * CommonDivisor(AllPeriods)) % period = 0}

CanBuild == tasks # <<>> /\ SlotCounts # {}

NewTable == [s \in 1 .. SlotCount |-> DueIn(s - 1)]

ExecBuild ==
  /\ executor = "cyclic"
  /\ CanBuild
  /\ table' = NewTable
  /\ unseen' = {}
  /\ running' = {}
  /\ UNCHANGED <<executor, nodes, base, tasks, contexts, late>>

(* rx_coop_exec_run: the nodes of the tasks as they are now.               *)
RunCoop ==
  /\ executor = "coop"
  /\ running' = Activations
  /\ UNCHANGED <<table, unseen>>

(* rx_cyclic_exec_run: the table there is, or a new one.                   *)
RunCyclic ==
  /\ executor = "cyclic"
  /\ IF table # <<>> THEN UNCHANGED <<table, unseen>>
     ELSE CanBuild /\ table' = NewTable /\ unseen' = {}
  /\ running' = UNION Range(table')

(* rx_thread_exec_run: a thread for every node the runtimes have now.      *)
RunThread ==
  /\ executor = "thread"
  /\ running' = Activations
  /\ UNCHANGED <<table, unseen>>

Run ==
  /\ tasks # <<>>
  /\ RunCoop \/ RunCyclic \/ RunThread
  /\ UNCHANGED <<executor, nodes, base, tasks, contexts, late>>

SetupNext ==
  \/ \E r \in Runtimes : \/ \E setting \in Settings : AddNode(r, setting)
                         \/ ExecAdd(r)
                         \/ ExecAddFails(r)
  \/ ExecBuild
  \/ Run

SetupSpec == SetupInit /\ [][SetupNext]_setupVars
-----------------------------------------------------------------------------
(***************************************************************************)
(* Correctness.  The exceptions are what the documentation leaves open: a  *)
(* node added when its runtime is registered already, and a runtime that   *)
(* is registered twice.                                                    *)
(***************************************************************************)

Node(a)   == <<tasks[a[1]], a[2]>>
Twice(r)  == Cardinality({t \in DOMAIN tasks : tasks[t] = r}) > 1

(* A run covers every node of every runtime of the executor, and a node's  *)
(* thread has the context its actions are queued in (cyclic.c:48, where    *)
(* nslots is reset; thread.c:427).  The cooperative executor looks at the  *)
(* nodes anew at every pass, the others at what they built.                *)
RunCoversNodes ==
  running # {} =>
    \A a \in Activations :
      /\ Node(a) \in unseen \/ a \in running
      /\ executor = "thread" =>
           Node(a) \in late \/ Twice(Node(a)[1]) \/ a[2] \in contexts[a[1]]

(* What runs was checked: no node has a deadline beyond its period, and no *)
(* thread has a node without a period, unless it was added after exec_add. *)
RunIsChecked ==
  \A a \in running :
    LET setting == nodes[Node(a)[1]][a[2]] IN
    \/ Node(a) \in late
    \/ /\ setting.period > 0 => setting.deadline <= setting.period
       /\ executor = "thread" => setting.period > 0
=============================================================================
