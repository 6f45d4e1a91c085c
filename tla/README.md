# rxnet in TLA+

rxnet is a runtime for synchronous reactive programs: nodes (state machines and
Petri nets) read latched inputs, decide, publish and write outputs in lock step,
driven by one of three executors (cyclic, cooperative, one thread per node).
There is a C library (`src/c`) and a Python twin (`src/python/rxnet`). This
directory holds the models of its core, of its examples and of what the Python
twin does otherwise, the TLC configurations that check them and the TLAPS proofs
about them.

    tlc -config ThreadExec.cfg MCThreadExec             # a run
    tlapm ThreadExecProofs.tla                          # the proofs

`PROJECT.json` lists the runs, the source lines of each definition (`map`), the
hazards, the findings, the theorems, and for each property a mutation of the
model that breaks it.

## 1. The system

| Component | State it keeps | Operations | Works with |
|---|---|---|---|
| Runtime tick (`c/src/runtime.c`) | nodes with period, deadline, WCET; a context: deferred queue, `activation_us`, active entry | `add_node`, `build`, `tick_nodes_at`, `rx_tick` | calls the node vtables; called by the cyclic and cooperative executors |
| Deferred queue (`runtime.c`) | up to 16 entries (fn, user, priority) | enqueue, run, dispatch (run, or post to a worker pool) | filled by evaluate and by any callback |
| State machine (`c/src/fsm.c`) | `state`, `next_state`, `proposed_action` | latch, evaluate, commit, dump | evaluate enqueues the action |
| Petri net (`c/src/pn.c`) | `places`, `next_places`, `fire_flags` | latch, evaluate, commit, dump | evaluate enqueues the actions |
| Threaded executor (`c/src/thread.c`) | `stop_requested`; per runtime a lock and a pool of activation groups (instant, count, done, two barriers); a context per node | `add`, `run`, `stop`, `on_stop` | threads share groups and barriers; guards read peers' committed state |
| Barriers (`c/include/rxnet/port/*.h`) | waiting, total, generation; tokens in FreeRTOS | init, reset, wait | used by the groups |
| Building and registration (`runtime.c`, the `exec_add` functions) | nodes of a runtime, runtimes of an executor, table, contexts | `add_node`, `build`, `exec_add`, `exec_build` | decides what `run` runs |
| Cooperative executor (`c/src/coop.c`) | per node the next tick and the next instant | `add`, `run`, `stop` | one runtime tick per runtime and pass |
| Cyclic executive (`c/src/cyclic.c`) | table of slots, current slot and instant | `add`, `build`, `run`, `stop` | one runtime tick per active runtime and slot |
| Critical sections (`runtime.c`) | resource table with a lock each; per context the open section | begin, end | node threads; measured times feed the schedulability checks |
| Schedulability checks (`thread.c`, `coop.c`, `cyclic.c`) | none | response-time analysis, slot load | `run` refuses an unschedulable set |
| Trace (`c/src/trace.c`) | ring of events, registries | attach, write, export | written by every thread |
| Python twin (`python/rxnet`) | as above, plus a worker pool with a priority queue | as above, plus `submit`, `shutdown`, a parallel tick | |
| Examples (`c/examples`, `python/examples`) | button flags, lamps, timers | interrupt, latch, actions, dump, commands, setters | nodes of every runtime and executor |
| Tools, diagrams | - | offline code generation and formatting | |

What is hard here:

* **Interleaving.** Threads of overlapping instants take, reuse and leave groups
  and barriers. A node that overruns keeps its group while others move on.
* **Ordering.** Evaluate before commit before actions before dump, for all nodes
  of an instant, whatever the order of the nodes.
* **Failure and stop.** A thread that cannot be created, a pool that is
  exhausted, a stop that some nodes of an instant see and others do not.
* **Time.** Overruns and late passes: which instants are skipped, merged or run
  late, and under which label.
* **Bounds.** A deferred queue that fills up in mid-evaluation or while it is
  being run; slot tables and resource tables with fixed limits.

What makes each component correct:

* *runtime tick*: a tick is one synchronous step on the state before it; every
  accepted action runs once, in order, after all commits; dispatch ends.
* *nodes*: first match for machines; greedy, never overdrawn firing for nets.
* *threaded executor*: the nodes of an instant meet; no lost wake-up; no slot is
  recycled under a thread; the default pool suffices; stop ends everything.
* *cooperative and cyclic executors*: instants of a runtime in order, none
  skipped, none early; asynchronous nodes at the base tick; stop returns.
* *critical sections*: mutual exclusion per resource, no section left open.
* *trace*: the ring is the end of what was stored, with the rest counted; an
  export never shows a word of an event older than its place says.
* *schedulability checks*: an accepted set meets its deadlines under the executor
  itself; a rejected one misses one, where the analysis claims to be exact.
* *building*: what runs is every registered node, validated and prepared.
* *Python*: one snapshot per tick, actions once and taken in order, pools that
  drain, and an executor that survives a callback that raises.
* *examples*: the machine and the net of each node, in both languages, agree as
  far as their clocks let them; timers are kept; a press reaches every node wired
  to its button.

## 2. Modules

| Module | Models | Kind |
|---|---|---|
| `Superstep` | what an executor promises to the nodes of one runtime | abstract |
| `ThreadExec` | `thread.c` with the barriers of `posix.h` | detailed |
| `ThreadExecInv` | its inductive invariant, in named parts | invariant |
| `ThreadExecProofs` | its theorems, the snapshot promise included | proofs |
| `NodeStep` | `evaluate` of `fsm.c` and `pn.c`, with the rules they should follow | operators |
| `Synchronous` | a tick as one synchronous step | abstract |
| `RuntimeTick` | `tick_nodes_at` and the deferred queue, over `NodeStep` | detailed |
| `StableSort` | the order in which deferred actions run, in C and in Python | operators |
| `TimeTriggered` | ticks of runtimes at their instants | abstract |
| `CyclicExec` | `cyclic.c` | detailed |
| `CoopExec` | `coop.c` | detailed |
| `PortBarrier` | `rx_barrier_t` of the three ports, one slot of the pool | component |
| `SharedResources` | critical sections and the resource table | component |
| `TraceRing` | writers, ring and export of `trace.c` | component |
| `NodeThreads` | node threads that use these three | composition |
| `NodeThreadsProofs` | the theorems of barriers, sections and trace | proofs |
| `Setup` | `add_node`, `build`, `exec_add`, tables, what `run` runs | detailed |
| `RuntimeProofs` | theorems of `RuntimeTick`, `Setup` and `Schedulability` | proofs |
| `CoopExecProofs`, `CyclicExecProofs` | theorems of the two single-threaded executors | proofs |
| `Schedulability` | the three checks, against the schedules they predict | detailed |
| `WorkerPool` | `worker_pool.py` | component |
| `PyRuntime` | the tick of `runtime.py`, composed with the pool | composition |
| `PyThreadExec` | `thread.py` | detailed |
| `PythonProofs` | the theorems of `PyRuntime` and `PyThreadExec` | proofs |
| `ExampleNodes` | light, auto and blink nodes in four versions, over `NodeStep` | detailed |
| `ExampleNodesProofs` | its theorems: what the four versions have in common, and their timers | proofs |
| `ExampleApps` | the wiring of the example programs | detailed |
| `Sums` | sums over finite sets | operators |
| `Lemmas` | remainders, least and greatest elements, sorted and ascending lists, sums, shared by the proofs | proofs |
| `MC*` | instances for TLC | |

A definition commented `mutant:` is not part of the model: it is a plausible
mistake in the definition that follows it, and shows that the property it breaks
says something about the code.

### Threaded executor

A step is the end of a callback with the synchronisation that follows it.
`pc[n]` names the callback (or wait) thread `n` is inside: `latch`, `evaluate`,
`evalWait`, `commit`, `deferred`, `commitWait`, `dump`, then `check` (the stop
test) and `sleep`. Between callbacks the thread touches only its locals, the
group (under `activation_lock`) and a barrier (under its mutex), so coarser
steps lose no interleaving of what others can see. `Spawn` and `SpawnFails` are
the creation loop (the last node, `Main`, runs on the caller's thread);
`JoinGroup`, `CreateGroup` and `PoolExhausted` the three outcomes of
`activation_group_get`; `Arrive` and `EvalWake`/`CommitWake` the two halves of
`rx_barrier_wait`, the local `gen` included; `Dump` contains
`activation_group_done`. `act[n]` is `activation_us`; `commits[n]` is a history
of published ticks. Callbacks may take arbitrarily long; a property about nodes
in time says so itself (`InTime`).

### Barriers, sections and trace: `NodeThreads`

`PortBarrier` looks closer at the barriers than `ThreadExec` does: the condition
of POSIX and Zephyr, and the turnstile of FreeRTOS, whose tokens name nobody and
survive a reset. It has one slot of the group pool; a slot is reset for each
group. `SharedResources` splits `critical_begin` where the code does, between
the search of the table (under `table_lock`) and the lock of the resource, and
`critical_end` before `critical_started_at` is cleared. `TraceRing` splits
`rx_trace_write` after the clock is read (`Stamp`) and again in the middle of the
event, under the lock of the ring (`Overwrite`, `Store`). The export takes its
counters under that lock (`Snapshot`) and copies the events without it, word by
word (`Copy`): a slot is two words, its time and the rest, so an exported event may
be torn between the old and the new one of a slot that is being overwritten. The
counters wrap at `HeadModulus`. `NodeThreads` gives each node thread one thing
to do at a time: it uses a resource or traces inside a callback, and leaves the
callback with no section open, as the user guide shows it.

### Runtime tick

A tick is sequential, but each callback is application code that reads committed
state and may enqueue, so each is a step. `Latch`, `EvaluateNode`, `CommitNode`,
`Dump` are the bodies of the four loops; `SortQueue`, `RunAction`, `ClearQueue`
are `rx_context_run_deferred_actions`, whose loop bound is read again after
every action. `Guard` is a constant operator of node, transition, latched input
and committed state: guards are pure reads. `sorted`, `ran` and `asked` are
histories of one dispatch. Waiting actions of dump callbacks stay in the queue
and run in the next tick, as in the code.

### Cooperative executor and cyclic executive

A runtime tick is one interval (`pc = "tick"`) in which time passes and a stop
may arrive. In `CoopExec`, `due[n]` stands for both `next_tick` and
`next_activation_us` (they advance together); `StartTick` collects what has
expired at `polled`, advances it, sorts it and labels it with the earliest
instant. In `CyclicExec`, `Table(s)` is the slot `rx_cyclic_exec_build` fills;
`EndSlot` joins the three updates at the end of the loop body (the slot index is
local, so moving it before the sleep changes nothing anyone sees); a table that
does not fit `MaxSlots` ends `run` at once.

### Setup and schedulability

`Setup` is the API before and between runs: its actions are the calls, with the
order of their checks and what each leaves behind when it fails half way. What a
run executes is kept as a set of (task, node) pairs; the order is the
executors' matter. `late` and `unseen` are histories of nodes added after
`exec_add` or after the table was built, which no document forbids and the code
does not handle; the properties except exactly these.

`Schedulability` evaluates a check in `CheckInit` and then runs the schedule it is
about: preemptive fixed priorities for the threads, registration order for the
cooperative pass, slot after slot for the cyclic executive, each tick taking
its worst case. Tasks are one-node runtimes, so that no barrier is involved:
the response-time analysis of `thread.c` ignores barriers. `Demand` is what the loop
of the analysis computes from its last estimate, `Response` the loop itself.

### Python

`WorkerPool` distinguishes a worker that sleeps on the condition from one that
is ready to look at the heap, so that a lost notification would show. A worker pops
an action under the condition (`Take`) and calls it outside (`Begin`); any other
worker may pop and begin a later one in between.
`PyRuntime` composes it with the four phases in sequence or on an executor, and
with actions that enqueue or submit others. `PyThreadExec` has the parts in
which `thread.py` differs from `thread.c`: groups in a dictionary,
`threading.Barrier` with `abort`, a callback that raises, and the `finally`
block of `run`, which copies groups under the lock of each runtime and aborts
them without it.

### Examples

`ExampleNodes` runs the four versions of one node (machine and net, C and
Python) side by side; `NodeStep` evaluates them. A tick has the five phases of the
runtime (`Latch`, `Evaluate`, `Commit`, `Act` for the deferred actions, `Dump`).
`Press` (an interrupt) and `Set` (a setter, called by the command line) may come
between any two of them: where a setter falls depends on the program, before the
tick in `pn/02-auto` and in Python, among the actions and dumps of the tick itself
in `fsm/02-auto`, anywhere in the threaded ones.

`clock` counts nanoseconds, as `rx_tick_now` of the C machines does; the nets and
the Python versions read it in whole milliseconds, rounded down (`Now`), and the half
periods of a rate are whole microseconds or whole milliseconds (`HalfPeriod`). Which
reading a timer starts from is a matter of the version: an action starts it from
the time of the latch, but in the Python auto light from a new reading (`AutoOn`
where it turns the light on, `StartTimer` always); a setter from the last latch
in the C machines (`auto_fsm.c:160`, `blink_fsm.c:212`), from a new reading in the
others (`auto_pn.c:172`, `blink_pn.c:238` and the Python twins; `StartsFrom`).
`since` is a history of when each timer was last set: between `from` and `to`, for
`span`. `raced` is a history of a press or a setter that met a timer already due
while the node does both.

What is assumed: the four versions are given the same readings of the clock,
presses and setter calls at the same moments; a setter or a press falls between two
phases and not inside a callback; the clock starts at zero, and the rounding of
Python's floating-point seconds is that of whole nanoseconds.

`ExampleApps` has one record per program of `c/examples`: which node reads which
button, the runtimes in the order of registration, the executor, the slow nodes and the
commands. The command line is a node too: its guard reads a character and its
deferred action runs the command. `quit` leaves the process and is left out.

## 3. Runs

| Run | Instance | What it shows |
|---|---|---|
| `te` | 3 threads, periods 2, 3, 4, instants to 6, pool of 2, unlimited overruns, creation may fail, stop at any time | no peer publishes ahead, the promised snapshot for nodes in time, no lost wake-up, every instant completes, a stop ends all ticking, refinement of `Superstep` |
| `te_stop_hangs` | 2 threads, periods 2, 3 | **violated**: `run` may never return after a stop |
| `tick` | 2 machines and 1 net that read each other, 4 node lists, queue of 4 | rules of evaluation, order and completeness of actions, actions after all commits, refinement of `Synchronous` |
| `coop` | 2 runtimes (harmonic with an asynchronous node; 2 and 3), clock to 14, any overload, stop | exact ticks without overload, increasing instants, backlog drains, stop returns |
| `cyclic` | 2 runtimes, 12 slots, clock to 26, any overrun, stop | refinement of `TimeTriggered`, asynchronous nodes in every slot |
| `services` | 2 node threads, each port, 2 resources and 1 table entry, ring of 2, counters modulo 4, 4 events, one export | nobody passes a barrier early or is left in it, mutual exclusion, complete records, ordered sections in the trace, the ring is the end of the log, no word of an export is stale |
| `pytick` | 2 nodes, 2 workers, 2 ticks, one spawning node, four configurations | one snapshot per tick, actions after commits, overtaken only between the pop and the call, each begins once, shutdown drains |
| `pythread` | 2 runtimes, 3 threads, periods 1 and 2, instants to 2, two nodes that may raise, stop | a torn instant is the last, `run` returns unless a peer ended early, nothing ticks afterwards |
| `sched` | every 3 tasks with periods to 4 (for coop to 3, and 2 tasks to 6), every record of 4 tasks on 2 resources, watched to 30 | accepted sets meet deadlines, sets rejected without blocking miss one, the blocking term is the largest |
| `setup` | 2 runtimes, 2 nodes each, 5 settings, 2 tasks, 4 slots, each executor | a run covers every node and runs only what was validated |
| `examples` | each node with 2 settings, 7 ticks that come 50.0 or 125.5 ms apart and take 0.7 ms, 2 calls of a setter, presses and setters in any phase | the versions agree where their timers can be compared, timers are kept, presses survive |
| `apps` | all 23 programs, 3 instants | a press is read by every node wired to the button before it is cleared |

Bounds. `Horizon` stops the clock; it never cuts a sleep that must end for a stop
to be seen. For the threads, 6 is past the instants 2, 3, 4 and 6, where every
pair of the periods has met and a fast node can be two instants ahead of a slow
one, so up to three groups want to be open at once and slots are reused; a pool
of 2 is exhausted in some behaviours and not in others. For `coop`, 14
spans more than one common period of each runtime and an arbitrary backlog
inside it. For `cyclic`, 26 is two hyperperiods of 12 with the wrap. A queue of 4
can be filled by the three transitions with actions of one tick and one request
of the application: both sides of the limit are reached. In `services` the table
has one entry for two resources, so the refusal happens, and a ring of two with
four events drops two and wraps its counter; `Callbacks` lets only the deferred
actions use sections and traces (the phase between the two barriers), which all
interleavings with both barriers contain. In `sched` every response ends before
12 and the watch goes on to 30, past every hyperperiod; among the sets of three
cooperative tasks are some that are accepted and miss. In `setup` periods 2 and
4 fit the four slots and 2 and 3 do not. In `examples`
ticks are latched at fractions of a millisecond, and the 0.7 ms before their actions
may or may not reach the next whole one; a timeout of 100 ms is two ticks, one of
175 ms half a millisecond less than an ordinary and a late one; 125.5 ms is later than every half
period (83.333, 50, 41.666 and 25 ms, and 83, 50, 41 and 25 in milliseconds), so
that up to five toggles are missed at once; two calls let a setter restart a timer that
another setter has started, before or after its tick found it due.

`CHECK_DEADLOCK FALSE` is set where threads may really stay in a barrier, have
gone, or the bound ends the behaviour (`te`, `te_stop_hangs`, `pytick`,
`pythread`, `sched`, `setup`, `examples`).

Symmetry is used in `services` only, for node threads and resources, which no
property and no definition tells apart.

Fairness. `FairSpec` gives weak fairness to each thread (or to the one executor
thread) and to the clock: the operating system schedules runnable threads,
callbacks return, and time passes. The code waits only on barriers and sleeps,
whose guards stay true once they are true, so weak fairness is enough. A stop is
never fair: the application need not ask for it. `PyRuntime` has weak fairness
for the tick and for each worker, not for the shutdown; `PyThreadExec` for each
thread and the `finally` block, not for a callback that raises.

## 4. Findings

`te_stop_hangs`: `stop_requested` is tested by each node at the end of its own
tick, so nodes of one instant can differ; the one that goes on waits in a
barrier for peers that are gone, and if it is the calling thread `run` hangs,
against `thread.h:127`. `StopQuiesces` (run `te`) says what does hold.

Other divergences from the documents, listed under `hazards` in `PROJECT.json`
with the lines on both sides: `run` does not wait for the other threads
(`thread.c:517`); actions run before the commit barrier (`thread.c:223`); the
snapshot promise needs harmonic periods and nodes in time (`OnTimeSnapshot`); a
full queue drops the action of a transition that fires (`fsm.c:37`); an
overloaded cooperative pass merges instants under one label (`coop.c:259`);
`port.h:46` promises a reusable barrier and the turnstile of FreeRTOS is one
only if it is reset between rounds, which the executor does (`BarrierHolds`);
the checks of the cooperative executor (three runtimes and more) and of the
cyclic executive (slots that overrun) accept sets that miss deadlines, so
`AcceptedMeetDeadlines` names both exceptions, and without them it does not hold on
the instance; `enter_blink_x2` of
`blink_fsm.c` starts with the half period of the slow mode; the auto net fires
refresh and auto-off together when a press meets the timer; after a change of its
setting a C machine counts from its last latch and the other versions from the
call, so they may go off or toggle a tick apart, and a change that comes when a tick has
already found the timer due does not stop what is due; the worker pool's "FIFO order is
preserved" (`worker_pool.py:43-45`) holds of the pops, not of the calls, which
`OvertakenOnlyWhenTaken` makes precise; an export beside writers may contain torn
events (`trace.c:300-310` against `189-194`), which no document forbids and which
`ExportNeverStale` confines to slots that are overwritten meanwhile; and in
`pn/04-mix/main_threads.c` a press from the command line may reach only one of
the two nodes wired to the button.

## 5. Proofs

All for any number of nodes, any periods, any deadlines, with overruns, stops and
failed creations; nothing is assumed but the named `ASSUME`s of the modules,
which TLC evaluates on every instance. Each invariant below was first checked by
TLC on the instance of the run.

**How the models are written for it.** A recursive definition can be unfolded by
the provers but not be reasoned about by induction, so what an algorithm computes
is said by its result where that is what a property needs, and the algorithm is
compared with it by TLC. `SortDescending` says where each entry goes instead of
inserting one after the other; `InsertionSortOfTheQueue` (an `ASSUME` of
`MCRuntimeTick`) compares it with the insertion sort on every queue of up to five
entries. `Base` and `SlotCount` of `CyclicExec` and `Setup` are a greatest and a
least element; `MCCyclicExec` compares them with the gcd/lcm loop of the source.
The tables of active nodes are functions from nodes to places rather than
sequences. Where a recursive function had to stay (`NetEvaluate`, one pass over
the transitions of a net; the deferred actions of `DoAll`), its existence and its
invariant are each shown by the least number for which they would fail (`Least`
of `Lemmas`), which needs no induction theorem. Sums are folds, which take an
operator: `Sums` gives them a function instead (`SumOver`), and `SumExists`,
`SumIsUnique` and `SumUnfolds` of `Lemmas` show, by the size of the sets, that
they are computed element by element.

**`ThreadExecProofs`.** `InductiveInvariant` proves `Spec => []IInv`. The
properties are not inductive: that nobody publishes while a peer evaluates
follows only from what the barrier counters count. `IInv` therefore says, of
each slot in use, that `count`, `done`, `total` and `waiting` are the
cardinalities of the participants, of those through, and of those asleep
(`SlotCounts`, `EvalBarrier`, `CommitBarrier`); that a barrier is open with
nobody past it or closed with all participants arrived; and that a group stays
in use as long as some node of its instant has passed and another has not
(`GroupOpen`): without this, a late node would create a second group for the
same instant and wait in it alone. One lemma per action shows that a step
preserves the invariant; lemmas on multiples of periods give the next instant of
a node. From it follow `TypeCorrect`, `GroupsAreSound`, `NoPeerIsAhead`,
`DumpsComeLast`, `NoLostWakeUp`, `PoolIsLargeEnough` (under
`PoolSize >= NodeCount`, the default of `config.h`, by the pigeonhole
principle: a used slot holds a thread and the one that asks holds none), and
`Refinement`: the executor implements `Superstep`. `SnapshotsAreExact` is the
promise of the user guide for harmonic periods (`OnTimeSnapshot`). It does not
follow from the barriers alone: `NodesInLockstep` ties the number of published
ticks to the instant of a node, `NoTickIsEarly` says no node is inside an instant
before its time, and lemmas on multiples (`Divides`, `MultiplePrevious`) show
that a peer in time is neither an instant ahead nor behind.

**`RuntimeProofs`, the tick.** `TickInvariant` says what the nodes already handled
by the current loop have done; from it `ActionsSeeTheWholeTick` and
`TicksAreSynchronous`, the refinement of `Synchronous` under the mapping that
moves all nodes of a tick at the end of evaluate. `MachinesFollowFirstMatch` is
the evaluation rule of state machines for every transition list and guard.
`NetsFireGreedily` is that of Petri nets, for every list of arcs, repeated places
included: the marking after `t` transitions is the one `LeftBehind` computes place
by place, so the test of the pass against `next_places` is the test of the rule
against what the earlier transitions left. `NodesObeyTheRules` is
`ProposalsObeyTheRules` of a whole tick: that what a node proposed before is still
what its rule says rests on the phases (`TickInv`: nobody commits while another
evaluates) and on the state of a net always being a marking (`Markings`, from
`InitialAssumption`, the array that `rx_pn_net_init` copies).
`QueueInvariant` adds the queue: it holds what was offered up to its capacity
(`QueueBounded`); until the sort its entries are in order of arrival (`Waiting`);
while it is run, those the dispatch found are a permutation in the order of the
sort, those that actions added follow in order of arrival, and those before the
index have run (`BeingRun`); and each action of a transition that has fired is in
it once, unless it was full (`HoldsTheFired`). The last needs that an evaluation
fires each transition at most once (`Fired`), for nets too. `ActionsRunInOrder`
and `AcceptedActionsAreRun` follow.

**`RuntimeProofs`, building.** `OnlyCheckedNodesRun` rests on tables naming only
nodes of the registered runtimes: node numbers grow, and a new runtime resets the
table. `RunsCoverTheNodes` needs the converse, up to the nodes that came late:
the first slot of a table holds every node there was (`TableCovers`, since
0 is a multiple of every period), and each task has the contexts of its nodes
unless its runtime was registered again (`ContextsCover`).

**`RuntimeProofs`, the schedulability checks.** The hypotheses are those of
`AnalysedAssumption`: periods, deadlines and worst cases are positive, no deadline
is longer than its period, and the watch spans a hyperperiod. `BlockingFound`: the
recursion over sets of tasks is shown to exist, and its value to be the length of
the longest combination, by a smallest set for which either would fail
(`SmallestSet`): the first task of the set contributes nothing or one section, and
the rest must avoid its resource. For the two response-time analyses, the loop ends
at or below the deadline exactly if some value within the deadline covers its own
`Demand`. `AcceptedIsInTime` turns that into schedules:

* threads (`ThreadsInTime`, `Busy`): while a task is waiting there is an instant
  since which the processor has worked for it and for higher tasks only, and what
  these have released since then is at most the demand; an interval as long as a
  value that covers its demand therefore ends with the task done.
* cooperative (`CoopInTime`): two runtimes. At the end of a pass no task is late, or
  one is behind by less than one tick of the other, which is then not yet due, so
  the late one is served before the other runs again. With three runtimes a tick of
  each of the others can come first, while the check counts the longest one only.
* cyclic (`OnTable`): under `TableIsRun` every slot starts on time and the tasks of
  its prefix have taken what `Finish` sums up.

`RejectedIsLate` needs the converse. For the threads, `ThreadsLate` says that from
the critical instant on the processor is never idle nor working for a lower task
before a task's demand is covered, so a task without such a value within its
deadline is not done by then; for the slots, `OnTable` gives the finishing times
exactly.

**`CoopExecProofs`.** `InstantsOfRuntimeIncrease` rests on every node of a runtime
being ahead of what the runtime last ticked for. `OnTimeTicksForOneInstant` needs
more: that the next instants of a runtime's nodes are multiples of their periods
not more than one period ahead of the last pass, so that in a runtime with
harmonic periods that is polled in time no two different instants can have
expired at once.

**`CyclicExecProofs`.** The invariant ties the instant of the current slot to the
slot's place in the table: they agree modulo every period (`OnTheGrid`), and no
runtime is behind the slot or ahead of it (`InStep`). That the table
repeats is where the least common multiple matters (`SlotCount` times `Base` is a
multiple of every period, and a slot is due in the table exactly when its label
is due on the clock). `AsyncNodesRunEveryBaseTick` and `TableIsTimeTriggered`, the
refinement of `TimeTriggered`, follow: the next active slot of a runtime is the
next instant at which one of its nodes is due, also across the wrap.

**`PythonProofs`, the tick.** The phases of a tick let nobody read a state that is partly
committed (`Phased`, `TicksAreSynchronous`). `OvertakenActionsAreTaken`:
what is on the heap or in the queue is of ticks whose nodes have all committed
(`AllRipe`), what the workers have popped or the batch has begun is not younger than
what waits (`Queued`, `Batched`, `InOrder`), and no accepted action is lost
(`Kept`). So one that has been overtaken is neither on the heap nor in the queue nor
in the batch, and a worker has it in its hands.

**`PythonProofs`, the threaded executor.** `NoNodePassesATornInstant`: a node is counted by the
commit barrier of its instant only once it has committed (`Counted`), so a commit
barrier that opened did so with all nodes of the instant committed (`OpenHolds`).
An abort may break that barrier again, so what is kept of it is said of the nodes
it let through: those in the dump (`DumpHolds`) and those already at a later
instant (`PastHolds`).

**`NodeThreadsProofs`.** *Sections*: `IInv` of the node threads ties each lock of
the table to the one open section on its resource (`LocksMatchSections`), what is
recorded of a node to the table (`RecordsComplete`), and every timestamp not yet
stored to the events already stored of the resource it was taken under
(`StampsAreFresh`). `SectionsExclude` and `NobodyHoldsAndWaits` follow from the
first. `SectionsAreMeasured` is a counting argument: a record as large as the
table holds all of it (`FullRecordMissesNothing`). `TraceOrdersSections` needs the
last: the clock is read inside the section, so the one before has stored.
*Ring*: a slot holds the newest of the events stored in it (`SlotsAreNewest`) and
all counters are the length of the log modulo their range. Lemmas on remainders
(`ModUnique`, `ModMod`, `ModPlus`, `ModApart`) then give `RingIsTheEndOfTheLog`,
and `ExportsAreFresh` while writers overtake the export, for each word of a slot; both
need the capacity to divide the range of the counters. The slot in which a writer
stands is excepted from the ring (`RingIsTheEndOfTheLog`) while it holds the lock; its
first word is already of the next event (`SlotsAreNewest`).
*Barriers*: `BarrierInv` counts: a barrier is open with as many waiting as have
come and nobody past it, or closed with, in a turnstile, one token for each thread
still in it. The last clause is why a reset that keeps the tokens is harmless: a
slot is free only when they have all been taken (`BarriersHold`).

**`ExampleNodesProofs`.** For any timeouts, rates, gaps between ticks and lags of
actions and setters (`SettingsAssumption`: timeouts and rates are not zero, as the
setters demand). The four properties compare histories of different encodings, at
the end of a tick, and none is inductive. `Inv` describes every phase. What is shared
comes first: the setting and the clock, and that a press after the latch is still in
the button or the tick handles an earlier one (`SharedInv`, `PressInv`). Then each
version by itself (`VersionInv`): its node is one of those that a mode, a
request and a due timer make, with the actions that the evaluation of exactly those
queues (`StateInv`); and its timer is what `since` says it is
(`KindInv`). For the auto light that is a bound on both sides, `OffFrom` and `OffBy`,
of when it goes off, with what a tick under way has already decided
excepted; for the blinking lamp, that the next toggle is a whole number of half
periods after it was set going, with that number's parity in the lamp
(`OnSchedule`). `After`, `Ends` and `Blinks` say what an evaluation chooses in each
mode (the first match of a machine, the one or two transitions of a net), `Effect`
what the queued actions then leave, at whatever moment a setter came between. One
lemma per action shows that it keeps each part. `PressesSurvive`, `FourVersionsAgree`,
`AutoGoesOffInTime` and `BlinkKeepsSchedule` follow. The exceptions are those the
properties state: `raced`; the C machine in its fast mode; and, for two auto
lights to be compared, timers that were set by the same event and a tick that does
not fall between the moments at which they may go off (`Comparable`). What is proved
is as good as the assumptions of section 2: the same clock and the same events for
all four, between phases.

Only model-checked: all liveness (fairness and ENABLED are beyond the prover);
that the sort and the gcd/lcm loop compute what the models say of them;
`PressReachesAll`, which is about 23 given programs and holds or not by
their wiring; and what is violated.

## 6. Not modelled

* Memory management, argument checks for NULL, logging and WCET measurement.
* Several runtimes in one threaded executor: groups of runtimes share only
  `stop_requested`, `t0` and the order of creation. Thread priorities, except in
  `Schedulability`.
* The check reports, `RX_SCHED_NO_MEASUREMENT`, and tasks of several nodes in
  `Schedulability`: the analysis has no term for a barrier, so what it says of
  them is not what the executor does.
* Posting to a worker pool in C (`post` is the application's). Under the
  threaded executor the contexts of the nodes have no pool at all.
* Guards and callbacks that write shared state outside the phases; a critical
  section left open across callbacks.
* Double places in the arc lists of one transition in the runs: `NodeStep` tests
  and applies them as the code does, but the checked instance has none. The proof of
  `NetsFireGreedily` covers them.
* Tearing inside one word of a trace event: the time and the rest are each
  written and copied at once, where the code and `fwrite` move bytes.
* Setters and presses inside a callback of an example node, and the rounding of
  Python's floating-point clock.
* Width of integers, except the counters of the trace ring; a stop requested
  before `run` has reset the flag; a second `run`.
* Names, attach tables and file format of the trace; the Python trace, which has
  the same ring under the interpreter lock.
* The cooperative and cyclic executors of Python (they differ from C in the
  order of runtimes and in the slots of asynchronous nodes), generated code,
  tools and diagrams.

## 7. Plan

1. Several runtimes in `ThreadExec`, and a second `run` after a first.
2. The Python cooperative and cyclic executors against `CoopExec`'s properties
   and `TimeTriggered`.
3. Proofs: a condition under which the check of the cooperative executor is right
   for more than two runtimes.
4. `Schedulability` for runtimes of several nodes, with the barriers.
