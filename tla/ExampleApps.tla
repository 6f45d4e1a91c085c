---------------------------- MODULE ExampleApps ----------------------------
(***************************************************************************)
(* The example applications (c/examples): how main() wires the nodes of    *)
(* ExampleNodes to buttons, groups them in runtimes and gives these to an  *)
(* executor, and what becomes of a press.                                  *)
(*                                                                         *)
(* Several nodes share a button: each reads its flag in latch_inputs, and  *)
(* each that has read a press clears it in dump_outputs.  The command line *)
(* is a node as well; its commands press the buttons.  Without a command   *)
(* line (ESP-IDF) a button interrupts at any moment.                       *)
(*                                                                         *)
(* A unit is what one thread of control ticks: a runtime, or under the     *)
(* threaded executor a single node.  Instants are multiples of 10 ms; a    *)
(* unit may be late by any time, so there is no clock.                     *)
(***************************************************************************)
EXTENDS Naturals, Sequences, SequencesExt, TLC

CONSTANTS
  Apps,       \* the applications
  Horizon     \* bound: instants a unit begins

VARIABLES
  app,        \* the application that runs
  event,      \* [button -> s_button_event]
  latched,    \* [node -> the flag it read]
  typed,      \* the command whose line the character just read ends
  instant,    \* [unit -> its instant]
  todo,       \* [unit -> what is left of its tick: <<phase, node>> in order]
  unseen      \* history: the nodes that have not read their flag since it was set

tickVars == <<instant, todo>>
vars == <<app, event, latched, typed, tickVars, unseen>>
-----------------------------------------------------------------------------
(* The applications: main() of each.                                       *)

TwoButtons == [a |-> "A", b |-> "A", c |-> "B"]
TogetherWithCli == <<<<"a", "b", "c", "cli">>>>
CliFirst == <<<<"cli">>, <<"a", "b", "c">>>>
CliLast  == <<<<"a", "b", "c">>, <<"cli">>>>

(* The commands, and the button each of them presses.                      *)
LightCommands ==
  [a |-> "A", b |-> "B", status |-> "none", sched |-> "none", help |-> "none"]
And(commands, more) == commands @@ [command \in more |-> "none"]

FsmLight == [executor |-> "coop", button |-> TwoButtons, runtimes |-> TogetherWithCli,
             slow |-> {}, commands |-> LightCommands]
FsmAuto  == [FsmLight EXCEPT !.commands = And(@, {"timeout"})]
FsmBlink == [FsmLight EXCEPT !.commands = And(@, {"freq"})]

PnLight == [FsmLight EXCEPT !.runtimes = CliFirst]
PnAuto  == [FsmAuto EXCEPT !.runtimes = CliFirst]
PnBlink == [FsmBlink EXCEPT !.runtimes = CliFirst]

Mixed == [executor |-> "coop", button |-> [a |-> "A", b |-> "B"],
          runtimes |-> <<<<"cli">>, <<"a", "b">>>>,
          slow |-> {}, commands |-> [a |-> "A", b |-> "B", sched |-> "none"]]

FsmMixCoop    == [FsmLight EXCEPT !.slow = {"c"}, !.commands = And(@, {"freq", "timeout"})]
FsmMixCyclic  == [FsmMixCoop EXCEPT !.executor = "cyclic"]
FsmMixThreads == [FsmMixCoop EXCEPT !.executor = "thread"]

PnMixCoop    == [FsmMixCoop EXCEPT !.runtimes = CliLast]
PnMixCyclic  == [FsmMixCyclic EXCEPT !.runtimes = CliLast]
PnMixThreads == [FsmMixThreads EXCEPT !.runtimes = CliLast]

(* The same with the tracer attached, and a command to export the trace.   *)
Traced(a) == [a EXCEPT !.commands = And(@, {"trace"})]

FsmMixCoopTrace    == Traced(FsmMixCoop)
FsmMixCyclicTrace  == Traced(FsmMixCyclic)
FsmMixThreadsTrace == Traced(FsmMixThreads)
PnMixCoopTrace     == Traced(PnMixCoop)
PnMixCyclicTrace   == Traced(PnMixCyclic)
PnMixThreadsTrace  == Traced(PnMixThreads)

(* app_main of the ESP-IDF builds: rx_fsm_tick every 10 ms, all nodes due. *)
EspLight == [executor |-> "loop", button |-> TwoButtons,
             runtimes |-> <<<<"a", "b", "c">>>>, slow |-> {}, commands |-> <<>>]
EspAuto  == EspLight
EspBlink == EspLight
EspMix   == EspLight
-----------------------------------------------------------------------------
Lights  == DOMAIN app.button
Nodes   == UNION {ToSet(runtime) : runtime \in ToSet(app.runtimes)}
Buttons == {app.button[n] : n \in Lights}
Wired(pin) == {n \in Lights : app.button[n] = pin}

Units == IF app.executor = "thread" THEN {<<n>> : n \in Nodes} ELSE ToSet(app.runtimes)

Every(n) == IF n \in app.slow THEN 2 ELSE 1
Due(n, k) == k % Every(n) = 0

(* The nodes of n's runtime that share instant k with it.                  *)
Group(n, k) ==
  {m \in Nodes : Due(m, k) /\ \E runtime \in ToSet(app.runtimes) : {n, m} \subseteq ToSet(runtime)}

Phases == <<"latch", "evaluate", "react", "dump">>

(* rx_runtime_tick_nodes_at, or the body of node_loop: phase by phase, the *)
(* active nodes in order.  "react" is commit and the deferred actions.     *)
Schedule(u) ==
  LET active == SelectSeq(u, LAMBDA n : Due(n, instant[u])) IN
  FlattenSeq([p \in DOMAIN Phases |-> [i \in DOMAIN active |-> <<Phases[p], active[i]>>]])

Init ==
  /\ app \in Apps
  /\ event = [pin \in Buttons |-> FALSE]
  /\ latched = [n \in Lights |-> FALSE]
  /\ typed = "nothing"
  /\ instant = [u \in Units |-> 0]
  /\ todo = [u \in Units |-> <<>>]
  /\ unseen = {}

(* app_driver_trigger_button, button_isr_handler.                          *)
Press(pin) ==
  /\ event' = [event EXCEPT ![pin] = TRUE]
  /\ unseen' = IF event[pin] THEN unseen ELSE unseen \cup Wired(pin)

(* cmd_button_a, cmd_button_b; no other command touches a button.          *)
Run(command) ==
  IF command \in DOMAIN app.commands /\ app.commands[command] \in Buttons
    THEN Press(app.commands[command])
    ELSE UNCHANGED <<event, unseen>>

CliInGuard(p) ==                         \* mutant: has_char runs the command it reads
  /\ UNCHANGED <<latched, typed>>
  /\ IF p = "evaluate" THEN \E command \in DOMAIN app.commands : Run(command)
     ELSE UNCHANGED <<event, unseen>>

(* The command line.  Its guard has_char reads a character, which may end  *)
(* the line of a command; its action handle_char, deferred, runs it.       *)
Cli(p) ==
  /\ UNCHANGED latched
  /\ CASE p = "evaluate" -> /\ typed' \in DOMAIN app.commands \cup {"nothing"}
                            /\ UNCHANGED <<event, unseen>>
       [] p = "react"    -> typed' = "nothing" /\ Run(typed)
       [] OTHER          -> UNCHANGED <<event, typed, unseen>>

Latch(n) ==
  /\ latched' = [latched EXCEPT ![n] = event[app.button[n]]]
  /\ unseen' = IF event[app.button[n]] THEN unseen \ {n} ELSE unseen
  /\ UNCHANGED event

(* A press that was read has been consumed by now: see ExampleNodes.       *)
Dump(n) ==
  /\ event' = [event EXCEPT ![app.button[n]] = @ /\ ~latched[n]]
  /\ UNCHANGED <<latched, unseen>>

Light(n, p) ==
  /\ UNCHANGED typed
  /\ CASE p = "latch" -> Latch(n)
       [] p = "dump"  -> Dump(n)
       [] OTHER       -> UNCHANGED <<event, latched, unseen>>

(* One runtime is ticked at a time, except by the threads; which one is    *)
(* next is left to CoopExec and CyclicExec.                                *)
BeginTick(u) ==
  /\ todo[u] = <<>>
  /\ app.executor # "thread" => \A v \in Units : todo[v] = <<>>
  /\ instant[u] < Horizon
  /\ todo' = [todo EXCEPT ![u] = Schedule(u)]
  /\ UNCHANGED <<app, event, latched, typed, instant, unseen>>

(* The barriers of the threads (ThreadExec, PortBarrier): react and dump   *)
(* wait until the whole group has come as far.                             *)
CameAsFar(m, k, left) ==
  \/ instant[<<m>>] > k
  \/ instant[<<m>>] = k /\ Len(todo[<<m>>]) \in 1 .. left

MayGoOn(u) ==
  app.executor = "thread" /\ todo[u][1][1] \in {"react", "dump"} =>
    \A m \in Group(u[1], instant[u]) : CameAsFar(m, instant[u], Len(todo[u]))

Step(u) ==
  /\ todo[u] # <<>>
  /\ MayGoOn(u)
  /\ LET p == todo[u][1][1]
         n == todo[u][1][2]
     IN  IF n = "cli" THEN Cli(p) ELSE Light(n, p)
  /\ todo' = [todo EXCEPT ![u] = Tail(@)]
  /\ instant' = IF Len(todo[u]) > 1 THEN instant
                ELSE [instant EXCEPT ![u] = @ + (IF Len(u) = 1 THEN Every(u[1]) ELSE 1)]
  /\ UNCHANGED app

Interrupt ==
  /\ app.executor = "loop"
  /\ \E pin \in Buttons : Press(pin)
  /\ UNCHANGED <<app, latched, typed, tickVars>>

Finished ==
  /\ \A u \in Units : instant[u] >= Horizon
  /\ UNCHANGED vars

Next == Interrupt \/ Finished \/ \E u \in Units : BeginTick(u) \/ Step(u)

Spec == Init /\ [][Next]_vars
-----------------------------------------------------------------------------
(* Do presses come only between the latches of two ticks?  Not if they     *)
(* interrupt, nor from a command line in a runtime, so a barrier group, of *)
(* its own beside the threads of the lights: pn/04-mix/main_threads.c.     *)
PressedInStep ==
  /\ app.executor # "loop"
  /\ app.executor = "thread" => \E n \in Lights : n \in Group("cli", 0)

(* "trigger button A (affects A and B)", "guaranteed to see the same        *)
(* BUTTON_A_GPIO snapshot" (04-mix/README.md): the flag of a button is not *)
(* cleared before every node wired to it has read it.                      *)
PressReachesAll ==
  PressedInStep => \A pin \in Buttons : event[pin] \/ Wired(pin) \cap unseen = {}
=============================================================================
