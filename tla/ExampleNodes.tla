---------------------------- MODULE ExampleNodes ----------------------------
(***************************************************************************)
(* The nodes of the examples (c/examples, python/examples): a light that   *)
(* a button toggles, a light that goes off by itself, a light that blinks. *)
(* Each is written four times, as a state machine and as a Petri net, in C *)
(* and in Python.  Here the four versions of one of them run side by side: *)
(* each has its own driver (button flag and lamp), and all see the same    *)
(* presses and the same setters at the same moments, and the same clock.   *)
(*                                                                         *)
(* A press comes from an interrupt, at any moment.  A tick is latch,       *)
(* evaluate, commit, deferred actions, dump.  A setter is called by the    *)
(* command line: before the tick where that is a runtime of its own        *)
(* (pn/02-auto, Python), among the deferred actions or in a dump where it  *)
(* is a node of the same runtime (fsm/02-auto), at any moment where it has *)
(* a thread (pn/04-mix): here, between any two phases.                     *)
(*                                                                         *)
(* clock counts nanoseconds, as rx_tick_now of the C machine does; the     *)
(* other three versions read it in whole milliseconds.                     *)
(***************************************************************************)
EXTENDS Integers, Sequences, SequencesExt

CONSTANTS
  Gaps,         \* ns from the last event of a tick to the next tick
  Lags,         \* ns from an event to the actions, or to a setter's call
  Timeouts,     \* ms after which the auto light goes off: the settings
  Rates,        \* base_hz of the blinking light: the settings
  MaxTicks,     \* bound: ticks in a behaviour
  MaxSets       \* bound: calls of a setter in a behaviour

(* A timeout or a rate of zero is refused where it is set.                 *)
ASSUME SettingsAssumption ==
  /\ Gaps \subseteq Nat /\ Lags \subseteq Nat
  /\ Timeouts \subseteq Nat \ {0} /\ Rates \subseteq Nat \ {0}

Kinds    == {"light", "auto", "blink"}
Machines == {"fsm", "pyfsm"}
Nets     == {"net", "pynet"}
Versions == Machines \cup Nets

VARIABLES
  kind,      \* which of the three nodes this application has
  setting,   \* auto_off_timeout (ms) or base_hz
  phase,     \* what the tick does next; "idle": between two ticks
  clock,     \* ns, at the last event
  began,     \* ns, at the last latch
  ticks,     \* bound: how many ticks have begun
  sets,      \* bound: how often a setter was called
  event,     \* [version -> s_button_event]
  lamp,      \* [version -> s_light_level]
  node,      \* [version -> the node: its state, and what user points to]
  late,      \* history: a press came after the latch of this tick
  raced,     \* history, per version: a press or a setter met a timer that was
             \* due, and the node does both
  since      \* history, per version: the timer was last set for span, not
             \* before `from' and not after `to', with the lamp as lit says

nodeVars == <<event, lamp, node>>
timeVars == <<clock, began, ticks, sets>>
vars == <<kind, setting, phase, timeVars, nodeVars, late, raced, since>>
-----------------------------------------------------------------------------
(* The transition tables: [state machine, Petri net].                      *)

Move(from, to, guard, does) ==
  [from |-> from, to |-> to, guard |-> guard, does |-> does, action |-> TRUE]

Arcs(places) == [i \in DOMAIN places |-> [place |-> places[i], weight |-> 1]]
Fire(consume, produce, does) ==
  [consume |-> Arcs(consume), produce |-> Arcs(produce), guard |-> "none",
   does |-> does, action |-> does # "none"]

LightMachine == <<Move("off", "on", "pressed", "light_on"),
                  Move("on", "off", "pressed", "light_off")>>

AutoMachine == <<Move("off", "on", "pressed", "auto_on"),
                 Move("on", "on", "pressed", "auto_on"),
                 Move("on", "off", "elapsed", "auto_off")>>

BlinkMachineToggleFirst ==               \* mutant: the toggle is tried first
  <<Move("off", "x1", "pressed", "enter_x1"), Move("x1", "x1", "due", "toggle"),
    Move("x1", "x2", "pressed", "enter_x2"), Move("x2", "x2", "due", "toggle"),
    Move("x2", "off", "pressed", "enter_off")>>

BlinkMachine == <<Move("off", "x1", "pressed", "enter_x1"),
                  Move("x1", "x2", "pressed", "enter_x2"),
                  Move("x1", "x1", "due", "toggle"),
                  Move("x2", "off", "pressed", "enter_off"),
                  Move("x2", "x2", "due", "toggle")>>

LightNet == <<Fire(<<"off", "request">>, <<"on">>, "none"),
              Fire(<<"on", "request">>, <<"off">>, "none")>>

AutoNet == <<Fire(<<"off", "request">>, <<"on">>, "start_timer"),
             Fire(<<"on", "request">>, <<"on">>, "start_timer"),
             Fire(<<"on", "due">>, <<"off">>, "none")>>

BlinkNet == <<Fire(<<"off", "request">>, <<"x1">>, "enter_x1"),
              Fire(<<"x1", "request">>, <<"x2">>, "enter_x2"),
              Fire(<<"x2", "request">>, <<"off">>, "enter_off"),
              Fire(<<"x1", "due">>, <<"x1">>, "toggle"),
              Fire(<<"x2", "due">>, <<"x2">>, "toggle")>>

MachineTable == [light |-> LightMachine, auto |-> AutoMachine, blink |-> BlinkMachine]
NetTable     == [light |-> LightNet, auto |-> AutoNet, blink |-> BlinkNet]

Marking(k) ==
  CASE k = "light" -> [off |-> 1, on |-> 0, request |-> 0]
    [] k = "auto"  -> [off |-> 1, on |-> 0, request |-> 0, due |-> 0]
    [] k = "blink" -> [off |-> 1, x1 |-> 0, x2 |-> 0, request |-> 0, due |-> 0]
-----------------------------------------------------------------------------
(* Time, in the unit of version v: nanoseconds or milliseconds.            *)

Us == 1000
Ms == 1000000

Now(v, t)   == IF v = "fsm" THEN t ELSE t \div Ms
Span(v, ms) == IF v = "fsm" THEN ms * Ms ELSE ms

(* half_period_us_for_state, half_period_ms, _half_period_ms.              *)
HalfPeriod(v, hz, fast) ==
  LET by       == IF fast THEN 2 * hz ELSE hz
      AtLeast1(n) == IF n = 0 THEN 1 ELSE n
  IN  IF v = "fsm" THEN AtLeast1(500000 \div by) * Us ELSE AtLeast1(500 \div by)

(* The guards of the machines, on the node's data d.                       *)
Elapsed(v, d) ==
  /\ v = "pyfsm" => d.armed
  /\ d.now >= d.alarm

ToggleDue(v, d) ==
  /\ v = "fsm" => d.at # "off"
  /\ d.alarm > 0
  /\ d.now >= d.alarm

Guard(n, t, d, view) ==
  LET guard == IF n[2] \in Machines THEN MachineTable[n[1]][t].guard ELSE "none" IN
  CASE guard = "none"    -> TRUE
    [] guard = "pressed" -> d.latched
    [] guard = "elapsed" -> Elapsed(n[2], d)
    [] guard = "due"     -> ToggleDue(n[2], d)

(* The rules of evaluate, of fsm.c and pn.c (and of their Python twins).   *)
Table == [n \in Kinds \X Versions |->
            IF n[2] \in Machines THEN MachineTable[n[1]] ELSE NetTable[n[1]]]

Step == INSTANCE NodeStep WITH
  Machines    <- Kinds \X Machines,
  Nets        <- Kinds \X Nets,
  Transitions <- Table,
  Guard       <- Guard
-----------------------------------------------------------------------------
(* latch_inputs of each version, at moment t: the button flag is read and  *)
(* not cleared.                                                            *)

MachineLatch(k, v, d, t) ==
  [d EXCEPT !.latched = event[v], !.consumed = FALSE,
            !.now = IF k = "light" THEN @ ELSE Now(v, t)]

AutoMachineLatch(v, d, t) ==
  [MachineLatch("auto", v, d, t) EXCEPT
     !.alarm = IF event[v] THEN Now(v, t) + Span(v, setting) ELSE @]

PyAutoLatchOnce(v, d, t) ==              \* mutant: a refresh keeps the old alarm
  [MachineLatch("auto", v, d, t) EXCEPT !.armed = d.out]

PyAutoLatch(v, d, t) ==
  [AutoMachineLatch(v, d, t) EXCEPT !.armed = d.out /\ (event[v] \/ @)]

AutoSignal(d) == d.at.on > 0 /\ d.armed /\ d.now >= d.alarm

BlinkSignal(d) == (d.at.x1 > 0 \/ d.at.x2 > 0) /\ d.alarm > 0 /\ d.now >= d.alarm

Signal(k, d) == IF k = "auto" THEN AutoSignal(d) ELSE BlinkSignal(d)

(* A press adds a token; the signal place is set anew.                     *)
NetLatch(k, v, d, t) ==
  LET seen == [d EXCEPT !.latched = event[v],
                        !.now = IF k = "light" THEN @ ELSE Now(v, t),
                        !.at.request = @ + (IF event[v] THEN 1 ELSE 0)]
  IN  IF k = "light" THEN seen
      ELSE [seen EXCEPT !.at.due = IF Signal(k, seen) THEN 1 ELSE 0]

LatchOf(k, v, d, t) ==
  CASE v \in Nets                    -> NetLatch(k, v, d, t)
    [] v = "fsm" /\ k = "auto"       -> AutoMachineLatch(v, d, t)
    [] v = "pyfsm" /\ k = "auto"     -> PyAutoLatch(v, d, t)
    [] OTHER                         -> MachineLatch(k, v, d, t)
-----------------------------------------------------------------------------
(* The deferred actions, after commit: d.at is the committed state.  The   *)
(* Python versions of the auto light read the clock anew, at moment t.     *)

Light(d, on) == [d EXCEPT !.out = on, !.consumed = TRUE]

AutoOn(v, d, t) ==
  LET on == [Light(d, TRUE) EXCEPT !.armed = TRUE] IN
  CASE v = "fsm"                -> [on EXCEPT !.alarm = d.now + Span(v, setting)]
    [] v = "pyfsm" /\ ~d.armed  -> [on EXCEPT !.alarm = Now(v, t) + Span(v, setting)]
    [] OTHER                    -> on

StartTimer(v, d, t) ==
  [d EXCEPT !.alarm = (IF v = "net" THEN d.now ELSE Now(v, t)) + setting, !.armed = TRUE]

EnterBlink(v, d, fast) ==
  [Light(d, TRUE) EXCEPT !.alarm = d.now + HalfPeriod(v, setting, fast)]

IsFast(v, d) == IF v \in Nets THEN d.at.x2 > 0 ELSE d.at = "x2"

ToggleFromNow(v, d) ==                   \* mutant: the phase drifts
  [d EXCEPT !.out = ~@, !.alarm = d.now + HalfPeriod(v, setting, IsFast(v, d))]

Toggle(v, d) ==
  [d EXCEPT !.out = ~@, !.alarm = @ + HalfPeriod(v, setting, IsFast(v, d))]

Do(v, d, does, t) ==
  CASE does = "none"        -> d
    [] does = "light_on"    -> Light(d, TRUE)
    [] does = "light_off"   -> Light(d, FALSE)
    [] does = "auto_on"     -> AutoOn(v, d, t)
    [] does = "auto_off"    -> [d EXCEPT !.out = FALSE, !.armed = FALSE]
    [] does = "start_timer" -> StartTimer(v, d, t)
    [] does = "enter_x1"    -> EnterBlink(v, d, FALSE)
    [] does = "enter_x2"    -> EnterBlink(v, d, v # "fsm")   \* blink_fsm.c: X1's half period
    [] does = "enter_off"   -> [Light(d, FALSE) EXCEPT !.alarm = 0]
    [] does = "toggle"      -> Toggle(v, d)

(* The actions of the transitions that fired, in the order they fired.     *)
DoAll(v, d, t) ==
  LET done[i \in 0 .. Len(d.todo)] ==
        IF i = 0 THEN d ELSE Do(v, done[i - 1], d.todo[i], t)
  IN  [done[Len(d.todo)] EXCEPT !.todo = <<>>]

(* evaluate: the next state, and the actions to queue.                     *)
Evaluated(k, v, d) ==
  LET e == Step!Evaluate(<<k, v>>, d, [n \in {<<k, v>>} |-> d.at]) IN
  [d EXCEPT !.next = e.next,
            !.todo = [i \in DOMAIN e.fired |-> Table[<<k, v>>][e.fired[i]].does]]

(* dump_outputs: the level of the lamp, and whether the button is cleared. *)
Level(k, v, d) == IF v \in Nets /\ k # "blink" THEN d.at.on > 0 ELSE d.out

ClearsAlways(v, d) == TRUE               \* mutant: whatever was latched

Clears(v, d) == IF v \in Machines THEN d.consumed ELSE d.latched
-----------------------------------------------------------------------------
Fresh(k, v) ==
  LET at == IF v \in Machines THEN "off" ELSE Marking(k) IN
  [at |-> at, next |-> at, todo |-> <<>>, out |-> FALSE, alarm |-> 0, armed |-> FALSE,
   now |-> 0, latched |-> FALSE, consumed |-> FALSE]

Init ==
  /\ kind \in Kinds
  /\ setting \in IF kind = "auto" THEN Timeouts ELSE Rates
  /\ phase = "idle"
  /\ clock = 0 /\ began = 0 /\ ticks = 0 /\ sets = 0
  /\ event = [v \in Versions |-> FALSE]
  /\ lamp = [v \in Versions |-> FALSE]
  /\ node = [v \in Versions |-> Fresh(kind, v)]
  /\ late = FALSE
  /\ raced = [v \in Versions |-> FALSE]
  /\ since = [v \in Versions |-> [from |-> 0, to |-> 0, span |-> 0, lit |-> FALSE]]

(* button_isr_handler, app_driver_trigger_button: at any moment.           *)
Press ==
  /\ event' = [v \in Versions |-> TRUE]
  /\ late' = (late \/ phase # "idle")
  /\ UNCHANGED <<kind, setting, phase, timeVars, lamp, node, raced, since>>

Latch(gap) ==
  /\ phase = "idle"
  /\ ticks < MaxTicks
  /\ phase' = "evaluate"
  /\ ticks' = ticks + 1
  /\ clock' = clock + gap
  /\ began' = clock'
  /\ node' = [v \in Versions |-> LatchOf(kind, v, node[v], clock')]
  /\ late' = FALSE
  /\ raced' = [v \in Versions |->
       IF event[v] THEN v \in Nets /\ kind # "light" /\ Signal(kind, node'[v]) ELSE raced[v]]
  /\ UNCHANGED <<kind, setting, sets, event, lamp, since>>

Evaluate ==
  /\ phase = "evaluate"
  /\ phase' = "commit"
  /\ node' = [v \in Versions |-> Evaluated(kind, v, node[v])]
  /\ UNCHANGED <<kind, setting, timeVars, event, lamp, late, raced, since>>

Commit ==
  /\ phase = "commit"
  /\ phase' = "act"
  /\ node' = [v \in Versions |-> [node[v] EXCEPT !.at = node[v].next]]
  /\ UNCHANGED <<kind, setting, timeVars, event, lamp, late, raced, since>>

(* The deferred actions.  They set the timer after a press.                *)
Act(lag) ==
  /\ phase = "act"
  /\ phase' = "dump"
  /\ clock' = clock + lag
  /\ node' = [v \in Versions |-> DoAll(v, node[v], clock')]
  /\ since' = [v \in Versions |->
       IF node[v].latched
         THEN [from |-> began, to |-> clock', span |-> setting, lit |-> TRUE]
         ELSE since[v]]
  /\ UNCHANGED <<kind, setting, began, ticks, sets, event, lamp, late, raced>>

Dump ==
  /\ phase = "dump"
  /\ phase' = "idle"
  /\ lamp' = [v \in Versions |-> Level(kind, v, node[v])]
  /\ event' = [v \in Versions |-> event[v] /\ ~Clears(v, node[v])]
  /\ UNCHANGED <<kind, setting, timeVars, node, late, raced, since>>

(* The setters: the timer of a light that is on starts anew, in the C      *)
(* machines from their last latch, in the others from a new reading at t.  *)
IsOff(v, at) == IF v \in Nets THEN at.off > 0 ELSE at = "off"

StartsFrom(v, d, t) == IF v = "fsm" THEN d.now ELSE Now(v, t)

SetTimeout(v, d, ms, t) ==
  [d EXCEPT !.alarm = StartsFrom(v, d, t) + Span(v, ms), !.armed = TRUE]

SetBaseHz(v, d, hz, t) ==
  [d EXCEPT !.alarm = StartsFrom(v, d, t) + HalfPeriod(v, hz, IsFast(v, d))]

(* What this tick does all the same, whatever the setter says: an auto     *)
(* light goes off, a lamp toggles.                                         *)
GoesOff(v) ==
  \/ phase = "evaluate" /\ v \in Nets /\ node[v].at.due > 0
  \/ phase = "commit" /\ IsOff(v, node[v].next)

Toggles(v) ==
  \/ phase = "evaluate" /\ v \in Nets /\ node[v].at.due > 0
  \/ phase \in {"commit", "act"} /\ Contains(node[v].todo, "toggle")

Set(value, lag) ==
  /\ kind # "light"
  /\ sets < MaxSets
  /\ value \in IF kind = "auto" THEN Timeouts ELSE Rates
  /\ sets' = sets + 1
  /\ clock' = clock + lag
  /\ setting' = value
  /\ node' = [v \in Versions |->
       IF IsOff(v, node[v].at) THEN node[v]
       ELSE IF kind = "auto" THEN SetTimeout(v, node[v], value, clock')
       ELSE SetBaseHz(v, node[v], value, clock')]
  /\ since' = [v \in Versions |->
       IF IsOff(v, node[v].at) \/ (kind = "auto" /\ GoesOff(v)) THEN since[v]
       ELSE [from |-> IF v = "fsm" THEN began ELSE clock', to |-> clock', span |-> value,
             lit |-> node[v].out]]
  /\ raced' = [v \in Versions |->
       IF kind = "auto" \/ IsOff(v, node[v].at) THEN raced[v] ELSE Toggles(v)]
  /\ UNCHANGED <<kind, phase, began, ticks, event, lamp, late>>

Next ==
  \/ Press \/ Evaluate \/ Commit \/ Dump
  \/ \E gap \in Gaps : Latch(gap)
  \/ \E lag \in Lags : Act(lag)
  \/ \E value \in Timeouts \cup Rates, lag \in Lags : Set(value, lag)

Spec == Init /\ [][Next]_vars
-----------------------------------------------------------------------------
(***************************************************************************)
(* Correctness.                                                            *)
(***************************************************************************)

Mode(v) ==
  IF v \in Machines THEN node[v].at
  ELSE CHOOSE place \in {"off", "on", "x1", "x2"} \cap DOMAIN node[v].at :
         node[v].at[place] > 0

(* When the auto light of v goes off, at the latest and at the earliest;   *)
(* a version that counts milliseconds may be almost one early.             *)
OffBy(v)   == since[v].to + since[v].span * Ms
OffFrom(v) == since[v].from + since[v].span * Ms - (IF v = "fsm" THEN 0 ELSE Ms - 1)

(* Two auto lights can be told apart by a timer that the same event did    *)
(* not set, by a tick between the earliest and the latest moment, or after *)
(* a press that met a net's timer due: refresh and auto-off then both      *)
(* fire, and the net goes off where the machine stays on.                  *)
Comparable(v, w) ==
  kind = "auto" =>
    /\ since[v].to = since[w].to /\ since[v].span = since[w].span
    /\ \A u \in {v, w} : ~raced[u] /\ (began < OffFrom(u) \/ began >= OffBy(u))

(* "Equivalent to" (the headers of the Python examples; README of the pn   *)
(* examples): after every tick the four versions are in the same mode, and *)
(* show the same lamp unless it blinks, wherever in a tick presses and     *)
(* setters fall.                                                           *)
VersionsAgree ==
  phase = "idle" =>
    \A v, w \in Versions : Comparable(v, w) =>
      Mode(v) = Mode(w) /\ (kind # "blink" => lamp[v] = lamp[w])

(* The auto light is on until the timeout after the last press or the last *)
(* change of the timeout (02-auto/README.md), in each version.  A press    *)
(* counts from a moment between the latch and the actions of its tick, a   *)
(* change from the call, but in the C machine from the latch before it.  A *)
(* change after a tick has found the timer due is too late.                *)
AutoOffInTime ==
  phase = "idle" /\ kind = "auto" =>
    \A v \in Versions : ~raced[v] =>
      IF lamp[v] THEN began < OffBy(v) ELSE began >= OffFrom(v)

(* A blinking lamp that is not behind has toggled once per half period     *)
(* since it was set going, however late single ticks were and whenever the *)
(* rate changed.  Two exceptions are in the code: enter_blink_x2 of        *)
(* blink_fsm.c starts with the half period of x1; and a toggle that was    *)
(* due when a press (nets) or a change of the rate came between is still   *)
(* done, and takes the place of the first.                                 *)
BlinkOnSchedule ==
  phase = "idle" /\ kind = "blink" =>
    \A v \in Versions :
      /\ Mode(v) # "off"
      /\ node[v].alarm > Now(v, clock)
      /\ v = "fsm" => Mode(v) = "x1"
      => LET passed == (Now(v, clock) - Now(v, since[v].from))
                         \div HalfPeriod(v, setting, Mode(v) = "x2")
             halves == IF raced[v] /\ passed = 0 THEN 1 ELSE passed
         IN  lamp[v] = (since[v].lit = (halves % 2 = 0))

(* A press that comes while a tick is under way is kept for the next tick, *)
(* unless the tick handles an earlier press: only then is the flag cleared *)
(* after it was read.                                                      *)
PressSurvives ==
  phase = "idle" /\ late =>
    \A v \in Versions : ~node[v].latched => event[v]
=============================================================================
