------------------------------ MODULE NodeStep ------------------------------
(***************************************************************************)
(* What the evaluate callback of one node computes: the first-match rule   *)
(* of a state machine (c/src/fsm.c) and the greedy firing of a Petri net   *)
(* (c/src/pn.c).  A node reads its latched input and a view of the         *)
(* committed state of all nodes, its own included; guards are arbitrary    *)
(* functions of these, which is what a C guard callback can be.            *)
(***************************************************************************)
EXTENDS Integers, Sequences, SequencesExt, Sums

CONSTANTS
  Machines,           \* the nodes that are rx_fsm_machine
  Nets,               \* the nodes that are rx_pn_net
  Transitions,        \* [node -> Seq(transition)], in declaration order
  Guard(_, _, _, _)   \* Guard(n, t, in, view): a NULL guard is TRUE

Nodes == Machines \cup Nets

ASSUME KindsAssumption == Machines \cap Nets = {}
ASSUME TransitionsAssumption ==
  /\ DOMAIN Transitions = Nodes
  /\ \A n \in Nodes : Transitions[n] \in Seq(Range(Transitions[n]))
  /\ \A n \in Nodes : \A t \in DOMAIN Transitions[n] :
       Transitions[n][t].action \in BOOLEAN    \* action # NULL

Evaluation(next, fired) == [next |-> next, fired |-> fired]

(***************************************************************************)
(* rx_fsm_machine_evaluate: the first transition from the current state    *)
(* whose guard holds; with none the machine stays.                         *)
(***************************************************************************)
Eligible(n, in, view) ==
  {t \in DOMAIN Transitions[n] :
     Transitions[n][t].from = view[n] /\ Guard(n, t, in, view)}

MachineEvaluateLast(n, in, view) ==      \* mutant: the scan does not stop
  LET eligible == Eligible(n, in, view)
      last     == CHOOSE t \in eligible : \A u \in eligible : u <= t
  IN  IF eligible = {} THEN Evaluation(view[n], <<>>)
      ELSE Evaluation(Transitions[n][last].to, <<last>>)

MachineEvaluate(n, in, view) ==
  LET eligible == Eligible(n, in, view)
      first    == CHOOSE t \in eligible : \A u \in eligible : t <= u
  IN  IF eligible = {} THEN Evaluation(view[n], <<>>)
      ELSE Evaluation(Transitions[n][first].to, <<first>>)

(***************************************************************************)
(* rx_pn_net_evaluate: one pass over the transitions, each of them against *)
(* the marking the earlier ones left (next_places).  An arc list may name  *)
(* a place twice; every arc is tested on its own, every arc is applied.    *)
(***************************************************************************)
IsMarking(m) == m = [place \in DOMAIN m |-> m[place]]

ValidArcs(marking, arcs) ==
  \A i \in DOMAIN arcs : arcs[i].place \in DOMAIN marking /\ arcs[i].weight >= 0

Enabled(marking, transition) ==
  /\ ValidArcs(marking, transition.consume)
  /\ ValidArcs(marking, transition.produce)
  /\ \A i \in DOMAIN transition.consume :
       marking[transition.consume[i].place] >= transition.consume[i].weight

WeightAt(arcs, place) ==
  SumOver([i \in DOMAIN arcs |-> arcs[i].weight], {i \in DOMAIN arcs : arcs[i].place = place})

Apply(marking, transition) ==
  [p \in DOMAIN marking |->
     marking[p] - WeightAt(transition.consume, p) + WeightAt(transition.produce, p)]

NetEvaluate(n, in, view) ==
  LET Try(e, t) ==
        LET transition == Transitions[n][t] IN
        IF Enabled(e.next, transition) /\ Guard(n, t, in, view)
          THEN Evaluation(Apply(e.next, transition), Append(e.fired, t))
          ELSE e
      after[t \in 0 .. Len(Transitions[n])] ==
        IF t = 0 THEN Evaluation(view[n], <<>>) ELSE Try(after[t - 1], t)
  IN  after[Len(Transitions[n])]

Evaluate(n, in, view) ==
  IF n \in Machines THEN MachineEvaluate(n, in, view) ELSE NetEvaluate(n, in, view)
-----------------------------------------------------------------------------
(***************************************************************************)
(* The two rules, said without the order of the computation.               *)
(***************************************************************************)

(* docs/specs/c/requirements.md, 5.2 and 5.3: first match, or no change.   *)
FirstMatch(n, in, view, e) ==
  LET holds(t) == Transitions[n][t].from = view[n] /\ Guard(n, t, in, view) IN
  IF e.fired = <<>>
    THEN e.next = view[n] /\ \A t \in DOMAIN Transitions[n] : ~holds(t)
    ELSE /\ Len(e.fired) = 1
         /\ holds(e.fired[1])
         /\ e.next = Transitions[n][e.fired[1]].to
         /\ \A t \in 1 .. e.fired[1] - 1 : ~holds(t)

(* The tokens place p has left behind transition t: the committed marking  *)
(* and what the transitions up to t that fired took and gave.              *)
LeftBehind(n, view, fired, p) ==
  LET left[t \in 0 .. Len(Transitions[n])] ==
        IF t = 0 THEN view[n][p]
        ELSE IF t \in ToSet(fired)
        THEN left[t - 1] - WeightAt(Transitions[n][t].consume, p)
                         + WeightAt(Transitions[n][t].produce, p)
        ELSE left[t - 1]
  IN  left

(* requirements.md, 7.2 and 7.3, with the greedy order of pn.c:31-37: a    *)
(* transition fires exactly when its arcs are valid, its guard holds and   *)
(* what each of its arcs takes is there behind the earlier transitions.    *)
Greedy(n, in, view, e) ==
  LET transition(t) == Transitions[n][t]
      Left(p)       == LeftBehind(n, view, e.fired, p)
      Enough(t)     == \A i \in DOMAIN transition(t).consume :
                         LET arc == transition(t).consume[i] IN Left(arc.place)[t - 1] >= arc.weight
  IN  /\ \A t \in DOMAIN Transitions[n] :
           t \in ToSet(e.fired) <=>
             /\ ValidArcs(view[n], transition(t).consume)
             /\ ValidArcs(view[n], transition(t).produce)
             /\ Enough(t)
             /\ Guard(n, t, in, view)
      /\ e.next = [p \in DOMAIN view[n] |-> Left(p)[Len(Transitions[n])]]

ObeysRule(n, in, view, e) ==
  IF n \in Machines THEN FirstMatch(n, in, view, e) ELSE Greedy(n, in, view, e)
=============================================================================
