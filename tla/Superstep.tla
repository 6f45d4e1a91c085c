------------------------------ MODULE Superstep ------------------------------
(***************************************************************************)
(* What an executor promises to the nodes of one runtime, without threads, *)
(* barriers or groups: bulk-synchronous activations.  Node n ticks at the  *)
(* instants 0, Period[n], 2 * Period[n], ...; within an instant no node    *)
(* publishes before all of the instant's nodes have evaluated, and none    *)
(* dumps its outputs before all of them have published.                    *)
(***************************************************************************)
EXTENDS Integers

CONSTANTS Nodes, Period

VARIABLES
  act,     \* the instant each node is at
  phase    \* how far each node is in that instant

ActiveAt(a) == {n \in Nodes : a % Period[n] = 0}

(* Node m has evaluated, published, for instant a.                         *)
Evaluated(m, a) == act[m] > a \/ (act[m] = a /\ phase[m] # "idle")
Published(m, a) == act[m] > a \/ (act[m] = a /\ phase[m] = "committed")

Init ==
  /\ act = [n \in Nodes |-> 0]
  /\ phase = [n \in Nodes |-> "idle"]

Evaluate(n) ==
  /\ phase[n] = "idle"
  /\ phase' = [phase EXCEPT ![n] = "evaluated"]
  /\ UNCHANGED act

Commit(n) ==
  /\ phase[n] = "evaluated"
  /\ \A m \in ActiveAt(act[n]) : Evaluated(m, act[n])
  /\ phase' = [phase EXCEPT ![n] = "committed"]
  /\ UNCHANGED act

Dump(n) ==
  /\ phase[n] = "committed"
  /\ \A m \in ActiveAt(act[n]) : Published(m, act[n])
  /\ phase' = [phase EXCEPT ![n] = "idle"]
  /\ act' = [act EXCEPT ![n] = @ + Period[n]]

Next == \E n \in Nodes : Evaluate(n) \/ Commit(n) \/ Dump(n)

Spec == Init /\ [][Next]_<<act, phase>>
=============================================================================
