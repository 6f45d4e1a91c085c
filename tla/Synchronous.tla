---------------------------- MODULE Synchronous -----------------------------
(***************************************************************************)
(* What a tick of rxnet promises: the nodes of the tick move at once, each *)
(* by its rule, all of them reading the state before the tick.  Neither    *)
(* the order of the nodes nor the phases of the tick can be seen.          *)
(***************************************************************************)
CONSTANTS
  Nodes,           \* the nodes of the runtime
  Groups,          \* the sets of nodes that tick together
  Inputs,          \* what a node may latch
  Initial,         \* the state each node is created with
  Move(_, _, _)    \* Move(n, in, view): where node n goes from what it sees

VARIABLE state

Init == state = Initial

(* The nodes of S tick with the inputs they latched.                       *)
Tick(S, in) ==
  state' = [n \in Nodes |-> IF n \in S THEN Move(n, in[n], state) ELSE state[n]]

Next == \E S \in Groups : \E in \in [Nodes -> Inputs] : Tick(S, in)

Spec == Init /\ [][Next]_state
=============================================================================
