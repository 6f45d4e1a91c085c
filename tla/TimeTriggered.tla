--------------------------- MODULE TimeTriggered ----------------------------
(***************************************************************************)
(* What a single-threaded executor promises of the runtimes it drives:     *)
(* each tick of a runtime is for one instant, takes exactly the periodic   *)
(* nodes that are due at that instant, and a runtime skips no instant.     *)
(* Asynchronous nodes (period 0) ride along, or tick in between.           *)
(***************************************************************************)
EXTENDS Integers

CONSTANTS
  Runtimes,    \* the runtimes of the executor
  NodesOf,     \* [Runtimes -> set of nodes]
  Period       \* of each node; 0 is asynchronous

VARIABLES
  due,         \* the next instant of each node, 0 for asynchronous ones
  label,       \* activation_us of each runtime's latest tick
  group        \* the nodes of each runtime's latest tick

Periodic(r) == {n \in NodesOf[r] : Period[n] > 0}
Async(r)    == {n \in NodesOf[r] : Period[n] = 0}

Nodes == UNION {NodesOf[r] : r \in Runtimes}

Init ==
  /\ due = [n \in Nodes |-> 0]
  /\ label = [r \in Runtimes |-> 0]
  /\ group = [r \in Runtimes |-> {}]

NextInstant(r, a) ==
  (\E n \in Periodic(r) : due[n] = a) /\ \A n \in Periodic(r) : due[n] >= a

Tick(r) ==
  \E a \in {due[n] : n \in Periodic(r)} :
    LET active == {n \in Periodic(r) : due[n] = a} IN
    /\ NextInstant(r, a)
    /\ due' = [n \in Nodes |-> IF n \in active THEN due[n] + Period[n] ELSE due[n]]
    /\ label' = [label EXCEPT ![r] = a]
    /\ group' = [group EXCEPT ![r] = active \cup Async(r)]

AsyncTick(r) ==
  \E n \in Periodic(r) : \E a \in label[r] + 1 .. due[n] - 1 :
    /\ \A m \in Periodic(r) : a < due[m]
    /\ label' = [label EXCEPT ![r] = a]
    /\ group' = [group EXCEPT ![r] = Async(r)]
    /\ UNCHANGED due

Next == \E r \in Runtimes : Tick(r) \/ AsyncTick(r)

Spec == Init /\ [][Next]_<<due, label, group>>
=============================================================================
