---------------------------- MODULE PortBarrier ----------------------------
(***************************************************************************)
(* rx_barrier_t in the ports of rxnet, as the threaded executor uses it:   *)
(* the two barriers of one slot of the group pool (c/src/thread.c).        *)
(*                                                                         *)
(* posix.h and zephyr.h count arrivals under a mutex and wait on a         *)
(* condition until the generation changes.  freertos.h has a turnstile:    *)
(* the last to arrive gives one token for each participant, and everyone   *)
(* takes one.  A reset clears the counters of both, but no token, and in   *)
(* freertos.h it takes no lock; and the turnstile does not look at the     *)
(* generation.  A slot is reset for each group: its nodes come when they   *)
(* are due, and the last to leave frees it for a group of other nodes.     *)
(***************************************************************************)
EXTENDS Naturals, FiniteSets

CONSTANTS
  Threads,       \* the node threads of one runtime
  Ports          \* the kinds of barrier: a subset of {"condition", "turnstile"}

ASSUME PortsAssumption ==
  Ports \subseteq {"condition", "turnstile"} /\ IsFiniteSet(Threads)

VARIABLES
  port,      \* the port the program is built for
  group,     \* the nodes of the group that has the slot; {} when it is free
  left,      \* the nodes of the group that have left it
  stage,     \* which callback or barrier of the tick each node is in
  seen,      \* the local gen of rx_barrier_wait
  barrier    \* eval_b and commit_b

barrierVars == <<port, group, left, stage, seen, barrier>>

Rounds == {"eval", "commit"}

Reset(total, tokens) ==
  [waiting |-> 0, total |-> total, generation |-> 0, tokens |-> tokens]

BarrierInit ==
  /\ port \in Ports
  /\ group = {} /\ left = {}
  /\ stage = [n \in Threads |-> "away"]
  /\ seen = [n \in Threads |-> 0]
  /\ barrier = [r \in Rounds |-> Reset(Cardinality(Threads), 0)]

(* activation_group_get takes the slot for the nodes of an instant.        *)
OpenGroup(members) ==
  /\ group = {}
  /\ members # {}
  /\ group' = members /\ left' = {}
  /\ stage' = [n \in Threads |-> IF n \in members THEN "due" ELSE stage[n]]
  /\ barrier' = [r \in Rounds |-> Reset(Cardinality(members), barrier[r].tokens)]
  /\ UNCHANGED <<port, seen>>

(* A node arrives at the instant, and finds its group.                     *)
Come(n) ==
  /\ stage[n] = "due"
  /\ stage' = [stage EXCEPT ![n] = "evaluate"]
  /\ UNCHANGED <<port, group, left, seen, barrier>>

(* Where barrier r is reached from, waited in and left to.                 *)
Before(r) == IF r = "eval" THEN "evaluate" ELSE "deferred"
Inside(r) == IF r = "eval" THEN "evalWait" ELSE "commitWait"
After(r)  == IF r = "eval" THEN "deferred" ELSE "dump"

IsLast(b) == b.waiting + 1 = b.total

ReleaseOthers(b) == IF port = "turnstile" THEN b.total - 1 ELSE 0  \* mutant: no token of its own

Release(b) == IF port = "turnstile" THEN b.total ELSE 0

(* rx_barrier_wait, up to the end of its critical section or the first     *)
(* wait on the condition.                                                  *)
Arrive(n, r) ==
  LET b == barrier[r] IN
  /\ stage[n] = Before(r)
  /\ seen' = [seen EXCEPT ![n] = b.generation]
  /\ barrier' = [barrier EXCEPT ![r] =
       IF IsLast(b)
         THEN [b EXCEPT !.waiting = 0, !.generation = @ + 1, !.tokens = @ + Release(b)]
         ELSE [b EXCEPT !.waiting = @ + 1]]
  /\ stage' = [stage EXCEPT ![n] = IF IsLast(b) /\ port = "condition"
                                     THEN After(r) ELSE Inside(r)]
  /\ UNCHANGED <<port, group, left>>

MayPass(n, r) ==
  IF port = "turnstile" THEN barrier[r].tokens > 0
  ELSE barrier[r].generation # seen[n]

(* The condition holds and the thread wakes; or it takes a token.          *)
Pass(n, r) ==
  /\ stage[n] = Inside(r)
  /\ MayPass(n, r)
  /\ stage' = [stage EXCEPT ![n] = After(r)]
  /\ barrier' = IF port = "turnstile"
                  THEN [barrier EXCEPT ![r].tokens = @ - 1] ELSE barrier
  /\ UNCHANGED <<port, group, left, seen>>

(* activation_group_done: the last one frees the slot.                     *)
Leave(n) ==
  /\ stage[n] = "dump"
  /\ stage' = [stage EXCEPT ![n] = "away"]
  /\ IF left \cup {n} = group
       THEN group' = {} /\ left' = {}
       ELSE group' = group /\ left' = left \cup {n}
  /\ UNCHANGED <<port, seen, barrier>>

BarrierStep(n) ==
  \/ Come(n) \/ Leave(n)
  \/ \E r \in Rounds : Arrive(n, r) \/ Pass(n, r)

-----------------------------------------------------------------------------
Arrived(m, r) ==
  stage[m] \notin {"due", "evaluate"} \cup (IF r = "commit" THEN {"evalWait", "deferred"} ELSE {})

Passed(n, r) ==
  stage[n] = "dump" \/ n \in left \/ (r = "eval" /\ stage[n] \in {"deferred", "commitWait"})

(* port.h:46 promises that nobody passes a barrier before all have come.   *)
(* It holds in each port, no thread is left behind in a barrier all have   *)
(* come to, and no token stays in a turnstile from one group to the next.  *)
BarrierHolds ==
  \A r \in Rounds :
    /\ \A n, m \in group : Passed(n, r) => Arrived(m, r)
    /\ \A n \in group : stage[n] = Inside(r) /\ (\A m \in group : Arrived(m, r)) => MayPass(n, r)
    /\ group = {} => barrier[r].tokens = 0
=============================================================================
