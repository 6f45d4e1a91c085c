--------------------------- MODULE ThreadExecInv ---------------------------
(***************************************************************************)
(* The inductive invariant of ThreadExec, in named parts.  TLC checks it   *)
(* on small instances, ThreadExecProofs proves it for all of them.         *)
(***************************************************************************)
EXTENDS ThreadExec

(* The threads inside slot i, those asleep in its barriers, and the nodes  *)
(* of its instant that are through.                                        *)
Members(i)       == {n \in Nodes : pc[n] \in Inside /\ slot[n] = i}
EvalWaiters(i)   == {n \in Nodes : pc[n] = "evalWait" /\ slot[n] = i}
CommitWaiters(i) == {n \in Nodes : pc[n] = "commitWait" /\ slot[n] = i}
Participants(i)  == ActiveAt(instant[i])
Through(i)       == {n \in Participants(i) : act[n] > instant[i]}

(* Every thread stands at an instant of its node.                          *)
OnInstant == \A n \in Nodes : act[n] % Period[n] = 0

(* A group stays in use while a node of its instant has still to pass: an  *)
(* instant that some node has left and another has not has its group.      *)
GroupOpen ==
  \A m, n \in Nodes : \A a \in 0 .. act[m] :
    (m \in ActiveAt(a) /\ n \in ActiveAt(a) /\ act[m] > a /\ act[n] <= a)
      => HasGroup(a)

(* A used slot holds a thread, and its counters are what they stand for.   *)
SlotCounts ==
  \A i \in Slots : inUse[i] =>
    /\ Members(i) # {}
    /\ count[i] = Cardinality(Participants(i))
    /\ done[i] = Cardinality(Through(i))
    /\ evalB[i].total = count[i]
    /\ commitB[i].total = count[i]

(* The barrier is open until all participants have come; then all of them  *)
(* are inside, past it, or through with the instant.                       *)
EvalOpen(i) ==
  /\ evalB[i].generation = 0
  /\ evalB[i].waiting = Cardinality(EvalWaiters(i))
  /\ evalB[i].waiting < evalB[i].total
  /\ Through(i) = {}
  /\ \A n \in Members(i) : pc[n] \in EvalSide

EvalClosed(i) ==
  /\ evalB[i].generation = 1
  /\ \A n \in Participants(i) : act[n] <= instant[i] =>
       n \in Members(i) /\ pc[n] \notin {"latch", "evaluate"}

CommitOpen(i) ==
  /\ commitB[i].generation = 0
  /\ commitB[i].waiting = Cardinality(CommitWaiters(i))
  /\ commitB[i].waiting < commitB[i].total
  /\ Through(i) = {}
  /\ \A n \in Members(i) : pc[n] # "dump"

CommitClosed(i) ==
  /\ commitB[i].generation = 1
  /\ \A n \in Participants(i) : act[n] <= instant[i] =>
       n \in Members(i) /\ pc[n] \in {"commitWait", "dump"}

EvalBarrier   == \A i \in Slots : inUse[i] => EvalOpen(i) \/ EvalClosed(i)
CommitBarrier == \A i \in Slots : inUse[i] => CommitOpen(i) \/ CommitClosed(i)

(* A sleeping thread went to sleep in generation 0.                        *)
WaiterGeneration ==
  \A n \in Nodes : pc[n] \in {"evalWait", "commitWait"} => myGen[n] = 0

(* The published ticks of a node are those of the instants behind it, and  *)
(* its current one once it is past commit.                                 *)
PublishedTicks ==
  \A n \in Nodes :
    NextPublished(n) =
      IF pc[n] \in {"deferred", "commitWait", "dump"} THEN act[n] + Period[n]
                                                      ELSE act[n]

IInv ==
  /\ TypeOK
  /\ OnInstant
  /\ GroupIntegrity
  /\ GroupOpen
  /\ SlotCounts
  /\ EvalBarrier
  /\ CommitBarrier
  /\ WaiterGeneration
  /\ PublishedTicks
=============================================================================
