-------------------------- MODULE ThreadExecProofs --------------------------
(***************************************************************************)
(* Proofs about ThreadExec, for every number of nodes, every choice of     *)
(* periods, every pool size and with or without overruns, stops and failed *)
(* thread creations.                                                       *)
(***************************************************************************)
EXTENDS ThreadExecInv, Lemmas, FiniteSetTheorems, TLAPS

-----------------------------------------------------------------------------
(* Finite sets of nodes.                                                   *)

(* There are NodeCount nodes, and any set of them is finite.               *)
LEMMA NodesFinite ==
  /\ IsFiniteSet(Nodes)
  /\ Cardinality(Nodes) = NodeCount
  /\ \A S \in SUBSET Nodes : IsFiniteSet(S) /\ Cardinality(S) \in Nat
<1>1. 0 \in Int /\ NodeCount - 1 \in Int  BY NodeCountAssumption
<1>2. IsFiniteSet(Nodes) /\ Cardinality(Nodes) = NodeCount
  BY <1>1, FS_Interval, NodeCountAssumption DEF Nodes
<1>3. ASSUME NEW S \in SUBSET Nodes
      PROVE  IsFiniteSet(S) /\ Cardinality(S) \in Nat
  BY <1>2, FS_Subset, FS_CardinalityType
<1> QED  BY <1>2, <1>3

(* Counting one more arrival: the count reaches the total exactly when the *)
(* arrival was the only one missing.                                       *)
LEMMA OneMore ==
  ASSUME NEW T \in SUBSET Nodes, NEW S \in SUBSET T, NEW n \in T, n \notin S
  PROVE  /\ Cardinality(S \cup {n}) = Cardinality(S) + 1
         /\ Cardinality(S) + 1 <= Cardinality(T)
         /\ Cardinality(S) + 1 = Cardinality(T) => S \cup {n} = T
         /\ Cardinality(S) \in Nat
         /\ Cardinality(T) \in Nat
<1>1. IsFiniteSet(S) /\ IsFiniteSet(T) /\ Cardinality(S) \in Nat /\ Cardinality(T) \in Nat
  BY NodesFinite
<1>2. Cardinality(S \cup {n}) = Cardinality(S) + 1
  BY <1>1, FS_AddElement
<1>3. S \cup {n} \in SUBSET T  OBVIOUS
<1>4. /\ Cardinality(S \cup {n}) <= Cardinality(T)
      /\ Cardinality(T) = Cardinality(S \cup {n}) => T = S \cup {n}
  BY <1>1, <1>3, FS_Subset
<1> QED  BY <1>1, <1>2, <1>4

(* An instant of a node counts at least that node.                         *)
LEMMA NonEmptyCount ==
  ASSUME NEW S \in SUBSET Nodes, NEW n \in S
  PROVE  Cardinality(S) \in Nat /\ Cardinality(S) > 0
  BY NodesFinite, FS_EmptySet

-----------------------------------------------------------------------------
(* The inductive invariant.                                                *)

(* run() starts in the invariant.                                          *)
LEMMA InitInv == Init => IInv
<1> SUFFICES ASSUME Init PROVE IInv
  OBVIOUS
<1> USE NodeCountAssumption, PeriodAssumption, PoolAssumption
<1>1. TypeOK
  <2>1. 0 \in Slots  BY DEF Slots
  <2>2. FreshBarrier(MaxNodes) \in Barriers  BY DEF FreshBarrier, Barriers
  <2> QED  BY <2>1, <2>2 DEF Init, TypeOK, Outside
<1>2. OnInstant
  <2>1. \A p \in Nat \ {0} : (p * 0) % p = 0  BY MultipleIsZero
  <2>2. \A p \in Nat \ {0} : 0 % p = 0  BY <2>1
  <2> QED  BY <2>2 DEF Init, OnInstant
<1>3. GroupIntegrity
  BY DEF Init, GroupIntegrity, Inside, EvalSide, DumpSide
<1>4. GroupOpen
  BY DEF Init, GroupOpen, ActiveAt
<1>5. SlotCounts /\ EvalBarrier /\ CommitBarrier
  BY DEF Init, SlotCounts, EvalBarrier, CommitBarrier
<1>6. WaiterGeneration
  BY DEF Init, WaiterGeneration
<1>7. PublishedTicks
  BY DEF Init, PublishedTicks, NextPublished
<1> QED  BY <1>1, <1>2, <1>3, <1>4, <1>5, <1>6, <1>7 DEF IInv

(* A move of a thread outside its tick, of the clock or of the stop flag   *)
(* leaves every group as it was.                                           *)
LEMMA OutsideMove ==
  ASSUME IInv,
         now' \in Nat, stop' \in BOOLEAN,
         pc' \in [Nodes -> Outside \cup Inside],
         \A n \in Nodes : pc'[n] = pc[n] \/ (pc[n] \in Outside /\ pc'[n] \in Outside),
         UNCHANGED <<act, slot, myGen, groupVars, evalB, commitB, commits>>
  PROVE  IInv'
<1> USE DEF groupVars
<1>0. \A n \in Nodes : pc[n] \in Outside => pc[n] \notin Inside /\ pc[n] # "evalWait"
                         /\ pc[n] # "commitWait"
  BY DEF Outside, Inside, EvalSide, DumpSide
<1>1. \A n \in Nodes : pc'[n] \in Outside => pc'[n] \notin Inside /\ pc'[n] # "evalWait"
                         /\ pc'[n] # "commitWait"
  BY DEF Outside, Inside, EvalSide, DumpSide
<1>2. \A n \in Nodes : \A l \in Inside : pc'[n] = l <=> pc[n] = l
  BY <1>0, <1>1
<1>3. ASSUME NEW i \in Slots
      PROVE  /\ Members(i)' = Members(i)
             /\ EvalWaiters(i)' = EvalWaiters(i)
             /\ CommitWaiters(i)' = CommitWaiters(i)
             /\ Participants(i)' = Participants(i)
             /\ Through(i)' = Through(i)
  BY <1>2 DEF Members, EvalWaiters, CommitWaiters, Participants, Through, ActiveAt,
              Inside, EvalSide, DumpSide
<1>4. TypeOK'
  BY DEF IInv, TypeOK
<1>5. OnInstant'
  BY DEF IInv, OnInstant
<1>6. GroupIntegrity'
  BY <1>2 DEF IInv, GroupIntegrity
<1>7. GroupOpen'
  BY DEF IInv, GroupOpen, HasGroup, Matches, ActiveAt
<1>8. SlotCounts'
  BY <1>3 DEF IInv, SlotCounts
<1>9. \A i \in Slots : \A n \in Members(i) : pc'[n] = pc[n]
  BY <1>2 DEF Members
<1>10. EvalBarrier'
  <2> SUFFICES ASSUME NEW i \in Slots, inUse'[i]
               PROVE  (EvalOpen(i) \/ EvalClosed(i))'
    BY DEF EvalBarrier
  <2>1. EvalOpen(i) \/ EvalClosed(i)  BY DEF IInv, EvalBarrier
  <2>2. EvalOpen(i) => EvalOpen(i)'
    BY <1>3, <1>9 DEF EvalOpen
  <2>3. EvalClosed(i) => EvalClosed(i)'
    BY <1>3, <1>9 DEF EvalClosed
  <2> QED  BY <2>1, <2>2, <2>3
<1>11. CommitBarrier'
  <2> SUFFICES ASSUME NEW i \in Slots, inUse'[i]
               PROVE  (CommitOpen(i) \/ CommitClosed(i))'
    BY DEF CommitBarrier
  <2>1. CommitOpen(i) \/ CommitClosed(i)  BY DEF IInv, CommitBarrier
  <2>2. CommitOpen(i) => CommitOpen(i)'
    BY <1>3, <1>9 DEF CommitOpen
  <2>3. CommitClosed(i) => CommitClosed(i)'
    BY <1>3, <1>9 DEF CommitClosed
  <2> QED  BY <2>1, <2>2, <2>3
<1>12. WaiterGeneration'
  BY <1>1 DEF IInv, WaiterGeneration
<1>13. PublishedTicks'
  BY <1>2 DEF IInv, PublishedTicks, NextPublished, Inside, EvalSide, DumpSide
<1> QED
  BY <1>4, <1>5, <1>6, <1>7, <1>8, <1>10, <1>11, <1>12, <1>13 DEF IInv

(* A thread that moves from one phase of its tick to another stays in its  *)
(* group, and the groups stay as they are.                                 *)
LEMMA InsideMove ==
  ASSUME IInv, NEW n \in Nodes, NEW l \in Inside,
         pc[n] \in Inside, pc' = [pc EXCEPT ![n] = l],
         UNCHANGED <<now, stop, act, slot, groupVars>>
  PROVE  /\ pc' \in [Nodes -> Outside \cup Inside]
         /\ OnInstant'
         /\ GroupIntegrity'
         /\ GroupOpen'
         /\ \A i \in Slots : /\ Members(i)' = Members(i)
                             /\ Participants(i)' = Participants(i)
                             /\ Through(i)' = Through(i)
<1> USE DEF groupVars
<1>1. pc' \in [Nodes -> Outside \cup Inside]
  BY DEF IInv, TypeOK
<1>2. \A m \in Nodes : pc'[m] \in Inside <=> pc[m] \in Inside
  BY DEF IInv, TypeOK
<1>3. OnInstant'
  BY DEF IInv, OnInstant
<1>4. GroupIntegrity'
  BY <1>2 DEF IInv, GroupIntegrity
<1>5. GroupOpen'
  BY DEF IInv, GroupOpen, HasGroup, Matches, ActiveAt
<1>6. \A i \in Slots : Members(i)' = Members(i)
  BY <1>2 DEF Members
<1>7. \A i \in Slots : /\ Participants(i)' = Participants(i)
                       /\ Through(i)' = Through(i)
  BY DEF Participants, Through, ActiveAt
<1> QED  BY <1>1, <1>3, <1>4, <1>5, <1>6, <1>7

(* What the invariant says of a thread inside its tick.                    *)
LEMMA MemberFacts ==
  ASSUME IInv, NEW n \in Nodes, pc[n] \in Inside
  PROVE  /\ slot[n] \in Slots
         /\ inUse[slot[n]]
         /\ instant[slot[n]] = act[n]
         /\ n \in Members(slot[n])
         /\ n \in Participants(slot[n])
         /\ n \notin Through(slot[n])
         /\ Participants(slot[n]) \in SUBSET Nodes
         /\ \A i \in Slots : i # slot[n] => n \notin Members(i)
<1>1. slot[n] \in Slots /\ act[n] \in Nat
  BY DEF IInv, TypeOK
<1>2. inUse[slot[n]] /\ instant[slot[n]] = act[n]
  BY DEF IInv, GroupIntegrity
<1>3. n \in Participants(slot[n])
  BY <1>2 DEF IInv, OnInstant, Participants, ActiveAt
<1> QED  BY <1>1, <1>2, <1>3 DEF Members, Through, Participants, ActiveAt

(* Members of a used slot take part in its instant, and are not through.   *)
LEMMA MembersParticipate ==
  ASSUME IInv, NEW i \in Slots
  PROVE  /\ Members(i) \in SUBSET Participants(i)
         /\ \A m \in Members(i) : act[m] = instant[i]
         /\ EvalWaiters(i) \in SUBSET Members(i)
         /\ CommitWaiters(i) \in SUBSET Members(i)
<1>1. \A m \in Members(i) : m \in Participants(i) /\ act[m] = instant[i]
  BY MemberFacts DEF Members, IInv, GroupIntegrity
<1> QED  BY <1>1 DEF EvalWaiters, CommitWaiters, Members, Inside, EvalSide

(* The latch phase ends.                                                   *)
LEMMA LatchInv ==
  ASSUME IInv, NEW n \in Nodes, Latch(n)
  PROVE  IInv'
<1> USE DEF Latch, Goto
<1>1. pc[n] \in Inside /\ "evaluate" \in Inside
  BY DEF Inside, EvalSide
<1>2. /\ pc' \in [Nodes -> Outside \cup Inside]
      /\ OnInstant' /\ GroupIntegrity' /\ GroupOpen'
      /\ \A i \in Slots : /\ Members(i)' = Members(i)
                          /\ Participants(i)' = Participants(i)
                          /\ Through(i)' = Through(i)
  BY <1>1, InsideMove
<1>3. \A m \in Nodes : pc'[m] = IF m = n THEN "evaluate" ELSE pc[m]
  BY DEF IInv, TypeOK
<1>4. \A i \in Slots : /\ EvalWaiters(i)' = EvalWaiters(i)
                       /\ CommitWaiters(i)' = CommitWaiters(i)
  BY <1>3 DEF EvalWaiters, CommitWaiters
<1>5. TypeOK'
  BY <1>2 DEF IInv, TypeOK, groupVars
<1>6. SlotCounts'
  BY <1>2 DEF IInv, SlotCounts, groupVars
<1>7. EvalBarrier'
  <2> SUFFICES ASSUME NEW i \in Slots, inUse'[i]
               PROVE  (EvalOpen(i) \/ EvalClosed(i))'
    BY DEF EvalBarrier
  <2>1. EvalOpen(i) \/ EvalClosed(i)  BY DEF IInv, EvalBarrier, groupVars
  <2>2. EvalOpen(i) => EvalOpen(i)'
    BY <1>2, <1>3, <1>4 DEF EvalOpen, EvalSide
  <2>3. EvalClosed(i) => EvalClosed(i)'
    <3>1. act[n] = instant[slot[n]] /\ n \in Participants(slot[n])
      BY <1>1, MemberFacts
    <3> QED  BY <1>2, <1>3, <3>1, MembersParticipate
             DEF EvalClosed, groupVars, Members, IInv, TypeOK
  <2> QED  BY <2>1, <2>2, <2>3
<1>8. CommitBarrier'
  <2> SUFFICES ASSUME NEW i \in Slots, inUse'[i]
               PROVE  (CommitOpen(i) \/ CommitClosed(i))'
    BY DEF CommitBarrier
  <2>1. CommitOpen(i) \/ CommitClosed(i)  BY DEF IInv, CommitBarrier, groupVars
  <2>2. CommitOpen(i) => CommitOpen(i)'
    BY <1>2, <1>3, <1>4 DEF CommitOpen
  <2>3. CommitClosed(i) => CommitClosed(i)'
    BY <1>2, <1>3, MembersParticipate DEF CommitClosed, groupVars
  <2> QED  BY <2>1, <2>2, <2>3
<1>9. WaiterGeneration'
  BY <1>3 DEF IInv, WaiterGeneration
<1>10. PublishedTicks'
  BY <1>3 DEF IInv, PublishedTicks, NextPublished
<1> QED
  BY <1>2, <1>5, <1>6, <1>7, <1>8, <1>9, <1>10 DEF IInv

(* A thread that moves inside its own group does not disturb the others.   *)
LEMMA OtherSlots ==
  ASSUME IInv, NEW n \in Nodes, NEW l \in Inside,
         pc[n] \in Inside, pc' = [pc EXCEPT ![n] = l],
         UNCHANGED <<now, stop, act, slot, groupVars>>,
         NEW i \in Slots, i # slot[n], inUse[i],
         evalB'[i] = evalB[i], commitB'[i] = commitB[i]
  PROVE  /\ (EvalOpen(i) \/ EvalClosed(i))'
         /\ (CommitOpen(i) \/ CommitClosed(i))'
<1>1. /\ Members(i)' = Members(i)
      /\ Participants(i)' = Participants(i)
      /\ Through(i)' = Through(i)
  BY InsideMove
<1>2. \A m \in Nodes : pc'[m] = IF m = n THEN l ELSE pc[m]
  BY DEF IInv, TypeOK
<1>3. n \notin Members(i)  BY MemberFacts
<1>4. \A m \in Members(i) : pc'[m] = pc[m]
  BY <1>2, <1>3 DEF Members
<1>5. /\ EvalWaiters(i)' = EvalWaiters(i)
      /\ CommitWaiters(i)' = CommitWaiters(i)
  BY <1>2 DEF EvalWaiters, CommitWaiters
<1>6. EvalOpen(i) \/ EvalClosed(i)  BY DEF IInv, EvalBarrier
<1>7. CommitOpen(i) \/ CommitClosed(i)  BY DEF IInv, CommitBarrier
<1>8. EvalOpen(i) => EvalOpen(i)'
  BY <1>1, <1>4, <1>5 DEF EvalOpen
<1>9. EvalClosed(i) => EvalClosed(i)'
  BY <1>1, <1>4 DEF EvalClosed, groupVars
<1>10. CommitOpen(i) => CommitOpen(i)'
  BY <1>1, <1>4, <1>5 DEF CommitOpen
<1>11. CommitClosed(i) => CommitClosed(i)'
  BY <1>1, <1>4 DEF CommitClosed, groupVars
<1> QED  BY <1>6, <1>7, <1>8, <1>9, <1>10, <1>11

(* rx_barrier_wait: the last arrival turns the generation, another one is  *)
(* counted.                                                                *)
LEMMA ArriveFacts ==
  ASSUME NEW b \in Barriers
  PROVE  /\ Arrive(b) \in Barriers
         /\ Arrive(b).total = b.total
         /\ IsLast(b) => Arrive(b).generation = b.generation + 1
         /\ ~IsLast(b) => /\ Arrive(b).generation = b.generation
                          /\ Arrive(b).waiting = b.waiting + 1
<1>1. CASE IsLast(b)
  BY <1>1 DEF Arrive, Barriers
<1>2. CASE ~IsLast(b)
  BY <1>2 DEF Arrive, Barriers
<1> QED  BY <1>1, <1>2

(* A thread that has not passed the eval barrier finds it open, and all of *)
(* its group on its side of both barriers.                                 *)
LEMMA BeforeEvalBarrier ==
  ASSUME IInv, NEW n \in Nodes, pc[n] \in {"latch", "evaluate"}
  PROVE  /\ pc[n] \in Inside
         /\ EvalOpen(slot[n])
         /\ CommitOpen(slot[n])
<1>1. pc[n] \in Inside  BY DEF Inside, EvalSide
<1>2. /\ slot[n] \in Slots /\ inUse[slot[n]] /\ instant[slot[n]] = act[n]
      /\ n \in Members(slot[n]) /\ n \in Participants(slot[n])
      /\ act[n] \in Nat
  BY <1>1, MemberFacts DEF IInv, TypeOK
<1>3. ~EvalClosed(slot[n])  BY <1>2 DEF EvalClosed
<1>4. ~CommitClosed(slot[n])  BY <1>2 DEF CommitClosed
<1> QED  BY <1>1, <1>2, <1>3, <1>4 DEF IInv, EvalBarrier, CommitBarrier

(* evaluate returns and the thread arrives at the eval barrier.            *)
LEMMA EvaluateInv ==
  ASSUME IInv, NEW n \in Nodes, Evaluate(n)
  PROVE  IInv'
<1> USE DEF Evaluate, Goto
<1> DEFINE s == slot[n]
           last == IsLast(evalB[s])
           l == IF last THEN "commit" ELSE "evalWait"
<1>1. pc[n] = "evaluate" /\ pc[n] \in Inside /\ EvalOpen(s) /\ CommitOpen(s)
  BY BeforeEvalBarrier
<1>2. /\ s \in Slots /\ inUse[s] /\ instant[s] = act[n] /\ n \in Members(s)
      /\ n \in Participants(s) /\ Participants(s) \in SUBSET Nodes
  BY <1>1, MemberFacts
<1>3. l \in Inside /\ pc' = [pc EXCEPT ![n] = l]
  BY DEF Inside, EvalSide
<1> HIDE DEF l
<1>4. UNCHANGED <<now, stop, act, slot, groupVars>>
  OBVIOUS
<1>5. /\ pc' \in [Nodes -> Outside \cup Inside]
      /\ OnInstant' /\ GroupIntegrity' /\ GroupOpen'
      /\ \A i \in Slots : /\ Members(i)' = Members(i)
                          /\ Participants(i)' = Participants(i)
                          /\ Through(i)' = Through(i)
  BY <1>1, <1>3, <1>4, InsideMove
<1>6. \A m \in Nodes : pc'[m] = IF m = n THEN l ELSE pc[m]
  BY <1>3 DEF IInv, TypeOK
<1>7. /\ evalB[s] \in Barriers
      /\ evalB'[s] = Arrive(evalB[s])
      /\ \A i \in Slots : i # s => evalB'[i] = evalB[i]
      /\ commitB' = commitB
  BY <1>2 DEF IInv, TypeOK
<1>8. /\ Arrive(evalB[s]) \in Barriers
      /\ Arrive(evalB[s]).total = evalB[s].total
      /\ last => Arrive(evalB[s]).generation = evalB[s].generation + 1
      /\ ~last => /\ Arrive(evalB[s]).generation = evalB[s].generation
                  /\ Arrive(evalB[s]).waiting = evalB[s].waiting + 1
  BY <1>7, ArriveFacts
<1>9. TypeOK'
  BY <1>2, <1>5, <1>7, <1>8 DEF IInv, TypeOK, groupVars, Barriers
<1>10. SlotCounts'
  BY <1>5, <1>7, <1>8 DEF IInv, SlotCounts, groupVars
<1>11. /\ EvalWaiters(s) \in SUBSET Participants(s)
       /\ n \notin EvalWaiters(s)
       /\ EvalWaiters(s)' = IF last THEN EvalWaiters(s) ELSE EvalWaiters(s) \cup {n}
       /\ CommitWaiters(s)' = CommitWaiters(s)
  BY <1>1, <1>2, <1>6, MembersParticipate DEF EvalWaiters, CommitWaiters, l
<1>12. /\ Cardinality(EvalWaiters(s) \cup {n}) = evalB[s].waiting + 1
       /\ evalB[s].waiting + 1 <= evalB[s].total
       /\ evalB[s].waiting + 1 = evalB[s].total => EvalWaiters(s) \cup {n} = Participants(s)
  <2>1. evalB[s].total = Cardinality(Participants(s))
    BY <1>2 DEF IInv, SlotCounts
  <2>2. evalB[s].waiting = Cardinality(EvalWaiters(s))
    BY <1>1 DEF EvalOpen
  <2>3. /\ Cardinality(EvalWaiters(s) \cup {n}) = Cardinality(EvalWaiters(s)) + 1
        /\ Cardinality(EvalWaiters(s)) + 1 <= Cardinality(Participants(s))
        /\ Cardinality(EvalWaiters(s)) + 1 = Cardinality(Participants(s))
             => EvalWaiters(s) \cup {n} = Participants(s)
    BY <1>2, <1>11, OneMore
  <2> QED  BY <2>1, <2>2, <2>3
<1>13. (EvalOpen(s) \/ EvalClosed(s))'
  <2>1. CASE last
    <3>1. EvalWaiters(s) \cup {n} = Participants(s)
      BY <2>1, <1>12 DEF IsLast
    <3>2. \A m \in Participants(s) : m \in Members(s) /\ pc'[m] \notin {"latch", "evaluate"}
      BY <3>1, <2>1, <1>2, <1>6, MembersParticipate DEF EvalWaiters, l
    <3> QED  BY <2>1, <3>2, <1>1, <1>2, <1>5, <1>7, <1>8 DEF EvalClosed, EvalOpen
  <2>2. CASE ~last
    <3>1. l = "evalWait"  BY <2>2 DEF l
    <3>2. \A m \in Members(s) : pc'[m] \in EvalSide
      BY <3>1, <1>1, <1>6 DEF EvalOpen, EvalSide, Members
    <3>3. evalB[s].waiting + 1 < evalB[s].total
      BY <2>2, <1>7, <1>12 DEF IsLast, Barriers
    <3> QED  BY <2>2, <3>2, <3>3, <1>1, <1>2, <1>5, <1>7, <1>8, <1>11, <1>12 DEF EvalOpen
  <2> QED  BY <2>1, <2>2
<1>14. (CommitOpen(s) \/ CommitClosed(s))'
  <2>1. l # "dump"  BY DEF l
  <2> QED  BY <2>1, <1>1, <1>2, <1>5, <1>6, <1>7, <1>11 DEF CommitOpen
<1>15. EvalBarrier' /\ CommitBarrier'
  BY <1>1, <1>3, <1>4, <1>7, <1>13, <1>14, OtherSlots, ZenonT(40) DEF EvalBarrier, CommitBarrier, groupVars
<1>16. WaiterGeneration'
  <2>1. \A m \in Nodes : m # n => myGen'[m] = myGen[m]
    BY DEF IInv, TypeOK
  <2>2. myGen'[n] = 0
    BY <1>1 DEF IInv, TypeOK, EvalOpen
  <2> QED  BY <2>1, <2>2, <1>6 DEF IInv, WaiterGeneration
<1>17. PublishedTicks'
  BY <1>1, <1>6 DEF IInv, PublishedTicks, NextPublished, l
<1> QED
  BY <1>5, <1>9, <1>10, <1>15, <1>16, <1>17 DEF IInv

(* A thread that is past the eval barrier finds it closed; one that has    *)
(* not arrived at the commit barrier finds that one open.                  *)
LEMMA BetweenBarriers ==
  ASSUME IInv, NEW n \in Nodes, pc[n] \in Inside
  PROVE  /\ pc[n] \in {"commit", "deferred", "commitWait", "dump"} => EvalClosed(slot[n])
         /\ pc[n] \in {"evalWait", "commit", "deferred"} => CommitOpen(slot[n])
         /\ pc[n] = "dump" => CommitClosed(slot[n])
<1>1. /\ slot[n] \in Slots /\ inUse[slot[n]] /\ instant[slot[n]] = act[n]
      /\ n \in Members(slot[n]) /\ n \in Participants(slot[n])
      /\ act[n] \in Nat
  BY MemberFacts DEF IInv, TypeOK
<1>2. /\ EvalOpen(slot[n]) \/ EvalClosed(slot[n])
      /\ CommitOpen(slot[n]) \/ CommitClosed(slot[n])
  BY <1>1 DEF IInv, EvalBarrier, CommitBarrier
<1>3. EvalOpen(slot[n]) => pc[n] \in EvalSide  BY <1>1 DEF EvalOpen
<1>4. CommitClosed(slot[n]) => pc[n] \in {"commitWait", "dump"}
  BY <1>1 DEF CommitClosed
<1>5. CommitOpen(slot[n]) => pc[n] # "dump"  BY <1>1 DEF CommitOpen
<1> QED  BY <1>2, <1>3, <1>4, <1>5 DEF EvalSide

(* A thread that moves on without touching a barrier keeps the invariant   *)
(* if both barriers of its group are as they should be, and its published  *)
(* ticks are.                                                              *)
LEMMA PlainMove ==
  ASSUME IInv, NEW n \in Nodes, NEW l \in Inside,
         pc[n] \in Inside, pc' = [pc EXCEPT ![n] = l],
         UNCHANGED <<now, stop, act, slot, myGen, groupVars, evalB, commitB>>,
         (EvalOpen(slot[n]) \/ EvalClosed(slot[n]))',
         (CommitOpen(slot[n]) \/ CommitClosed(slot[n]))',
         l \notin {"evalWait", "commitWait"},
         commits' \in [Nodes -> Nat],
         PublishedTicks'
  PROVE  IInv'
<1>1. UNCHANGED <<now, stop, act, slot, groupVars>>
  OBVIOUS
<1>2. /\ pc' \in [Nodes -> Outside \cup Inside]
      /\ OnInstant' /\ GroupIntegrity' /\ GroupOpen'
      /\ \A i \in Slots : /\ Members(i)' = Members(i)
                          /\ Participants(i)' = Participants(i)
                          /\ Through(i)' = Through(i)
  BY <1>1, InsideMove
<1>3. \A m \in Nodes : pc'[m] = IF m = n THEN l ELSE pc[m]
  BY DEF IInv, TypeOK
<1>4. TypeOK'
  BY <1>2 DEF IInv, TypeOK, groupVars
<1>5. SlotCounts'
  BY <1>2 DEF IInv, SlotCounts, groupVars
<1>6. EvalBarrier' /\ CommitBarrier'
  BY <1>1, OtherSlots DEF EvalBarrier, CommitBarrier, groupVars
<1>7. WaiterGeneration'
  BY <1>3 DEF IInv, WaiterGeneration
<1> QED  BY <1>2, <1>4, <1>5, <1>6, <1>7 DEF IInv

(* A thread wakes up in the eval barrier.                                  *)
LEMMA EvalWakeInv ==
  ASSUME IInv, NEW n \in Nodes, EvalWake(n)
  PROVE  IInv'
<1> USE DEF EvalWake, Goto
<1> DEFINE s == slot[n]
<1>1. pc[n] \in Inside /\ "commit" \in Inside /\ CommitOpen(s) /\ EvalClosed(s)
  <2>1. pc[n] \in Inside /\ "commit" \in Inside  BY DEF Inside, EvalSide
  <2>2. s \in Slots /\ inUse[s]  BY <2>1, MemberFacts
  <2>3. ~EvalOpen(s)  BY DEF EvalOpen, IInv, WaiterGeneration
  <2> QED  BY <2>1, <2>2, <2>3, BetweenBarriers DEF IInv, EvalBarrier
<1>2. s \in Slots  BY <1>1, MemberFacts
<1>3. UNCHANGED <<now, stop, act, slot, groupVars>>
  OBVIOUS
<1>4. \A i \in Slots : /\ Members(i)' = Members(i)
                       /\ Participants(i)' = Participants(i)
                       /\ Through(i)' = Through(i)
  BY <1>1, <1>3, InsideMove
<1>5. \A m \in Nodes : pc'[m] = IF m = n THEN "commit" ELSE pc[m]
  BY DEF IInv, TypeOK
<1>6. CommitWaiters(s)' = CommitWaiters(s)
  BY <1>5 DEF CommitWaiters
<1>7. EvalClosed(s)'
  BY <1>1, <1>2, <1>4, <1>5 DEF EvalClosed, groupVars
<1>8. CommitOpen(s)'
  BY <1>1, <1>2, <1>4, <1>5, <1>6 DEF CommitOpen
<1>9. PublishedTicks' /\ commits' \in [Nodes -> Nat]
  BY <1>5 DEF IInv, TypeOK, PublishedTicks, NextPublished
<1> QED  BY <1>1, <1>7, <1>8, <1>9, PlainMove

(* commit publishes one more tick.                                         *)
LEMMA CommitInv ==
  ASSUME IInv, NEW n \in Nodes, Commit(n)
  PROVE  IInv'
<1> USE DEF Commit, Goto
<1> DEFINE s == slot[n]
<1>1. pc[n] \in Inside /\ "deferred" \in Inside /\ CommitOpen(s) /\ EvalClosed(s)
  BY BetweenBarriers DEF Inside, EvalSide
<1>2. s \in Slots  BY <1>1, MemberFacts
<1>3. UNCHANGED <<now, stop, act, slot, groupVars>>
  OBVIOUS
<1>4. \A i \in Slots : /\ Members(i)' = Members(i)
                       /\ Participants(i)' = Participants(i)
                       /\ Through(i)' = Through(i)
  BY <1>1, <1>3, InsideMove
<1>5. \A m \in Nodes : pc'[m] = IF m = n THEN "deferred" ELSE pc[m]
  BY DEF IInv, TypeOK
<1>6. CommitWaiters(s)' = CommitWaiters(s)
  BY <1>5 DEF CommitWaiters
<1>7. EvalClosed(s)'
  BY <1>1, <1>2, <1>4, <1>5 DEF EvalClosed, groupVars
<1>8. CommitOpen(s)'
  BY <1>1, <1>2, <1>4, <1>5, <1>6 DEF CommitOpen
<1>9. commits' \in [Nodes -> Nat]
  BY DEF IInv, TypeOK
<1>10. PublishedTicks'
  <2>1. \A m \in Nodes : m # n => NextPublished(m)' = NextPublished(m)
    BY DEF IInv, TypeOK, NextPublished
  <2>2. commits'[n] = commits[n] + 1 /\ commits[n] \in Nat
    BY DEF IInv, TypeOK
  <2>3. Period[n] \in Nat  BY PeriodAssumption
  <2>4. NextPublished(n)' = NextPublished(n) + Period[n]
    BY <2>2, <2>3 DEF NextPublished
  <2>5. NextPublished(n) = act[n]
    BY DEF IInv, PublishedTicks
  <2> QED  BY <2>1, <2>4, <2>5, <1>3, <1>5 DEF IInv, PublishedTicks
<1> QED  BY <1>1, <1>7, <1>8, <1>9, <1>10, PlainMove

(* The deferred actions are done and the thread arrives at the commit      *)
(* barrier.                                                                *)
LEMMA DispatchInv ==
  ASSUME IInv, NEW n \in Nodes, Dispatch(n)
  PROVE  IInv'
<1> USE DEF Dispatch, Goto
<1> DEFINE s == slot[n]
           last == IsLast(commitB[s])
           l == IF last THEN "dump" ELSE "commitWait"
<1>1. pc[n] = "deferred" /\ pc[n] \in Inside /\ EvalClosed(s) /\ CommitOpen(s)
  BY BetweenBarriers DEF Inside
<1>2. /\ s \in Slots /\ inUse[s] /\ instant[s] = act[n] /\ n \in Members(s)
      /\ n \in Participants(s) /\ Participants(s) \in SUBSET Nodes
  BY <1>1, MemberFacts
<1>3. l \in Inside /\ pc' = [pc EXCEPT ![n] = l]
  BY DEF Inside, DumpSide
<1> HIDE DEF l
<1>4. UNCHANGED <<now, stop, act, slot, groupVars>>
  OBVIOUS
<1>5. /\ pc' \in [Nodes -> Outside \cup Inside]
      /\ OnInstant' /\ GroupIntegrity' /\ GroupOpen'
      /\ \A i \in Slots : /\ Members(i)' = Members(i)
                          /\ Participants(i)' = Participants(i)
                          /\ Through(i)' = Through(i)
  BY <1>1, <1>3, <1>4, InsideMove
<1>6. \A m \in Nodes : pc'[m] = IF m = n THEN l ELSE pc[m]
  BY <1>3 DEF IInv, TypeOK
<1>7. /\ commitB[s] \in Barriers
      /\ commitB'[s] = Arrive(commitB[s])
      /\ \A i \in Slots : i # s => commitB'[i] = commitB[i]
      /\ evalB' = evalB
  BY <1>2 DEF IInv, TypeOK
<1>8. /\ Arrive(commitB[s]) \in Barriers
      /\ Arrive(commitB[s]).total = commitB[s].total
      /\ last => Arrive(commitB[s]).generation = commitB[s].generation + 1
      /\ ~last => /\ Arrive(commitB[s]).generation = commitB[s].generation
                  /\ Arrive(commitB[s]).waiting = commitB[s].waiting + 1
  BY <1>7, ArriveFacts
<1>9. TypeOK'
  BY <1>2, <1>5, <1>7, <1>8 DEF IInv, TypeOK, groupVars, Barriers
<1>10. SlotCounts'
  BY <1>5, <1>7, <1>8 DEF IInv, SlotCounts, groupVars
<1>11. /\ CommitWaiters(s) \in SUBSET Participants(s)
       /\ n \notin CommitWaiters(s)
       /\ CommitWaiters(s)' = IF last THEN CommitWaiters(s) ELSE CommitWaiters(s) \cup {n}
  BY <1>1, <1>2, <1>6, MembersParticipate DEF CommitWaiters, l
<1>12. /\ Cardinality(CommitWaiters(s) \cup {n}) = commitB[s].waiting + 1
       /\ commitB[s].waiting + 1 <= commitB[s].total
       /\ commitB[s].waiting + 1 = commitB[s].total => CommitWaiters(s) \cup {n} = Participants(s)
  <2>1. commitB[s].total = Cardinality(Participants(s))
    BY <1>2 DEF IInv, SlotCounts
  <2>2. commitB[s].waiting = Cardinality(CommitWaiters(s))
    BY <1>1 DEF CommitOpen
  <2>3. /\ Cardinality(CommitWaiters(s) \cup {n}) = Cardinality(CommitWaiters(s)) + 1
        /\ Cardinality(CommitWaiters(s)) + 1 <= Cardinality(Participants(s))
        /\ Cardinality(CommitWaiters(s)) + 1 = Cardinality(Participants(s))
             => CommitWaiters(s) \cup {n} = Participants(s)
    BY <1>2, <1>11, OneMore
  <2> QED  BY <2>1, <2>2, <2>3
<1>13. (CommitOpen(s) \/ CommitClosed(s))'
  <2>1. CASE last
    <3>1. CommitWaiters(s) \cup {n} = Participants(s)
      BY <2>1, <1>12 DEF IsLast
    <3>2. \A m \in Participants(s) : m \in Members(s) /\ pc'[m] \in {"commitWait", "dump"}
      BY <3>1, <2>1, <1>2, <1>6, MembersParticipate DEF CommitWaiters, l
    <3> QED  BY <2>1, <3>2, <1>1, <1>2, <1>5, <1>7, <1>8 DEF CommitClosed, CommitOpen
  <2>2. CASE ~last
    <3>1. l = "commitWait"  BY <2>2 DEF l
    <3>2. \A m \in Members(s) : pc'[m] # "dump"
      BY <3>1, <1>1, <1>6 DEF CommitOpen, Members
    <3>3. commitB[s].waiting + 1 < commitB[s].total
      BY <2>2, <1>7, <1>12 DEF IsLast, Barriers
    <3> QED  BY <2>2, <3>2, <3>3, <1>1, <1>2, <1>5, <1>7, <1>8, <1>11, <1>12 DEF CommitOpen
  <2> QED  BY <2>1, <2>2
<1>14. EvalClosed(s)'
  BY <1>1, <1>2, <1>4, <1>5, <1>6, <1>7 DEF EvalClosed, groupVars, l
<1>15. EvalBarrier' /\ CommitBarrier'
  BY <1>1, <1>3, <1>4, <1>7, <1>13, <1>14, OtherSlots, ZenonT(40) DEF EvalBarrier, CommitBarrier, groupVars
<1>16. WaiterGeneration'
  <2>1. \A m \in Nodes : m # n => myGen'[m] = myGen[m]
    BY DEF IInv, TypeOK
  <2>2. myGen'[n] = 0
    BY <1>1 DEF IInv, TypeOK, CommitOpen
  <2> QED  BY <2>1, <2>2, <1>6 DEF IInv, WaiterGeneration
<1>17. PublishedTicks'
  BY <1>1, <1>6 DEF IInv, PublishedTicks, NextPublished, l
<1> QED
  BY <1>5, <1>9, <1>10, <1>15, <1>16, <1>17 DEF IInv

(* A thread wakes up in the commit barrier.                                *)
LEMMA CommitWakeInv ==
  ASSUME IInv, NEW n \in Nodes, CommitWake(n)
  PROVE  IInv'
<1> USE DEF CommitWake, Goto
<1> DEFINE s == slot[n]
<1>1. pc[n] \in Inside /\ "dump" \in Inside /\ CommitClosed(s) /\ EvalClosed(s)
  <2>1. pc[n] \in Inside /\ "dump" \in Inside  BY DEF Inside, DumpSide
  <2>2. s \in Slots /\ inUse[s]  BY <2>1, MemberFacts
  <2>3. ~CommitOpen(s)  BY DEF CommitOpen, IInv, WaiterGeneration
  <2> QED  BY <2>1, <2>2, <2>3, BetweenBarriers DEF IInv, CommitBarrier
<1>2. s \in Slots  BY <1>1, MemberFacts
<1>3. UNCHANGED <<now, stop, act, slot, groupVars>>
  OBVIOUS
<1>4. \A i \in Slots : /\ Members(i)' = Members(i)
                       /\ Participants(i)' = Participants(i)
                       /\ Through(i)' = Through(i)
  BY <1>1, <1>3, InsideMove
<1>5. \A m \in Nodes : pc'[m] = IF m = n THEN "dump" ELSE pc[m]
  BY DEF IInv, TypeOK
<1>6. EvalClosed(s)' /\ CommitClosed(s)'
  BY <1>1, <1>2, <1>4, <1>5 DEF EvalClosed, CommitClosed, groupVars
<1>7. PublishedTicks' /\ commits' \in [Nodes -> Nat]
  BY <1>5 DEF IInv, TypeOK, PublishedTicks, NextPublished
<1> QED  BY <1>1, <1>6, <1>7, PlainMove

(* A due thread joins the group of its instant.                            *)
LEMMA JoinGroupInv ==
  ASSUME IInv, NEW n \in Nodes, JoinGroup(n)
  PROVE  IInv'
<1> USE DEF JoinGroup, Due, Goto, Enter
<1>1. PICK s \in Slots : /\ inUse[s] /\ instant[s] = act[n]
                         /\ pc' = [pc EXCEPT ![n] = "latch"]
                         /\ slot' = [slot EXCEPT ![n] = s]
  BY DEF FirstMatch, Matches
<1>2. /\ pc[n] = "sleep" /\ pc[n] \notin Inside
      /\ UNCHANGED <<now, stop, act, myGen, inUse, instant, count, done,
                     evalB, commitB, commits>>
  BY DEF Inside, EvalSide, DumpSide, groupVars
<1>3. \A m \in Nodes : /\ pc'[m] = IF m = n THEN "latch" ELSE pc[m]
                       /\ slot'[m] = IF m = n THEN s ELSE slot[m]
  BY <1>1 DEF IInv, TypeOK
<1>4. "latch" \in Inside  BY DEF Inside, EvalSide
<1>5. TypeOK'
  BY <1>1, <1>2, <1>4 DEF IInv, TypeOK
<1>6. OnInstant' /\ GroupIntegrity' /\ GroupOpen'
  <2>1. OnInstant'  BY <1>2 DEF IInv, OnInstant
  <2>2. GroupIntegrity'  BY <1>1, <1>2, <1>3 DEF IInv, GroupIntegrity
  <2>3. GroupOpen'
    BY <1>2 DEF IInv, GroupOpen, HasGroup, Matches, ActiveAt
  <2> QED  BY <2>1, <2>2, <2>3
<1>7. \A i \in Slots : /\ EvalWaiters(i)' = EvalWaiters(i)
                       /\ CommitWaiters(i)' = CommitWaiters(i)
                       /\ Participants(i)' = Participants(i)
                       /\ Through(i)' = Through(i)
                       /\ Members(i)' = IF i = s THEN Members(i) \cup {n} ELSE Members(i)
  BY <1>2, <1>3, <1>4 DEF EvalWaiters, CommitWaiters, Participants, Through, Members, ActiveAt
<1>8. /\ n \in Participants(s) /\ n \notin Members(s) /\ act[n] <= instant[s]
      /\ \A i \in Slots : n \notin Members(i)
  BY <1>1, <1>2 DEF IInv, TypeOK, OnInstant, Participants, ActiveAt, Members
<1>9. \A i \in Slots : \A m \in Members(i) : pc'[m] = pc[m]
  BY <1>3, <1>8 DEF Members
<1>10. EvalOpen(s) /\ CommitOpen(s)
  BY <1>1, <1>8 DEF IInv, EvalBarrier, CommitBarrier, EvalClosed, CommitClosed
<1>11. SlotCounts'
  BY <1>2, <1>7 DEF IInv, SlotCounts
<1>12. EvalBarrier'
  <2> SUFFICES ASSUME NEW i \in Slots, inUse[i]
               PROVE  (EvalOpen(i) \/ EvalClosed(i))'
    BY <1>2 DEF EvalBarrier
  <2>1. CASE i = s
    BY <2>1, <1>2, <1>3, <1>7, <1>9, <1>10 DEF EvalOpen, EvalSide
  <2>2. CASE i # s
    <3>1. EvalOpen(i) => EvalOpen(i)'
      BY <2>2, <1>2, <1>7, <1>9 DEF EvalOpen
    <3>2. EvalClosed(i) => EvalClosed(i)'
      BY <2>2, <1>2, <1>7, <1>9 DEF EvalClosed
    <3> QED  BY <3>1, <3>2 DEF IInv, EvalBarrier
  <2> QED  BY <2>1, <2>2
<1>13. CommitBarrier'
  <2> SUFFICES ASSUME NEW i \in Slots, inUse[i]
               PROVE  (CommitOpen(i) \/ CommitClosed(i))'
    BY <1>2 DEF CommitBarrier
  <2>1. CASE i = s
    BY <2>1, <1>2, <1>3, <1>7, <1>9, <1>10 DEF CommitOpen
  <2>2. CASE i # s
    <3>1. CommitOpen(i) => CommitOpen(i)'
      BY <2>2, <1>2, <1>7, <1>9 DEF CommitOpen
    <3>2. CommitClosed(i) => CommitClosed(i)'
      BY <2>2, <1>2, <1>7, <1>9 DEF CommitClosed
    <3> QED  BY <3>1, <3>2 DEF IInv, CommitBarrier
  <2> QED  BY <2>1, <2>2
<1>14. WaiterGeneration' /\ PublishedTicks'
  BY <1>2, <1>3 DEF IInv, WaiterGeneration, PublishedTicks, NextPublished
<1> QED
  BY <1>5, <1>6, <1>11, <1>12, <1>13, <1>14 DEF IInv

(* A due thread opens a group for its instant in a free slot.              *)
LEMMA CreateGroupInv ==
  ASSUME IInv, NEW n \in Nodes, CreateGroup(n)
  PROVE  IInv'
<1> USE DEF CreateGroup, Due, Goto, Enter
<1> DEFINE size == Cardinality(ActiveAt(act[n]))
<1>1. PICK s \in Slots :
        /\ ~inUse[s]
        /\ pc' = [pc EXCEPT ![n] = "latch"]
        /\ slot' = [slot EXCEPT ![n] = s]
        /\ inUse' = [inUse EXCEPT ![s] = TRUE]
        /\ instant' = [instant EXCEPT ![s] = act[n]]
        /\ count' = [count EXCEPT ![s] = size]
        /\ done' = [done EXCEPT ![s] = 0]
        /\ evalB' = [evalB EXCEPT ![s] = FreshBarrier(size)]
        /\ commitB' = [commitB EXCEPT ![s] = FreshBarrier(size)]
  BY DEF FirstFree
<1>2. /\ pc[n] = "sleep" /\ pc[n] \notin Inside
      /\ UNCHANGED <<now, stop, act, myGen, commits>>
  BY DEF Inside, EvalSide, DumpSide
<1>3. \A m \in Nodes : /\ pc'[m] = IF m = n THEN "latch" ELSE pc[m]
                       /\ slot'[m] = IF m = n THEN s ELSE slot[m]
  BY <1>1 DEF IInv, TypeOK
<1>4. "latch" \in Inside  BY DEF Inside, EvalSide
<1>5. /\ size \in Nat /\ size > 0 /\ FreshBarrier(size) \in Barriers
      /\ n \in ActiveAt(act[n])
  <2>1. n \in ActiveAt(act[n]) /\ ActiveAt(act[n]) \in SUBSET Nodes
    BY DEF IInv, OnInstant, ActiveAt
  <2> QED  BY <2>1, NonEmptyCount DEF FreshBarrier, Barriers
<1> HIDE DEF size
<1>6. TypeOK'
  BY <1>1, <1>2, <1>4, <1>5 DEF IInv, TypeOK
<1>7. \A i \in Slots : i # s =>
        /\ inUse'[i] = inUse[i] /\ instant'[i] = instant[i] /\ count'[i] = count[i]
        /\ done'[i] = done[i] /\ evalB'[i] = evalB[i] /\ commitB'[i] = commitB[i]
  BY <1>1 DEF IInv, TypeOK
<1>8. /\ inUse'[s] = TRUE /\ instant'[s] = act[n] /\ count'[s] = size /\ done'[s] = 0
      /\ evalB'[s] = FreshBarrier(size) /\ commitB'[s] = FreshBarrier(size)
  BY <1>1 DEF IInv, TypeOK
<1>9. \A i \in Slots : inUse[i] => instant[i] # act[n]
  BY DEF HasGroup, Matches
<1>10. \A m \in Nodes : pc[m] \in Inside => slot[m] # s
  BY <1>1 DEF IInv, GroupIntegrity
<1>11. OnInstant' /\ GroupIntegrity' /\ GroupOpen'
  <2>1. OnInstant'  BY <1>2 DEF IInv, OnInstant
  <2>2. GroupIntegrity'
    <3>1. ASSUME NEW m \in Nodes, pc'[m] \in Inside
          PROVE  inUse'[slot'[m]] /\ instant'[slot'[m]] = act'[m]
      <4>1. CASE m = n  BY <4>1, <1>2, <1>3, <1>8
      <4>2. CASE m # n
        BY <4>2, <3>1, <1>2, <1>3, <1>7, <1>10 DEF IInv, GroupIntegrity, TypeOK
      <4> QED  BY <4>1, <4>2
    <3>2. ASSUME NEW i \in Slots, NEW j \in Slots,
                 inUse'[i], inUse'[j], instant'[i] = instant'[j]
          PROVE  i = j
      BY <3>2, <1>7, <1>8, <1>9 DEF IInv, GroupIntegrity
    <3> QED  BY <3>1, <3>2 DEF GroupIntegrity
  <2>3. \A a : HasGroup(a) => HasGroup(a)'
    BY <1>1, <1>7 DEF HasGroup, Matches
  <2>4. GroupOpen'
    BY <2>3, <1>2 DEF IInv, GroupOpen, ActiveAt
  <2> QED  BY <2>1, <2>2, <2>4
<1>12. \A i \in Slots : i # s =>
         /\ EvalWaiters(i)' = EvalWaiters(i)
         /\ CommitWaiters(i)' = CommitWaiters(i)
         /\ Participants(i)' = Participants(i)
         /\ Through(i)' = Through(i)
         /\ Members(i)' = Members(i)
  <2> SUFFICES ASSUME NEW i \in Slots, i # s
               PROVE  /\ EvalWaiters(i)' = EvalWaiters(i)
                      /\ CommitWaiters(i)' = CommitWaiters(i)
                      /\ Participants(i)' = Participants(i)
                      /\ Through(i)' = Through(i)
                      /\ Members(i)' = Members(i)
    OBVIOUS
  <2>1. EvalWaiters(i)' = EvalWaiters(i) /\ CommitWaiters(i)' = CommitWaiters(i)
    BY <1>2, <1>3 DEF EvalWaiters, CommitWaiters
  <2>2. Participants(i)' = Participants(i) /\ Through(i)' = Through(i)
    BY <1>2, <1>7 DEF Participants, Through, ActiveAt
  <2>3. Members(i)' = Members(i)
    BY <1>2, <1>3 DEF Members
  <2> QED  BY <2>1, <2>2, <2>3
<1>13. /\ Participants(s)' = ActiveAt(act[n])
       /\ Members(s)' = {n}
       /\ EvalWaiters(s)' = {}
       /\ CommitWaiters(s)' = {}
  BY <1>3, <1>4, <1>5, <1>8, <1>10
     DEF Participants, Members, EvalWaiters, CommitWaiters, ActiveAt, Inside, EvalSide
<1>14. Through(s)' = {}
  <2>1. \A m \in ActiveAt(act[n]) : ~(act[m] > act[n])
    BY <1>5 DEF IInv, TypeOK, GroupOpen, ActiveAt
  <2> QED  BY <2>1, <1>2, <1>8, <1>13 DEF Through
<1>15. Cardinality({}) = 0  BY FS_EmptySet
<1>16. SlotCounts'
  <2> SUFFICES ASSUME NEW i \in Slots, inUse'[i]
               PROVE  /\ Members(i)' # {}
                      /\ count'[i] = Cardinality(Participants(i)')
                      /\ done'[i] = Cardinality(Through(i)')
                      /\ evalB'[i].total = count'[i]
                      /\ commitB'[i].total = count'[i]
    BY DEF SlotCounts
  <2>1. CASE i = s
    BY <2>1, <1>8, <1>13, <1>14, <1>15 DEF FreshBarrier, size
  <2>2. CASE i # s
    <3>1. inUse[i] /\ count'[i] = count[i] /\ done'[i] = done[i]
          /\ evalB'[i] = evalB[i] /\ commitB'[i] = commitB[i]
      BY <2>2, <1>7
    <3>2. Members(i)' = Members(i) /\ Participants(i)' = Participants(i)
          /\ Through(i)' = Through(i)
      BY <2>2, <1>12
    <3> QED  BY <3>1, <3>2 DEF IInv, SlotCounts
  <2> QED  BY <2>1, <2>2
<1>17. \A i \in Slots : \A m \in Members(i) : pc'[m] = pc[m]
  BY <1>2, <1>3 DEF Members
<1>18. EvalBarrier'
  <2> SUFFICES ASSUME NEW i \in Slots, inUse'[i]
               PROVE  (EvalOpen(i) \/ EvalClosed(i))'
    BY DEF EvalBarrier
  <2>1. CASE i = s
    BY <2>1, <1>3, <1>5, <1>8, <1>13, <1>14, <1>15 DEF EvalOpen, EvalSide, FreshBarrier
  <2>2. CASE i # s
    <3>0. /\ evalB'[i] = evalB[i] /\ EvalWaiters(i)' = EvalWaiters(i)
          /\ Through(i)' = Through(i) /\ Members(i)' = Members(i)
      BY <2>2, <1>7, <1>12
    <3>1. EvalOpen(i) => EvalOpen(i)'
      BY <3>0, <1>17 DEF EvalOpen
    <3>2. EvalClosed(i) => EvalClosed(i)'
      BY <2>2, <1>2, <1>7, <1>12, <1>17, ZenonT(40) DEF EvalClosed
    <3> QED  BY <2>2, <3>1, <3>2, <1>7 DEF IInv, EvalBarrier
  <2> QED  BY <2>1, <2>2
<1>19. CommitBarrier'
  <2> SUFFICES ASSUME NEW i \in Slots, inUse'[i]
               PROVE  (CommitOpen(i) \/ CommitClosed(i))'
    BY DEF CommitBarrier
  <2>1. CASE i = s
    BY <2>1, <1>3, <1>5, <1>8, <1>13, <1>14, <1>15 DEF CommitOpen, FreshBarrier
  <2>2. CASE i # s
    <3>1. CommitOpen(i) => CommitOpen(i)'
      BY <2>2, <1>7, <1>12, <1>17, ZenonT(40) DEF CommitOpen
    <3>2. CommitClosed(i) => CommitClosed(i)'
      BY <2>2, <1>2, <1>7, <1>12, <1>17, ZenonT(40) DEF CommitClosed
    <3> QED  BY <2>2, <3>1, <3>2, <1>7 DEF IInv, CommitBarrier
  <2> QED  BY <2>1, <2>2
<1>20. WaiterGeneration' /\ PublishedTicks'
  BY <1>2, <1>3 DEF IInv, WaiterGeneration, PublishedTicks, NextPublished
<1> QED
  BY <1>6, <1>11, <1>16, <1>18, <1>19, <1>20 DEF IInv

(* A thread leaves its group; the last one frees the slot.                 *)
LEMMA DumpInv ==
  ASSUME IInv, NEW n \in Nodes, Dump(n)
  PROVE  IInv'
<1> USE DEF Dump, Goto, GroupDone
<1> DEFINE s == slot[n]
           freed == done[s] + 1 = count[s]
<1>1. /\ pc[n] = "dump" /\ pc[n] \in Inside
      /\ UNCHANGED <<now, stop, slot, myGen, instant, count, evalB, commitB, commits>>
  BY DEF Inside, DumpSide
<1>2. /\ s \in Slots /\ inUse[s] /\ instant[s] = act[n]
      /\ n \in Members(s) /\ n \in Participants(s) /\ n \notin Through(s)
      /\ Participants(s) \in SUBSET Nodes
      /\ \A i \in Slots : i # s => n \notin Members(i)
      /\ EvalClosed(s) /\ CommitClosed(s)
  BY <1>1, MemberFacts, BetweenBarriers
<1>3. /\ \A m \in Nodes : /\ pc'[m] = IF m = n THEN "check" ELSE pc[m]
                          /\ act'[m] = IF m = n THEN act[n] + Period[n] ELSE act[m]
      /\ \A i \in Slots : /\ inUse'[i] = IF i = s THEN ~freed ELSE inUse[i]
                          /\ done'[i] = IF i = s THEN done[s] + 1 ELSE done[i]
  BY <1>2 DEF IInv, TypeOK
<1>4. "check" \notin Inside /\ "check" \in Outside
  BY DEF Inside, EvalSide, DumpSide, Outside
<1>5. /\ Period[n] \in Nat \ {0} /\ act[n] \in Nat /\ act[n] % Period[n] = 0
      /\ \A m \in Nodes : act[m] \in Nat
      /\ \A i \in Slots : instant[i] \in Nat
  BY PeriodAssumption DEF IInv, TypeOK, OnInstant
<1>6. TypeOK'
  BY <1>1, <1>2, <1>4, <1>5 DEF IInv, TypeOK
<1>7. OnInstant'
  <2>1. (act[n] + Period[n]) % Period[n] = 0  BY <1>5, MultipleNext
  <2> QED  BY <2>1, <1>3 DEF IInv, OnInstant
<1>8. \A i \in Slots :
        /\ Members(i)' = Members(i) \ {n}
        /\ Participants(i)' = Participants(i)
  BY <1>1, <1>3, <1>4 DEF Members, Participants, ActiveAt
<1>9. /\ Through(s) \in SUBSET Participants(s)
      /\ Through(s)' = Through(s) \cup {n}
  <2>1. act'[n] > instant[s]  BY <1>2, <1>3, <1>5
  <2> QED  BY <2>1, <1>1, <1>2, <1>3, <1>8 DEF Through
<1>10. /\ Cardinality(Through(s) \cup {n}) = done[s] + 1
       /\ freed => Through(s) \cup {n} = Participants(s)
       /\ Through(s) \cup {n} = Participants(s) => freed
  <2>1. count[s] = Cardinality(Participants(s)) /\ done[s] = Cardinality(Through(s))
    BY <1>2 DEF IInv, SlotCounts
  <2> QED  BY <2>1, <1>2, <1>9, OneMore
<1>11. ASSUME NEW i \in Slots, i # s, inUse[i], n \in Participants(i)
       PROVE  act'[n] > instant[i] <=> act[n] > instant[i]
  <2>1. instant[i] # act[n]  BY <1>2, <1>11 DEF IInv, GroupIntegrity
  <2>2. instant[i] % Period[n] = 0  BY <1>11 DEF Participants, ActiveAt
  <2>3. act[n] < instant[i] => act[n] + Period[n] <= instant[i]
    BY <2>2, <1>5, MultipleGap
  <2> QED  BY <2>1, <2>3, <1>3, <1>5
<1>12. \A i \in Slots : i # s /\ inUse[i] => Through(i)' = Through(i) /\ Members(i)' = Members(i)
  <2> SUFFICES ASSUME NEW i \in Slots, i # s, inUse[i]
               PROVE  Through(i)' = Through(i) /\ Members(i)' = Members(i)
    OBVIOUS
  <2>1. Members(i)' = Members(i)  BY <1>2, <1>8
  <2>2. \A m \in Participants(i) : act'[m] > instant[i] <=> act[m] > instant[i]
    BY <1>3, <1>11 DEF Participants, ActiveAt
  <2> QED  BY <2>1, <2>2, <1>1, <1>8 DEF Through
<1>13. ~freed => \E m \in Participants(s) : m # n /\ m \in Members(s)
  BY <1>2, <1>5, <1>9, <1>10 DEF Through, EvalClosed, Participants, ActiveAt
<1>14. GroupIntegrity'
  <2>1. ASSUME NEW m \in Nodes, pc'[m] \in Inside
        PROVE  inUse'[slot'[m]] /\ instant'[slot'[m]] = act'[m]
    <3>1. m # n /\ pc[m] \in Inside  BY <2>1, <1>3, <1>4
    <3>2. slot[m] \in Slots /\ inUse[slot[m]] /\ instant[slot[m]] = act[m]
          /\ m \in Participants(slot[m]) /\ m \notin Through(slot[m])
      BY <3>1, MemberFacts
    <3>3. slot[m] = s => ~freed
      BY <3>1, <3>2, <1>10
    <3> QED  BY <3>1, <3>2, <3>3, <1>1, <1>3, ZenonT(40)
  <2>2. ASSUME NEW i \in Slots, NEW j \in Slots,
               inUse'[i], inUse'[j], instant'[i] = instant'[j]
        PROVE  i = j
    BY <2>2, <1>1, <1>2, <1>3 DEF IInv, GroupIntegrity
  <2> QED  BY <2>1, <2>2 DEF GroupIntegrity
<1>15. GroupOpen'
  <2> SUFFICES ASSUME NEW m \in Nodes, NEW k \in Nodes, NEW a \in 0 .. act'[m],
                      m \in ActiveAt(a), k \in ActiveAt(a), act'[m] > a, act'[k] <= a
               PROVE  HasGroup(a)'
    BY DEF GroupOpen, ActiveAt
  <2>1. a \in Nat  BY <1>3, <1>5
  <2>2. act[k] <= a  BY <1>3, <1>5, <2>1
  <2>3. CASE a = act[n]
    <3>1. k # n
      <4>1. act[n] + Period[n] > act[n]  BY <1>5
      <4> QED  BY <4>1, <2>1, <2>3, <1>3, <1>5
    <3>2. k \in Participants(s) /\ ~(act[k] > instant[s])
      BY <2>1, <2>2, <2>3, <1>2, <1>5 DEF Participants
    <3>3. ~freed  BY <3>1, <3>2, <1>10 DEF Through
    <3> QED  BY <3>3, <2>3, <1>1, <1>2, <1>3 DEF HasGroup, Matches
  <2>4. CASE a # act[n]
    <3>1. act[m] > a
      <4>1. CASE m # n  BY <4>1, <1>3
      <4>2. CASE m = n
        <5>1. a % Period[n] = 0  BY <4>2 DEF ActiveAt
        <5>2. act[n] < a => act[n] + Period[n] <= a  BY <5>1, <2>1, <1>5, MultipleGap
        <5> QED  BY <5>2, <2>1, <2>4, <4>2, <1>3, <1>5
      <4> QED  BY <4>1, <4>2
    <3>2. a \in 0 .. act[m]  BY <3>1, <2>1, <1>5
    <3>3. HasGroup(a)  BY <3>1, <3>2, <2>2 DEF IInv, GroupOpen
    <3> QED  BY <3>3, <2>4, <1>1, <1>2, <1>3 DEF HasGroup, Matches
  <2> QED  BY <2>3, <2>4
<1>16. SlotCounts'
  <2> SUFFICES ASSUME NEW i \in Slots, inUse'[i]
               PROVE  /\ Members(i)' # {}
                      /\ count'[i] = Cardinality(Participants(i)')
                      /\ done'[i] = Cardinality(Through(i)')
                      /\ evalB'[i].total = count'[i]
                      /\ commitB'[i].total = count'[i]
    BY DEF SlotCounts
  <2>1. CASE i = s
    <3>1. ~freed  BY <2>1, <1>2, <1>3
    <3>2. PICK m \in Participants(s) : m # n /\ m \in Members(s)
      BY <3>1, <1>13
    <3>3. Members(s)' = Members(s) \ {n}  BY <1>2, <1>8
    <3>4. Members(s)' # {}  BY <3>2, <3>3
    <3> QED  BY <2>1, <3>4, <1>1, <1>2, <1>3, <1>8, <1>9, <1>10 DEF IInv, SlotCounts
  <2>2. CASE i # s
    <3>1. inUse[i] /\ done'[i] = done[i]  BY <2>2, <1>3
    <3>2. Through(i)' = Through(i) /\ Members(i)' = Members(i)
          /\ Participants(i)' = Participants(i)
      BY <2>2, <3>1, <1>8, <1>12
    <3> QED  BY <3>1, <3>2, <1>1 DEF IInv, SlotCounts
  <2> QED  BY <2>1, <2>2
<1>17. \A i \in Slots : i # s =>
         /\ EvalWaiters(i)' = EvalWaiters(i)
         /\ CommitWaiters(i)' = CommitWaiters(i)
         /\ \A m \in Members(i) : pc'[m] = pc[m]
  BY <1>1, <1>2, <1>3 DEF EvalWaiters, CommitWaiters, Members
<1>18. ASSUME NEW i \in Slots, i # s, inUse[i]
       PROVE  /\ EvalWaiters(i)' = EvalWaiters(i)
              /\ CommitWaiters(i)' = CommitWaiters(i)
              /\ \A m \in Members(i) : pc'[m] = pc[m]
              /\ Through(i)' = Through(i)
              /\ Members(i)' = Members(i)
              /\ Participants(i)' = Participants(i)
              /\ \A m \in Participants(i) : act'[m] <= instant[i] => act[m] <= instant[i]
  <2>1. \A m \in Participants(i) : act'[m] <= instant[i] => act[m] <= instant[i]
    BY <1>3, <1>5 DEF Participants, ActiveAt
  <2> QED  BY <2>1, <1>8, <1>12, <1>17, <1>18
<1>19. \A m \in Participants(s) : act'[m] <= instant[s] =>
         m # n /\ act[m] <= instant[s] /\ pc'[m] = pc[m]
  BY <1>2, <1>3, <1>5 DEF Participants, ActiveAt
<1>20. EvalBarrier'
  <2> SUFFICES ASSUME NEW i \in Slots, inUse'[i]
               PROVE  (EvalOpen(i) \/ EvalClosed(i))'
    BY DEF EvalBarrier
  <2>1. CASE i = s
    BY <2>1, <1>1, <1>2, <1>8, <1>19 DEF EvalClosed
  <2>2. CASE i # s
    <3>1. inUse[i]  BY <2>2, <1>3
    <3>2. EvalOpen(i) => EvalOpen(i)'
      BY <2>2, <3>1, <1>1, <1>18 DEF EvalOpen
    <3>3. EvalClosed(i) => EvalClosed(i)'
      BY <2>2, <3>1, <1>1, <1>18 DEF EvalClosed
    <3> QED  BY <3>1, <3>2, <3>3 DEF IInv, EvalBarrier
  <2> QED  BY <2>1, <2>2
<1>21. CommitBarrier'
  <2> SUFFICES ASSUME NEW i \in Slots, inUse'[i]
               PROVE  (CommitOpen(i) \/ CommitClosed(i))'
    BY DEF CommitBarrier
  <2>1. CASE i = s
    BY <2>1, <1>1, <1>2, <1>8, <1>19 DEF CommitClosed
  <2>2. CASE i # s
    <3>1. inUse[i]  BY <2>2, <1>3
    <3>2. CommitOpen(i) => CommitOpen(i)'
      BY <2>2, <3>1, <1>1, <1>18 DEF CommitOpen
    <3>3. CommitClosed(i) => CommitClosed(i)'
      BY <2>2, <3>1, <1>1, <1>18 DEF CommitClosed
    <3> QED  BY <3>1, <3>2, <3>3 DEF IInv, CommitBarrier
  <2> QED  BY <2>1, <2>2
<1>22. WaiterGeneration' /\ PublishedTicks'
  BY <1>1, <1>3 DEF IInv, WaiterGeneration, PublishedTicks, NextPublished
<1> QED
  BY <1>6, <1>7, <1>14, <1>15, <1>16, <1>20, <1>21, <1>22 DEF IInv

-----------------------------------------------------------------------------
(* Every step keeps the invariant.                                         *)
LEMMA StepInv == IInv /\ [Next]_vars => IInv'
<1> SUFFICES ASSUME IInv, [Next]_vars PROVE IInv'
  OBVIOUS
<1> DEFINE Frozen == UNCHANGED <<act, slot, myGen, groupVars, evalB, commitB, commits>>
<1>1. /\ now \in Nat /\ stop \in BOOLEAN
      /\ pc \in [Nodes -> Outside \cup Inside]
  BY DEF IInv, TypeOK
<1>2. ASSUME NEW n \in Nodes, NEW l \in Outside, pc[n] \in Outside,
             pc' = [pc EXCEPT ![n] = l],
             now' \in Nat, stop' \in BOOLEAN, Frozen
      PROVE  IInv'
  <2>1. pc' \in [Nodes -> Outside \cup Inside]  BY <1>1, <1>2
  <2>2. \A m \in Nodes : pc'[m] = pc[m] \/ (pc[m] \in Outside /\ pc'[m] \in Outside)
    BY <1>1, <1>2
  <2> QED  BY <1>2, <2>1, <2>2, OutsideMove
<1>3. ASSUME UNCHANGED pc, now' \in Nat, stop' \in BOOLEAN, Frozen
      PROVE  IInv'
  BY <1>1, <1>3, OutsideMove
<1>4. CASE Tick
  BY <1>1, <1>3, <1>4 DEF Tick, threadVars
<1>5. CASE RequestStop
  BY <1>1, <1>3, <1>5 DEF RequestStop, threadVars
<1>6. CASE Finished \/ UNCHANGED vars
  BY <1>1, <1>3, <1>6 DEF Finished, vars, threadVars
<1>7. ASSUME NEW n \in Nodes, NodeStep(n)
      PROVE  IInv'
  <2>1. CASE Spawn(n)
    BY <2>1, <1>1, <1>2 DEF Spawn, MayStart, Goto, Outside
  <2>2. CASE SpawnFails(n)
    BY <2>2, <1>1, <1>2 DEF SpawnFails, MayStart, Goto, Outside
  <2>3. CASE JoinGroup(n)  BY <2>3, JoinGroupInv
  <2>4. CASE CreateGroup(n)  BY <2>4, CreateGroupInv
  <2>5. CASE PoolExhausted(n)
    BY <2>5, <1>1, <1>2 DEF PoolExhausted, Due, Goto, Outside
  <2>6. CASE Latch(n)  BY <2>6, LatchInv
  <2>7. CASE Evaluate(n)  BY <2>7, EvaluateInv
  <2>8. CASE EvalWake(n)  BY <2>8, EvalWakeInv
  <2>9. CASE Commit(n)  BY <2>9, CommitInv
  <2>10. CASE Dispatch(n)  BY <2>10, DispatchInv
  <2>11. CASE CommitWake(n)  BY <2>11, CommitWakeInv
  <2>12. CASE Dump(n)  BY <2>12, DumpInv
  <2>13. CASE Check(n)
    <3>1. (IF stop THEN "exited" ELSE "sleep") \in Outside /\ pc[n] \in Outside
      BY <2>13 DEF Check, Outside
    <3> QED  BY <2>13, <3>1, <1>1, <1>2 DEF Check, Goto
  <2> QED
    BY <1>7, <2>1, <2>2, <2>3, <2>4, <2>5, <2>6, <2>7, <2>8, <2>9, <2>10,
       <2>11, <2>12, <2>13 DEF NodeStep
<1> QED  BY <1>4, <1>5, <1>6, <1>7 DEF Next

(* The inductive invariant holds in every reachable state of the executor, *)
(* whatever the periods, the pool, the overruns, the stops and the threads *)
(* that could not be created.                                              *)
THEOREM InductiveInvariant == Spec => []IInv
<1>1. Init => IInv  BY InitInv
<1>2. IInv /\ [Next]_vars => IInv'  BY StepInv
<1> QED  BY <1>1, <1>2, PTL DEF Spec

(* Type correctness of every reachable state.                              *)
THEOREM TypeCorrect == Spec => []TypeOK
<1>1. IInv => TypeOK  BY DEF IInv
<1> QED  BY <1>1, InductiveInvariant, PTL

(* A thread inside a tick is in a live group of its own instant, and an    *)
(* instant has one group.                                                  *)
THEOREM GroupsAreSound == Spec => []GroupIntegrity
<1>1. IInv => GroupIntegrity  BY DEF IInv
<1> QED  BY <1>1, InductiveInvariant, PTL

-----------------------------------------------------------------------------
(* What the invariant gives.                                               *)

(* Two threads inside the same instant share its group.                    *)
LEMMA SameInstantSameSlot ==
  ASSUME IInv, NEW n \in Nodes, NEW m \in Nodes,
         pc[n] \in Inside, pc[m] \in Inside, act[m] = act[n]
  PROVE  slot[m] = slot[n]
  BY MemberFacts DEF IInv, GroupIntegrity

(* No node of an instant publishes it while another still evaluates, for   *)
(* every set of periods and however late the nodes are.                    *)
THEOREM NoPeerIsAhead == Spec => []NoPeerAhead
<1>1. IInv => NoPeerAhead
  <2> SUFFICES ASSUME IInv, NEW n \in Nodes, pc[n] = "evaluate",
                      NEW m \in ActiveAt(act[n])
               PROVE  NextPublished(m) <= act[n]
    BY DEF NoPeerAhead
  <2>1. /\ pc[n] \in Inside /\ EvalOpen(slot[n]) /\ instant[slot[n]] = act[n]
        /\ slot[n] \in Slots
    BY BeforeEvalBarrier, MemberFacts
  <2>2. /\ m \in Nodes /\ act[m] \in Nat /\ act[n] \in Nat
        /\ Period[m] \in Nat \ {0}
        /\ act[m] % Period[m] = 0 /\ act[n] % Period[m] = 0
    BY PeriodAssumption DEF ActiveAt, IInv, TypeOK, OnInstant
  <2>3. act[m] <= act[n]
    BY <2>1, <2>2 DEF EvalOpen, Through, Participants
  <2>4. CASE act[m] < act[n]
    <3>1. act[m] + Period[m] <= act[n]  BY <2>2, <2>4, MultipleGap
    <3> QED  BY <3>1, <2>2, <2>3 DEF IInv, PublishedTicks
  <2>5. CASE act[m] = act[n]
    <3>1. pc[m] \notin {"deferred", "commitWait", "dump"}
      <4> SUFFICES ASSUME pc[m] \in {"deferred", "commitWait", "dump"} PROVE FALSE
        OBVIOUS
      <4>1. pc[m] \in Inside  BY DEF Inside, DumpSide
      <4>2. slot[m] = slot[n]  BY <4>1, <2>1, <2>2, <2>5, SameInstantSameSlot
      <4>3. pc[m] \in EvalSide  BY <4>1, <4>2, <2>1, <2>2 DEF EvalOpen, Members
      <4> QED  BY <4>3 DEF EvalSide
    <3> QED  BY <3>1, <2>2, <2>5 DEF IInv, PublishedTicks
  <2> QED  BY <2>2, <2>3, <2>4, <2>5
<1> QED  BY <1>1, InductiveInvariant, PTL

(* No node dumps its outputs before all nodes of its instant published.    *)
THEOREM DumpsComeLast == Spec => []DumpAfterCommits
<1>1. IInv => DumpAfterCommits
  <2> SUFFICES ASSUME IInv, NEW n \in Nodes, pc[n] = "dump",
                      NEW m \in ActiveAt(act[n])
               PROVE  NextPublished(m) > act[n]
    BY DEF DumpAfterCommits
  <2>1. pc[n] \in Inside  BY DEF Inside, DumpSide
  <2>2. CommitClosed(slot[n]) /\ instant[slot[n]] = act[n] /\ slot[n] \in Slots
    BY <2>1, BetweenBarriers, MemberFacts
  <2>3. /\ m \in Nodes /\ act[m] \in Nat /\ act[n] \in Nat
        /\ Period[m] \in Nat \ {0} /\ m \in Participants(slot[n])
    BY <2>2, PeriodAssumption DEF ActiveAt, Participants, IInv, TypeOK
  <2>4. NextPublished(m) = act[m] \/ NextPublished(m) = act[m] + Period[m]
    BY <2>3 DEF IInv, PublishedTicks
  <2>5. CASE act[m] > act[n]  BY <2>3, <2>4, <2>5
  <2>6. CASE act[m] <= act[n]
    <3>1. m \in Members(slot[n]) /\ pc[m] \in {"commitWait", "dump"}
      BY <2>2, <2>3, <2>6 DEF CommitClosed
    <3>2. act[m] = act[n]  BY <3>1, <2>2, MembersParticipate
    <3>3. NextPublished(m) = act[m] + Period[m]
      BY <3>1, <2>3 DEF IInv, PublishedTicks
    <3> QED  BY <3>2, <3>3, <2>3
  <2> QED  BY <2>3, <2>5, <2>6
<1> QED  BY <1>1, InductiveInvariant, PTL

(* A pool of one slot per node, the default, is never exhausted: a used    *)
(* slot holds a thread, and the thread that asks holds none.               *)
THEOREM PoolIsLargeEnough ==
  ASSUME PoolSize >= NodeCount
  PROVE  Spec => []PoolSuffices
<1>1. IInv => PoolSuffices
  <2> SUFFICES ASSUME IInv, NEW n \in Nodes, pc[n] = "sleep", ~HasFree
               PROVE  FALSE
    BY DEF PoolSuffices, Due
  <2> DEFINE tenant == [i \in Slots |-> CHOOSE m \in Nodes : m \in Members(i)]
  <2>1. \A i \in Slots : inUse[i]  BY DEF HasFree
  <2>2. ASSUME NEW i \in Slots
        PROVE  tenant[i] \in Nodes /\ tenant[i] \in Members(i)
    <3>1. \E m \in Nodes : m \in Members(i)
      BY <2>1 DEF IInv, SlotCounts, Members
    <3> QED  BY <3>1
  <2>3. \A i \in Slots : tenant[i] # n /\ slot[tenant[i]] = i
    BY <2>2 DEF Members, Inside, EvalSide, DumpSide
  <2>4. tenant \in [Slots -> Nodes \ {n}]  BY <2>2, <2>3
  <2>5. IsFiniteSet(Slots) /\ Cardinality(Slots) = PoolSize
    <3>1. 0 \in Int /\ PoolSize - 1 \in Int  BY PoolAssumption
    <3> QED  BY <3>1, FS_Interval, PoolAssumption DEF Slots
  <2>6. IsFiniteSet(Nodes \ {n}) /\ Cardinality(Nodes \ {n}) = NodeCount - 1
    BY NodesFinite, FS_RemoveElement
  <2>7. Cardinality(Nodes \ {n}) < Cardinality(Slots)
    BY <2>5, <2>6, PoolAssumption, NodeCountAssumption
  <2> HIDE DEF tenant
  <2>8. \E i, j \in Slots : i # j /\ tenant[i] = tenant[j]
    BY <2>4, <2>5, <2>6, <2>7, FS_PigeonHole
  <2> QED  BY <2>3, <2>8
<1> QED  BY <1>1, InductiveInvariant, PTL

(* A thread asleep in a barrier waits for a node of its instant that has   *)
(* not come: no wake-up is ever lost.                                      *)
THEOREM NoLostWakeUp == Spec => []WaitsForAPeer
<1>1. ASSUME IInv, NEW n \in Nodes, pc[n] = "evalWait",
             evalB[slot[n]].generation = myGen[n]
      PROVE  \E m \in ActiveAt(act[n]) : YetToEvaluate(m, act[n])
  <2> DEFINE s == slot[n]
  <2>1. pc[n] \in Inside  BY <1>1 DEF Inside, EvalSide
  <2>2. /\ s \in Slots /\ inUse[s] /\ instant[s] = act[n]
        /\ Participants(s) \in SUBSET Nodes
    BY <2>1, <1>1, MemberFacts
  <2>3. EvalOpen(s)
    BY <2>2, <1>1 DEF IInv, EvalBarrier, WaiterGeneration, EvalClosed
  <2>4. EvalWaiters(s) # Participants(s)
    <3>1. Cardinality(EvalWaiters(s)) < Cardinality(Participants(s))
      BY <2>2, <2>3, <1>1 DEF EvalOpen, IInv, SlotCounts
    <3>2. Cardinality(Participants(s)) \in Nat  BY <2>2, NodesFinite
    <3> QED  BY <3>1, <3>2
  <2>5. PICK m \in Participants(s) : m \notin EvalWaiters(s)
    BY <2>2, <2>4, <1>1, MembersParticipate
  <2>6. m \in Nodes /\ m \in ActiveAt(act[n]) /\ act[m] \in Nat /\ act[n] \in Nat
        /\ pc[m] \in Outside \cup Inside
    BY <2>2, <2>5, <1>1 DEF Participants, IInv, TypeOK
  <2>7. act[m] <= act[n]
    BY <2>2, <2>3, <2>5, <2>6 DEF EvalOpen, Through
  <2>8. ASSUME act[m] = act[n], pc[m] \in Inside
        PROVE  pc[m] \in {"latch", "evaluate"}
    <3>1. slot[m] = s  BY <2>8, <2>1, <2>6, <1>1, SameInstantSameSlot
    <3>2. pc[m] \in EvalSide  BY <3>1, <2>3, <2>6, <2>8 DEF EvalOpen, Members
    <3> QED  BY <3>1, <3>2, <2>5, <2>6 DEF EvalWaiters, EvalSide
  <2>9. YetToEvaluate(m, act[n])
    BY <2>6, <2>7, <2>8 DEF YetToEvaluate
  <2> QED  BY <2>6, <2>9
<1>2. ASSUME IInv, NEW n \in Nodes, pc[n] = "commitWait",
             commitB[slot[n]].generation = myGen[n]
      PROVE  \E m \in ActiveAt(act[n]) : YetToCommit(m, act[n])
  <2> DEFINE s == slot[n]
  <2>1. pc[n] \in Inside  BY <1>2 DEF Inside
  <2>2. /\ s \in Slots /\ inUse[s] /\ instant[s] = act[n]
        /\ Participants(s) \in SUBSET Nodes
    BY <2>1, <1>2, MemberFacts
  <2>3. CommitOpen(s)
    BY <2>2, <1>2 DEF IInv, CommitBarrier, WaiterGeneration, CommitClosed
  <2>4. CommitWaiters(s) # Participants(s)
    <3>1. Cardinality(CommitWaiters(s)) < Cardinality(Participants(s))
      BY <2>2, <2>3, <1>2 DEF CommitOpen, IInv, SlotCounts
    <3>2. Cardinality(Participants(s)) \in Nat  BY <2>2, NodesFinite
    <3> QED  BY <3>1, <3>2
  <2>5. PICK m \in Participants(s) : m \notin CommitWaiters(s)
    BY <2>2, <2>4, <1>2, MembersParticipate
  <2>6. m \in Nodes /\ m \in ActiveAt(act[n]) /\ act[m] \in Nat /\ act[n] \in Nat
        /\ pc[m] \in Outside \cup Inside
    BY <2>2, <2>5, <1>2 DEF Participants, IInv, TypeOK
  <2>7. act[m] <= act[n]
    BY <2>2, <2>3, <2>5, <2>6 DEF CommitOpen, Through
  <2>8. ASSUME act[m] = act[n], pc[m] \in Inside
        PROVE  pc[m] \in EvalSide \cup {"commit", "deferred"}
    <3>1. slot[m] = s  BY <2>8, <2>1, <2>6, <1>2, SameInstantSameSlot
    <3>2. pc[m] # "dump"  BY <3>1, <2>3, <2>6, <2>8 DEF CommitOpen, Members
    <3> QED  BY <3>1, <3>2, <2>5, <2>6, <2>8 DEF CommitWaiters, Inside, DumpSide
  <2>9. YetToCommit(m, act[n])
    BY <2>6, <2>7, <2>8 DEF YetToCommit, YetToEvaluate, EvalSide
  <2> QED  BY <2>6, <2>9
<1>3. IInv => WaitsForAPeer
  BY <1>1, <1>2 DEF WaitsForAPeer
<1> QED  BY <1>3, InductiveInvariant, PTL

-----------------------------------------------------------------------------
(* The refinement.                                                         *)

(* The threaded executor runs the nodes of a runtime as bulk-synchronous   *)
(* activations.                                                            *)
THEOREM Refinement == Spec => ImplementsSuperstep
<1> DEFINE phase == [n \in Nodes |-> AbstractPhase(pc[n])]
<1>1. Init => Abstract!Init
  BY DEF Init, Abstract!Init, AbstractPhase
<1>2. ASSUME IInv, [Next]_vars
      PROVE  [Abstract!Next]_<<act, phase>>
  <2>1. \A m \in Nodes : phase[m] = AbstractPhase(pc[m])
    OBVIOUS
  <2>2. ASSUME NEW n \in Nodes, NEW l \in Outside \cup Inside,
               pc' = [pc EXCEPT ![n] = l],
               AbstractPhase(l) = AbstractPhase(pc[n])
        PROVE  phase' = phase
    BY <1>2, <2>2 DEF IInv, TypeOK
  <2>3. ASSUME NEW n \in Nodes, NEW l \in Outside \cup Inside,
               pc' = [pc EXCEPT ![n] = l]
        PROVE  phase' = [phase EXCEPT ![n] = AbstractPhase(l)]
    BY <1>2, <2>3 DEF IInv, TypeOK
  <2>4. CASE Tick \/ RequestStop \/ Finished \/ UNCHANGED vars
    BY <2>4 DEF Tick, RequestStop, Finished, vars, threadVars
  <2>5. ASSUME NEW n \in Nodes, NodeStep(n)
        PROVE  [Abstract!Next]_<<act, phase>>
    <3> USE DEF Goto
    <3>1. CASE Spawn(n) \/ SpawnFails(n) \/ PoolExhausted(n) \/ Check(n)
      <4>1. /\ AbstractPhase("sleep") = "idle" /\ AbstractPhase("failed") = "idle"
            /\ AbstractPhase("exited") = "idle" /\ AbstractPhase("unspawned") = "idle"
            /\ AbstractPhase("check") = "idle"
            /\ {"sleep", "failed", "exited"} \subseteq Outside
        BY DEF AbstractPhase, Outside
      <4> QED  BY <3>1, <4>1, <2>2
               DEF Spawn, SpawnFails, PoolExhausted, Check, MayStart, Due
    <3>2. CASE JoinGroup(n) \/ CreateGroup(n) \/ Latch(n)
      <4>1. /\ AbstractPhase("sleep") = "idle" /\ AbstractPhase("latch") = "idle"
            /\ AbstractPhase("evaluate") = "idle"
            /\ {"latch", "evaluate"} \subseteq Inside
        BY DEF AbstractPhase, Inside, EvalSide
      <4> QED  BY <3>2, <4>1, <2>2 DEF JoinGroup, CreateGroup, Latch, Due, Enter
    <3>3. CASE EvalWake(n) \/ Dispatch(n) \/ CommitWake(n)
      <4>1. /\ AbstractPhase("evalWait") = "evaluated" /\ AbstractPhase("commit") = "evaluated"
            /\ AbstractPhase("deferred") = "committed" /\ AbstractPhase("commitWait") = "committed"
            /\ AbstractPhase("dump") = "committed"
            /\ {"commit", "commitWait", "dump"} \subseteq Inside
        BY DEF AbstractPhase, Inside, DumpSide
      <4> QED  BY <3>3, <4>1, <2>2 DEF EvalWake, Dispatch, CommitWake
    <3>4. CASE Evaluate(n)
      <4>1. PICK l \in {"commit", "evalWait"} : pc' = [pc EXCEPT ![n] = l]
        BY <3>4 DEF Evaluate
      <4>2. AbstractPhase(l) = "evaluated" /\ AbstractPhase("evaluate") = "idle"
            /\ l \in Inside
        BY DEF AbstractPhase, Inside, EvalSide
      <4>3. phase[n] = "idle" /\ UNCHANGED act
        BY <3>4, <4>2 DEF Evaluate
      <4>4. phase' = [phase EXCEPT ![n] = "evaluated"]
        BY <4>1, <4>2, <2>3
      <4>5. Abstract!Evaluate(n)
        BY <4>3, <4>4 DEF Abstract!Evaluate
      <4> QED  BY <4>5 DEF Abstract!Next
    <3>5. CASE Commit(n)
      <4>1. /\ AbstractPhase("commit") = "evaluated" /\ AbstractPhase("deferred") = "committed"
            /\ pc[n] \in Inside /\ "deferred" \in Inside
        BY <3>5 DEF AbstractPhase, Commit, Inside
      <4>2. EvalClosed(slot[n]) /\ instant[slot[n]] = act[n] /\ slot[n] \in Slots
        BY <1>2, <3>5, <4>1, BetweenBarriers, MemberFacts DEF Commit
      <4>3. ASSUME NEW m \in ActiveAt(act[n])
            PROVE  act[m] > act[n] \/ (act[m] = act[n] /\ phase[m] # "idle")
        <5>1. m \in Participants(slot[n]) /\ act[m] \in Nat /\ act[n] \in Nat /\ m \in Nodes
          BY <4>2, <1>2 DEF Participants, ActiveAt, IInv, TypeOK
        <5>2. CASE act[m] <= act[n]
          <6>1. m \in Members(slot[n]) /\ pc[m] \notin {"latch", "evaluate"}
            BY <5>1, <5>2, <4>2 DEF EvalClosed
          <6>2. act[m] = act[n]  BY <6>1, <4>2, <1>2, MembersParticipate
          <6>3. phase[m] # "idle"
            BY <6>1, <5>1 DEF Members, AbstractPhase, Inside, EvalSide, DumpSide
          <6> QED  BY <6>2, <6>3
        <5> QED  BY <5>1, <5>2
      <4>4. phase[n] = "evaluated" /\ UNCHANGED act
        BY <3>5, <4>1, <2>1 DEF Commit
      <4>5. phase' = [phase EXCEPT ![n] = "committed"]
        BY <3>5, <4>1, <2>3 DEF Commit
      <4>6. \A m \in Abstract!ActiveAt(act[n]) : Abstract!Evaluated(m, act[n])
        BY <4>3 DEF Abstract!Evaluated, Abstract!ActiveAt, ActiveAt
      <4>7. Abstract!Commit(n)
        BY <4>4, <4>5, <4>6 DEF Abstract!Commit
      <4> QED  BY <4>7 DEF Abstract!Next
    <3>6. CASE Dump(n)
      <4>1. /\ AbstractPhase("dump") = "committed" /\ AbstractPhase("check") = "idle"
            /\ pc[n] \in Inside /\ "check" \in Outside
        BY <3>6 DEF AbstractPhase, Dump, Inside, DumpSide, Outside
      <4>2. CommitClosed(slot[n]) /\ instant[slot[n]] = act[n] /\ slot[n] \in Slots
        BY <1>2, <3>6, <4>1, BetweenBarriers, MemberFacts DEF Dump
      <4>3. ASSUME NEW m \in ActiveAt(act[n])
            PROVE  act[m] > act[n] \/ (act[m] = act[n] /\ phase[m] = "committed")
        <5>1. m \in Participants(slot[n]) /\ act[m] \in Nat /\ act[n] \in Nat /\ m \in Nodes
          BY <4>2, <1>2 DEF Participants, ActiveAt, IInv, TypeOK
        <5>2. CASE act[m] <= act[n]
          <6>1. m \in Members(slot[n]) /\ pc[m] \in {"commitWait", "dump"}
            BY <5>1, <5>2, <4>2 DEF CommitClosed
          <6>2. act[m] = act[n]  BY <6>1, <4>2, <1>2, MembersParticipate
          <6>3. phase[m] = "committed"
            BY <6>1, <5>1 DEF AbstractPhase
          <6> QED  BY <6>2, <6>3
        <5> QED  BY <5>1, <5>2
      <4>4. /\ phase[n] = "committed"
            /\ act' = [act EXCEPT ![n] = @ + Period[n]]
        BY <3>6, <4>1 DEF Dump
      <4>5. phase' = [phase EXCEPT ![n] = "idle"]
        BY <3>6, <4>1, <2>3 DEF Dump
      <4>6. \A m \in Abstract!ActiveAt(act[n]) : Abstract!Published(m, act[n])
        BY <4>3 DEF Abstract!Published, Abstract!ActiveAt, ActiveAt
      <4>7. Abstract!Dump(n)
        BY <4>4, <4>5, <4>6 DEF Abstract!Dump
      <4> QED  BY <4>7 DEF Abstract!Next
    <3> QED
      BY <2>5, <3>1, <3>2, <3>3, <3>4, <3>5, <3>6 DEF NodeStep
  <2> QED  BY <1>2, <2>4, <2>5 DEF Next
<1> QED  BY <1>1, <1>2, InductiveInvariant, PTL DEF Spec, ImplementsSuperstep, Abstract!Spec


-----------------------------------------------------------------------------
(***************************************************************************)
(* What a node reads of its peers: the snapshot of docs/user-c.md, 6.5.    *)
(*                                                                         *)
(* OnTimeSnapshot is not inductive.  It rests on Lockstep: two nodes that  *)
(* share an instant go through it together, whichever group carries it.    *)
(***************************************************************************)

(* The instants that two nodes share, however far apart those are.  Before *)
(* one of them begins such an instant the other has not published it; when *)
(* one has left it the other has.                                          *)
Lockstep ==
  \A n, m \in Nodes : \A b \in Nat :
    n \in ActiveAt(b) /\ m \in ActiveAt(b) =>
      /\ act[n] < b => NextPublished(m) <= b
      /\ act[n] > b => NextPublished(m) > b

(* No node is inside a tick before its instant.                            *)
NotEarly == \A n \in Nodes : pc[n] \in Inside => act[n] <= now

(* Numbers of the two nodes.                                               *)
LEMMA NodeFacts ==
  ASSUME IInv, NEW n \in Nodes
  PROVE  /\ act[n] \in Nat /\ commits[n] \in Nat /\ now \in Nat
         /\ Period[n] \in Nat \ {0} /\ act[n] % Period[n] = 0
         /\ NextPublished(n) \in Nat /\ NextPublished(n) % Period[n] = 0
         /\ NextPublished(n) = act[n] \/ NextPublished(n) = act[n] + Period[n]
<1>1. act[n] \in Nat /\ commits[n] \in Nat /\ now \in Nat /\ act[n] % Period[n] = 0
  BY DEF IInv, TypeOK, OnInstant
<1>2. Period[n] \in Nat \ {0}  BY PeriodAssumption
<1>3. NextPublished(n) = act[n] \/ NextPublished(n) = act[n] + Period[n]
  BY DEF IInv, PublishedTicks
<1>4. (act[n] + Period[n]) % Period[n] = 0  BY <1>1, <1>2, MultipleNext
<1> QED  BY <1>1, <1>2, <1>3, <1>4

-----------------------------------------------------------------------------
(* Only Commit and Dump touch what Lockstep relates.                       *)

(* The other steps leave the instants and the published ticks alone.       *)
LEMMA OtherSteps ==
  ASSUME [Next]_vars, NEW X, X = \E n \in Nodes : Commit(n) \/ Dump(n), ~X
  PROVE  UNCHANGED <<act, commits>>
<1>1. CASE Tick  BY <1>1 DEF Tick, threadVars
<1>2. CASE RequestStop  BY <1>2 DEF RequestStop, threadVars
<1>3. CASE Finished \/ UNCHANGED vars  BY <1>3 DEF Finished, vars, threadVars
<1>4. ASSUME NEW n \in Nodes, NodeStep(n)
      PROVE  UNCHANGED <<act, commits>>
  <2>1. ~Commit(n) /\ ~Dump(n)  OBVIOUS
  <2> QED
    BY <1>4, <2>1 DEF NodeStep, Spawn, SpawnFails, JoinGroup, CreateGroup, PoolExhausted,
       Latch, Evaluate, EvalWake, Dispatch, CommitWake, Check
<1> QED  BY <1>1, <1>2, <1>3, <1>4 DEF Next

(* A node that publishes an instant finds no peer of it still on the way.  *)
LEMMA CommitStep ==
  ASSUME IInv, Lockstep, NEW k \in Nodes, Commit(k)
  PROVE  Lockstep'
<1> SUFFICES ASSUME NEW n \in Nodes, NEW m \in Nodes, NEW b \in Nat,
                    n \in ActiveAt(b), m \in ActiveAt(b)
             PROVE  /\ act'[n] < b => NextPublished(m)' <= b
                    /\ act'[n] > b => NextPublished(m)' > b
  BY DEF Lockstep, ActiveAt
<1>1. act' = act /\ pc[k] = "commit" /\ commits' = [commits EXCEPT ![k] = @ + 1]
  BY DEF Commit
<1>2. /\ act[n] \in Nat /\ act[m] \in Nat /\ act[k] \in Nat
      /\ Period[m] \in Nat \ {0} /\ act[m] % Period[m] = 0 /\ b % Period[m] = 0
      /\ commits \in [Nodes -> Nat] /\ NextPublished(m) \in Nat
  BY NodeFacts DEF ActiveAt, IInv, TypeOK
<1>3. /\ act[n] < b => NextPublished(m) <= b
      /\ act[n] > b => NextPublished(m) > b
  BY DEF Lockstep
<1>4. CASE m # k
  <2>1. NextPublished(m)' = NextPublished(m)
    BY <1>1, <1>2, <1>4 DEF NextPublished
  <2> QED  BY <2>1, <1>1, <1>3
<1>5. CASE m = k
  <2>1. NextPublished(m) = act[m]
    BY <1>1, <1>5 DEF IInv, PublishedTicks
  <2>2. NextPublished(m)' = NextPublished(m) + Period[m]
    <3>1. commits'[m] = commits[m] + 1 /\ commits[m] \in Nat  BY <1>1, <1>2, <1>5
    <3>2. (commits[m] + 1) * Period[m] = commits[m] * Period[m] + Period[m]
      BY <3>1, <1>2
    <3> QED  BY <3>1, <3>2 DEF NextPublished
  <2>3. ASSUME act[n] < b  PROVE NextPublished(m)' <= b
    <3>1. act[m] <= b  BY <2>1, <2>3, <1>3
    <3>2. act[m] # b
      <4> SUFFICES ASSUME act[m] = b PROVE FALSE
        OBVIOUS
      <4>1. EvalClosed(slot[m]) /\ pc[m] \in Inside
        BY <1>1, <1>5, BetweenBarriers DEF Inside
      <4>2. instant[slot[m]] = b /\ slot[m] \in Slots  BY <4>1, MemberFacts
      <4>3. n \in Members(slot[m])
        BY <4>1, <4>2, <2>3, <1>2 DEF EvalClosed, Participants
      <4>4. act[n] = b  BY <4>2, <4>3, MembersParticipate
      <4> QED  BY <4>4, <2>3, <1>2
    <3>3. act[m] + Period[m] <= b  BY <3>1, <3>2, <1>2, MultipleGap
    <3> QED  BY <3>3, <2>1, <2>2
  <2>4. ASSUME act[n] > b  PROVE NextPublished(m)' > b
    BY <2>4, <2>2, <1>2, <1>3
  <2> QED  BY <2>3, <2>4, <1>1
<1> QED  BY <1>4, <1>5

(* A node that leaves an instant leaves no peer that has not published it. *)
LEMMA DumpStep ==
  ASSUME IInv, DumpAfterCommits, Lockstep, NEW k \in Nodes, Dump(k)
  PROVE  Lockstep'
<1> SUFFICES ASSUME NEW n \in Nodes, NEW m \in Nodes, NEW b \in Nat,
                    n \in ActiveAt(b), m \in ActiveAt(b)
             PROVE  /\ act'[n] < b => NextPublished(m)' <= b
                    /\ act'[n] > b => NextPublished(m)' > b
  BY DEF Lockstep, ActiveAt
<1>1. /\ pc[k] = "dump" /\ act' = [act EXCEPT ![k] = @ + Period[k]]
      /\ NextPublished(m)' = NextPublished(m)
  BY DEF Dump, NextPublished
<1>2. /\ act \in [Nodes -> Nat] /\ NextPublished(m) \in Nat
      /\ Period[n] \in Nat \ {0} /\ act[n] % Period[n] = 0 /\ b % Period[n] = 0
  BY NodeFacts DEF ActiveAt, IInv, TypeOK
<1>3. /\ act[n] < b => NextPublished(m) <= b
      /\ act[n] > b => NextPublished(m) > b
  BY DEF Lockstep
<1>4. CASE n # k
  BY <1>1, <1>2, <1>3, <1>4
<1>5. CASE n = k
  <2>1. act'[n] = act[n] + Period[n]  BY <1>1, <1>2, <1>5
  <2>2. ASSUME act'[n] < b  PROVE NextPublished(m)' <= b
    BY <2>1, <2>2, <1>1, <1>2, <1>3
  <2>3. ASSUME act'[n] > b, act[n] <= b  PROVE NextPublished(m)' > b
    <3>1. act[n] = b  BY <2>1, <2>3, <1>2, MultipleGap
    <3>2. NextPublished(m) > act[n]
      BY <3>1, <1>1, <1>5 DEF DumpAfterCommits
    <3> QED  BY <3>1, <3>2, <1>1
  <2> QED  BY <2>2, <2>3, <1>1, <1>2, <1>3
<1> QED  BY <1>4, <1>5

(* Nodes that share an instant publish it, and leave it, together.         *)
THEOREM NodesInLockstep == Spec => []Lockstep
<1>1. Init => Lockstep
  <2> SUFFICES ASSUME Init, NEW n \in Nodes, NEW m \in Nodes, NEW b \in Nat
               PROVE  /\ act[n] < b => NextPublished(m) <= b
                      /\ ~(act[n] > b)
    BY DEF Lockstep
  <2>1. act[n] = 0 /\ commits[m] = 0 /\ Period[m] \in Nat
    BY PeriodAssumption DEF Init
  <2> QED  BY <2>1 DEF NextPublished
<1>2. IInv /\ DumpAfterCommits /\ Lockstep /\ [Next]_vars => Lockstep'
  <2> SUFFICES ASSUME IInv, DumpAfterCommits, Lockstep, [Next]_vars PROVE Lockstep'
    OBVIOUS
  <2> DEFINE X == \E n \in Nodes : Commit(n) \/ Dump(n)
  <2>1. CASE X  BY <2>1, CommitStep, DumpStep
  <2>2. CASE ~X
    <3>1. UNCHANGED <<act, commits>>  BY <2>2, OtherSteps
    <3> QED  BY <3>1 DEF Lockstep, ActiveAt, NextPublished
  <2> QED  BY <2>1, <2>2
<1> QED  BY <1>1, <1>2, InductiveInvariant, DumpsComeLast, PTL DEF Spec

-----------------------------------------------------------------------------
(* A node sleeps until its instant comes: no tick begins before it.        *)
THEOREM NoTickIsEarly == Spec => []NotEarly
<1>1. Init => NotEarly
  BY DEF Init, NotEarly, Inside, EvalSide, DumpSide
<1>2. IInv /\ NotEarly /\ [Next]_vars => NotEarly'
  <2> SUFFICES ASSUME IInv, NotEarly, [Next]_vars, NEW n \in Nodes, pc'[n] \in Inside
               PROVE  act'[n] <= now'
    BY DEF NotEarly
  <2>1. act \in [Nodes -> Nat] /\ now \in Nat /\ pc \in [Nodes -> Outside \cup Inside]
    BY DEF IInv, TypeOK
  <2>2. pc[n] \in Inside => act[n] <= now  BY DEF NotEarly
  <2>3. CASE Tick
    BY <2>1, <2>2, <2>3 DEF Tick, threadVars
  <2>4. CASE RequestStop
    BY <2>2, <2>4 DEF RequestStop, threadVars
  <2>5. CASE Finished \/ UNCHANGED vars
    BY <2>2, <2>5 DEF Finished, vars, threadVars
  <2>6. ASSUME NEW k \in Nodes, NodeStep(k)
        PROVE  act'[n] <= now'
    <3>1. now' = now  BY <2>6 DEF NodeStep, Spawn, SpawnFails, JoinGroup, CreateGroup,
            PoolExhausted, Latch, Evaluate, EvalWake, Commit, Dispatch, CommitWake, Dump, Check
    <3>2. CASE JoinGroup(k) \/ CreateGroup(k)
      <4>1. act' = act /\ act[k] <= now /\ \A j \in Nodes : j # k => pc'[j] = pc[j]
        BY <2>1, <3>2 DEF JoinGroup, CreateGroup, Due, Enter, Goto
      <4> QED  BY <4>1, <2>2, <3>1
    <3>3. CASE Dump(k)
      <4>1. /\ act' = [act EXCEPT ![k] = @ + Period[k]]
            /\ pc' = [pc EXCEPT ![k] = "check"]
        BY <3>3 DEF Dump, Goto
      <4>2. n # k  BY <4>1, <2>1 DEF Inside, EvalSide, DumpSide
      <4> QED  BY <4>1, <4>2, <2>1, <2>2, <3>1
    <3>4. CASE Latch(k) \/ Evaluate(k) \/ EvalWake(k) \/ Commit(k) \/ Dispatch(k)
               \/ CommitWake(k)
      <4>1. /\ act' = act /\ pc[k] \in Inside
            /\ \A j \in Nodes : j # k => pc'[j] = pc[j]
        BY <2>1, <3>4 DEF Latch, Evaluate, EvalWake, Commit, Dispatch, CommitWake, Goto,
           Inside, EvalSide
      <4> QED  BY <4>1, <3>1 DEF NotEarly
    <3>5. CASE Spawn(k) \/ SpawnFails(k) \/ PoolExhausted(k) \/ Check(k)
      <4>1. /\ act' = act
            /\ \E l \in Outside : pc' = [pc EXCEPT ![k] = l]
        BY <3>5 DEF Spawn, SpawnFails, PoolExhausted, Check, Goto, Outside
      <4>2. pc'[n] = pc[n]
        BY <4>1, <2>1 DEF Outside, Inside, EvalSide, DumpSide
      <4> QED  BY <4>1, <4>2, <2>2, <3>1
    <3> QED  BY <2>6, <3>2, <3>3, <3>4, <3>5 DEF NodeStep
  <2> QED  BY <2>3, <2>4, <2>5, <2>6 DEF Next
<1> QED  BY <1>1, <1>2, InductiveInvariant, PTL DEF Spec

-----------------------------------------------------------------------------
(* While a node evaluates, the peers it shares its time grid with show the *)
(* state of their last instant before it, unless one of them is late.      *)
THEOREM SnapshotsAreExact == Spec => []OnTimeSnapshot
<1>1. IInv /\ NoPeerAhead /\ Lockstep /\ NotEarly => OnTimeSnapshot
  <2> SUFFICES ASSUME IInv, NoPeerAhead, Lockstep, NotEarly,
                      NEW n \in Nodes, NEW m \in Nodes,
                      pc[n] = "evaluate", InTime(m),
                      Period[n] % Period[m] = 0 \/ Period[m] % Period[n] = 0
               PROVE  NextPublished(m) \in act[n] .. act[n] + Period[m] - 1
    BY DEF OnTimeSnapshot, Harmonic
  <2> DEFINE a == act[n]
             c == NextPublished(m)
  <2>1. /\ a \in Nat /\ a % Period[n] = 0 /\ Period[n] \in Nat \ {0}
        /\ act[m] \in Nat /\ act[m] % Period[m] = 0 /\ Period[m] \in Nat \ {0}
        /\ now \in Nat /\ c \in Nat /\ c % Period[m] = 0
        /\ (c = act[m] \/ c = act[m] + Period[m])
    BY NodeFacts
  <2>2. a <= now /\ act[m] + Period[m] > now
    <3>1. a <= now  BY DEF NotEarly, Inside, EvalSide
    <3>2. Deadline[m] \in Nat /\ Deadline[m] <= Period[m]
      BY <2>1, DeadlineAssumption
    <3> QED  BY <3>1, <3>2, <2>1 DEF InTime
  <2>3. n \in ActiveAt(a)  BY <2>1 DEF ActiveAt
  <2>4. m \in ActiveAt(a) => c <= a  BY DEF NoPeerAhead
  <2>5. CASE Period[n] % Period[m] = 0
    <3>1. a % Period[m] = 0 /\ m \in ActiveAt(a)
      BY <2>1, <2>5, Divides DEF ActiveAt
    <3>2. ~(act[m] < a)
      <4> SUFFICES ASSUME act[m] < a PROVE FALSE
        OBVIOUS
      <4>1. act[m] + Period[m] <= a  BY <2>1, <3>1, MultipleGap
      <4> QED  BY <4>1, <2>1, <2>2
    <3> QED  BY <2>1, <2>4, <3>1, <3>2
  <2>6. CASE Period[m] % Period[n] = 0
    <3>1. ~(a > c)
      <4>1. n \in ActiveAt(c) /\ m \in ActiveAt(c)
        BY <2>1, <2>6, Divides DEF ActiveAt
      <4> QED  BY <4>1, <2>1 DEF Lockstep
    <3>2. ~(c >= a + Period[m])
      <4> SUFFICES ASSUME c >= a + Period[m] PROVE FALSE
        OBVIOUS
      <4> DEFINE b == c - Period[m]
      <4>1. b \in Nat /\ b % Period[m] = 0  BY <2>1, MultiplePrevious
      <4>2. n \in ActiveAt(b) /\ m \in ActiveAt(b)
        BY <4>1, <2>1, <2>6, Divides DEF ActiveAt
      <4>3. a <= b /\ c > b  BY <2>1
      <4>4. CASE a = b  BY <4>2, <4>3, <4>4, <2>1, <2>4
      <4>5. CASE a < b
        <5>1. c <= b  BY <4>1, <4>2, <4>5 DEF Lockstep
        <5> QED  BY <5>1, <4>3, <2>1
      <4> QED  BY <4>3, <4>4, <4>5, <4>1, <2>1
    <3> QED  BY <2>1, <3>1, <3>2
  <2> QED  BY <2>5, <2>6
<1> QED
  BY <1>1, InductiveInvariant, NoPeerIsAhead, NodesInLockstep, NoTickIsEarly, PTL
=============================================================================
