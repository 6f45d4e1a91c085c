---------------------------- MODULE RuntimeProofs ---------------------------
(***************************************************************************)
(* c/src/runtime.c, ticking and building, and the schedulability checks.   *)
(* A tick is a synchronous step, for every set of nodes, every guard and   *)
(* every order of the nodes; the evaluation rules of state machines and    *)
(* nets; what an application may run, for any runtimes, settings and       *)
(* limits and any sequence of calls; and what the checks promise, for any  *)
(* tasks and any records of their accesses.                                *)
(***************************************************************************)
EXTENDS RuntimeTick, Setup, Schedulability, Lemmas, SequenceTheorems

Looping == {"latch", "evaluate", "commit", "dump"}

(* The callback loops stay inside the list of the tick.                    *)
InList ==
  /\ phase \in Phases
  /\ phase # "idle" => order \in ActiveLists
  /\ phase \in Looping => at \in 1 .. Len(order)

NodeFunctions ==
  /\ latched \in [Nodes -> Inputs]
  /\ state = [n \in Nodes |-> state[n]]
  /\ proposed = [n \in Nodes |-> proposed[n]]

(* What the nodes behind the index of evaluate propose.                    *)
EvaluatedSoFar ==
  phase = "evaluate" =>
    \A i \in 1 .. at - 1 :
      proposed[order[i]] = Evaluate(order[i], latched[order[i]], state)

(* The nodes behind the index of commit have moved.                        *)
CommittedSoFar ==
  phase = "commit" =>
    \A i \in 1 .. at - 1 : state[order[i]] = proposed[order[i]].next

TickInv ==
  InList /\ NodeFunctions /\ EvaluatedSoFar /\ CommittedSoFar /\ ActionsSeeEveryCommit

-----------------------------------------------------------------------------
(* What the lists an executor passes are.                                  *)
LEMMA Listed ==
  ASSUME NEW list \in ActiveLists
  PROVE  /\ list \in Seq(Nodes) /\ Len(list) \in Nat \ {0}
         /\ \A i \in 1 .. Len(list) : list[i] \in Nodes
         /\ \A i, j \in 1 .. Len(list) : list[i] = list[j] => i = j
         /\ ToSet(list) = {list[i] : i \in 1 .. Len(list)}
<1>1. list \in Seq(Nodes) /\ list # <<>> /\ IsInjective(list)
  BY ActiveListsAssumption
<1>2. DOMAIN list = 1 .. Len(list) /\ Len(list) \in Nat
  BY <1>1, LenProperties
<1>3. Len(list) # 0
  BY <1>1, EmptySeq
<1>4. \A i \in 1 .. Len(list) : list[i] \in Nodes
  BY <1>1, ElementOfSeq
<1>5. \A i, j \in 1 .. Len(list) : list[i] = list[j] => i = j
  BY <1>1, <1>2 DEF IsInjective
<1>6. ToSet(list) = {list[i] : i \in 1 .. Len(list)}
  BY <1>2 DEF ToSet
<1> QED  BY <1>1, <1>2, <1>3, <1>4, <1>5, <1>6

(* Between ticks the machine starts in its invariant.                      *)
LEMMA TickInit == Init => TickInv
  BY InitialAssumption
     DEF Init, TickInv, InList, NodeFunctions, EvaluatedSoFar, CommittedSoFar,
         ActionsSeeEveryCommit, Phases, Looping

(* An evaluation adds to what has been proposed, and disturbs none of it.   *)
LEMMA EvaluateGrows ==
  ASSUME TickInv, EvaluateNode
  PROVE  \A i \in 1 .. at :
           proposed'[order[i]] = Evaluate(order[i], latched[order[i]], state)
<1> USE DEF TickInv, InList, NodeFunctions
<1>1. order \in ActiveLists /\ at \in 1 .. Len(order)
  BY DEF EvaluateNode, Looping
<1>2. Len(order) \in Nat \ {0} /\ Current \in Nodes
  BY <1>1, Listed DEF Current
<1>3. proposed' = [proposed EXCEPT ![Current] = Evaluate(Current, latched[Current], state)]
  BY DEF EvaluateNode
<1>4. ASSUME NEW i \in 1 .. at
      PROVE  proposed'[order[i]] = Evaluate(order[i], latched[order[i]], state)
  <2>1. CASE i = at
    BY <1>2, <1>3, <2>1 DEF Current
  <2>2. CASE i # at
    <3>1. i \in 1 .. at - 1 /\ order[i] \in Nodes /\ order[i] # Current
      BY <1>1, <1>2, <2>2, Listed DEF Current
    <3>2. proposed[order[i]] = Evaluate(order[i], latched[order[i]], state)
      BY <3>1 DEF EvaluatedSoFar, EvaluateNode
    <3> QED  BY <1>3, <3>1, <3>2
  <2> QED  BY <2>1, <2>2
<1> QED  BY <1>4

(* Each loop of the tick keeps the invariant.                              *)
LEMMA TickStep ==
  ASSUME TickInv, [Next]_vars
  PROVE  TickInv'
<1> USE DEF TickInv, InList, NodeFunctions
<1>1. CASE StartTick
  <2>1. order' \in ActiveLists /\ phase' = "latch" /\ at' = 1
    BY <1>1 DEF StartTick
  <2>2. at' \in 1 .. Len(order')
    BY <2>1, Listed
  <2> QED
    BY <1>1, <2>1, <2>2
       DEF StartTick, nodeVars, EvaluatedSoFar, CommittedSoFar,
           ActionsSeeEveryCommit, Phases, Looping
<1>2. CASE Latch
  <2>1. order \in ActiveLists /\ at \in 1 .. Len(order) /\ order' = order
    BY <1>2 DEF Latch, Looping
  <2>2. Len(order) \in Nat \ {0} /\ Current \in Nodes
    BY <2>1, Listed DEF Current
  <2>3. latched' \in [Nodes -> Inputs]
    BY <1>2, <2>2 DEF Latch
  <2>4. /\ at' \in 1 .. Len(order)
        /\ \/ phase' = "latch"
           \/ phase' = "evaluate" /\ at' = 1
    BY <1>2, <2>1, <2>2 DEF Latch, Advance
  <2> QED
    BY <1>2, <2>1, <2>3, <2>4
       DEF Latch, EvaluatedSoFar, CommittedSoFar, ActionsSeeEveryCommit, Phases, Looping
<1>3. CASE EvaluateNode
  <2>1. order \in ActiveLists /\ at \in 1 .. Len(order) /\ order' = order
    BY <1>3 DEF EvaluateNode, Looping
  <2>2. Len(order) \in Nat \ {0} /\ Current \in Nodes
    BY <2>1, Listed DEF Current
  <2>3. /\ proposed' = [proposed EXCEPT ![Current] = Evaluate(Current, latched[Current], state)]
        /\ latched' = latched /\ state' = state
    BY <1>3 DEF EvaluateNode
  <2>4. /\ at' \in 1 .. Len(order)
        /\ \/ phase' = "evaluate" /\ at' = at + 1
           \/ phase' = "commit" /\ at' = 1
    BY <1>3, <2>1, <2>2 DEF EvaluateNode, Advance
  <2>5. \A i \in 1 .. at :
          proposed'[order[i]] = Evaluate(order[i], latched[order[i]], state)
    BY <1>3, EvaluateGrows
  <2>6. proposed' = [n \in Nodes |-> proposed'[n]]
    BY <2>3
  <2>7. EvaluatedSoFar'
    <3>1. CASE phase' = "evaluate"
      <4>1. at' - 1 = at
        BY <2>1, <2>2, <2>4, <3>1
      <4> QED  BY <2>1, <2>3, <2>5, <4>1 DEF EvaluatedSoFar
    <3> QED  BY <3>1 DEF EvaluatedSoFar
  <2> QED
    BY <2>1, <2>3, <2>4, <2>6, <2>7
       DEF CommittedSoFar, ActionsSeeEveryCommit, Phases, Looping
<1>4. CASE CommitNode
  <2>1. order \in ActiveLists /\ at \in 1 .. Len(order) /\ order' = order
    BY <1>4 DEF CommitNode, Looping
  <2>2. Len(order) \in Nat \ {0} /\ Current \in Nodes
    BY <2>1, Listed DEF Current
  <2>3. /\ state' = [state EXCEPT ![Current] = proposed[Current].next]
        /\ proposed' = proposed /\ latched' = latched
    BY <1>4 DEF CommitNode
  <2>4. /\ at' \in 1 .. Len(order)
        /\ \/ phase' = "commit" /\ at' = at + 1
           \/ phase' = "dispatch" /\ at = Len(order)
    BY <1>4, <2>1, <2>2 DEF CommitNode, Advance
  <2>5. ASSUME NEW i \in 1 .. at
        PROVE  state'[order[i]] = proposed[order[i]].next
    <3>1. CASE i = at
      BY <2>2, <2>3, <3>1 DEF Current
    <3>2. CASE i # at
      <4>1. i \in 1 .. at - 1 /\ order[i] \in Nodes /\ order[i] # Current
        BY <2>1, <2>2, <3>2, Listed DEF Current
      <4>2. state[order[i]] = proposed[order[i]].next
        BY <1>4, <4>1 DEF CommittedSoFar, CommitNode
      <4> QED  BY <2>3, <4>1, <4>2
    <3> QED  BY <3>1, <3>2
  <2>6. state' = [n \in Nodes |-> state'[n]]
    BY <2>3
  <2>7. CommittedSoFar'
    <3>1. CASE phase' = "commit"
      <4>1. at' - 1 = at
        BY <2>1, <2>2, <2>4, <3>1
      <4> QED  BY <2>1, <2>3, <2>5, <4>1 DEF CommittedSoFar
    <3> QED  BY <3>1 DEF CommittedSoFar
  <2>8. ActionsSeeEveryCommit'
    <3>1. CASE phase' = "dispatch"
      <4>1. \A n \in ToSet(order) : \E i \in 1 .. at : n = order[i]
        BY <2>1, <2>4, <3>1, Listed
      <4>2. ASSUME NEW n \in ToSet(order)
            PROVE  state'[n] = proposed'[n].next
        <5>1. PICK i \in 1 .. at : n = order[i]
          BY <4>1
        <5>2. proposed' = proposed
          BY <2>3
        <5> QED  BY <2>5, <5>1, <5>2
      <4> QED  BY <2>1, <4>2 DEF ActionsSeeEveryCommit
    <3> QED  BY <2>4, <3>1 DEF ActionsSeeEveryCommit
  <2> QED
    BY <2>1, <2>3, <2>4, <2>6, <2>7, <2>8 DEF EvaluatedSoFar, Phases, Looping
<1>5. CASE SortQueue \/ RunAction \/ ClearQueue
  <2>1. /\ UNCHANGED <<order, nodeVars>>
        /\ phase \in {"dispatch", "run"} /\ order \in ActiveLists
        /\ phase' = "run" \/ (phase' = "dump" /\ at' = 1)
    BY <1>5 DEF SortQueue, RunAction, ClearQueue
  <2>2. 1 \in 1 .. Len(order)
    BY <2>1, Listed
  <2> QED
    BY <2>1, <2>2
       DEF nodeVars, EvaluatedSoFar, CommittedSoFar, ActionsSeeEveryCommit, Phases, Looping
<1>6. CASE Dump
  <2>1. order \in ActiveLists /\ at \in 1 .. Len(order)
    BY <1>6 DEF Dump, Looping
  <2>2. Len(order) \in Nat \ {0}
    BY <2>1, Listed
  <2>3. /\ UNCHANGED <<order, nodeVars>>
        /\ at' \in 1 .. Len(order)
        /\ phase' \in {"dump", "idle"}
    BY <1>6, <2>1, <2>2 DEF Dump, Advance
  <2> QED
    BY <1>6, <2>1, <2>3
       DEF Dump, nodeVars, EvaluatedSoFar, CommittedSoFar, ActionsSeeEveryCommit,
           Phases, Looping
<1>7. CASE UNCHANGED vars
  BY <1>7 DEF vars, nodeVars, EvaluatedSoFar, CommittedSoFar, ActionsSeeEveryCommit
<1> QED
  BY <1>1, <1>2, <1>3, <1>4, <1>5, <1>6, <1>7 DEF Next

(* The inductive invariant of the tick.                                    *)
THEOREM TickInvariant == Spec => []TickInv
<1> QED  BY TickInit, TickStep, PTL DEF Spec

(* No action and no dump reads a half-committed tick.                      *)
THEOREM ActionsSeeTheWholeTick == Spec => []ActionsSeeEveryCommit
<1>1. TickInv => ActionsSeeEveryCommit
  BY DEF TickInv
<1> QED  BY <1>1, TickInvariant, PTL

-----------------------------------------------------------------------------
(* The first-match rule of state machines, for every list of transitions   *)
(* and every guard: fsm.c takes the first one that applies, or stays.      *)
THEOREM MachinesFollowFirstMatch ==
  ASSUME NEW n \in Machines, NEW in, NEW view
  PROVE  FirstMatch(n, in, view, MachineEvaluate(n, in, view))
<1> DEFINE E     == Eligible(n, in, view)
           first == CHOOSE t \in E : \A u \in E : t <= u
<1>1. DOMAIN Transitions[n] = 1 .. Len(Transitions[n]) /\ Len(Transitions[n]) \in Nat
  <2>1. Transitions[n] \in Seq(Range(Transitions[n]))
    BY TransitionsAssumption DEF Nodes
  <2> QED  BY <2>1, LenProperties
<1>2. E \subseteq 1 .. Len(Transitions[n])
  BY <1>1 DEF Eligible
<1>3. CASE E = {}
  <2>1. MachineEvaluate(n, in, view) = [next |-> view[n], fired |-> <<>>]
    BY <1>3 DEF MachineEvaluate, Evaluation
  <2> QED  BY <1>3, <2>1 DEF FirstMatch, Eligible
<1>4. CASE E # {}
  <2>1. \E t \in E : \A u \in E : t <= u
    <3>1. E \in SUBSET Nat
      BY <1>1, <1>2
    <3> HIDE DEF E
    <3> QED  BY <3>1, <1>4, Least, Zenon
  <2>2. first \in E /\ \A u \in E : first <= u
    BY <2>1
  <2>3. MachineEvaluate(n, in, view) =
          [next |-> Transitions[n][first].to, fired |-> <<first>>]
    BY <1>4 DEF MachineEvaluate, Evaluation
  <2>4. ASSUME NEW t \in 1 .. first - 1
        PROVE  t \notin E /\ t \in DOMAIN Transitions[n]
    <3>1. first \in 1 .. Len(Transitions[n])
      BY <1>2, <2>2
    <3> QED  BY <1>1, <2>2, <3>1
  <2> HIDE DEF first
  <2>5. Len(<<first>>) = 1 /\ <<first>>[1] = first /\ <<first>> # <<>>
    OBVIOUS
  <2> QED
    BY <2>2, <2>3, <2>4, <2>5 DEF FirstMatch, Eligible
<1> QED  BY <1>3, <1>4

-----------------------------------------------------------------------------
(* A tick is one synchronous step of its nodes, on the state before it:    *)
(* the step is taken when the last node has evaluated.                     *)
THEOREM TicksAreSynchronous == Spec => ImplementsSynchronous
<1>1. Init => Abstract!Init
  BY InitialAssumption DEF Init, Abstract!Init, Decided
<1>2. ASSUME TickInv, TickInv', [Next]_vars
      PROVE  [Abstract!Next]_Decided
  <2> USE DEF TickInv, InList, NodeFunctions
  <2>1. CASE EvaluateNode /\ at = Len(order)
    <3>1. order \in ActiveLists /\ order' = order /\ at' = 1 /\ phase' = "commit"
      BY <1>2, <2>1 DEF EvaluateNode, Advance
    <3>2. Len(order) \in Nat \ {0} /\ Current \in Nodes
      BY <2>1, <3>1, Listed DEF Current
    <3>3. /\ proposed' = [proposed EXCEPT ![Current] = Evaluate(Current, latched[Current], state)]
          /\ latched' = latched /\ state' = state
      BY <2>1 DEF EvaluateNode
    <3>4. \A i \in 1 .. Len(order) :
            proposed'[order[i]] = Evaluate(order[i], latched[order[i]], state)
      BY <1>2, <2>1, EvaluateGrows
    <3> DEFINE S == {order[i] : i \in 1 .. Len(order)}
    <3>5. S \in {ToSet(list) : list \in ActiveLists}
      BY <3>1, Listed
    <3>6. Decided = state
      BY <1>2, <2>1 DEF Decided, EvaluateNode
    <3>7. \A n : Pending(n)' <=> n \in S
      BY <3>1 DEF Pending
    <3>8. Decided' = [n \in Nodes |-> IF n \in S THEN proposed'[n].next ELSE state[n]]
      BY <3>1, <3>3, <3>7 DEF Decided
    <3>9. \A n \in S : proposed'[n].next = Move(n, latched[n], state)
      BY <3>4 DEF Move
    <3>10. Decided' = [n \in Nodes |-> IF n \in S THEN Move(n, latched[n], state)
                                                  ELSE state[n]]
      BY <3>8, <3>9
    <3>11. Abstract!Tick(S, latched)
      BY <3>6, <3>10 DEF Abstract!Tick
    <3> QED
      BY <1>2, <3>5, <3>11 DEF Abstract!Next
  <2>2. CASE CommitNode
    <3>1. order \in ActiveLists /\ order' = order /\ at \in 1 .. Len(order)
      BY <1>2, <2>2 DEF CommitNode, Looping
    <3>2. Len(order) \in Nat \ {0} /\ Current \in Nodes
      BY <3>1, Listed DEF Current
    <3>3. state' = [state EXCEPT ![Current] = proposed[Current].next] /\ proposed' = proposed
      BY <2>2 DEF CommitNode
    <3>4. \A n \in Nodes \ {Current} :
            (phase' = "commit" /\ Pending(n)') <=> Pending(n)
      <4>1. CASE at = Len(order)
        BY <2>2, <3>1, <3>2, <4>1 DEF CommitNode, Advance, Pending, Current
      <4>2. CASE at # Len(order)
        BY <2>2, <3>1, <3>2, <4>2 DEF CommitNode, Advance, Pending, Current
      <4> QED  BY <4>1, <4>2
    <3>5. Pending(Current)
      BY <3>1, <3>2 DEF Pending, Current
    <3>6. ~(phase' = "commit" /\ (\E i \in at' .. Len(order) : order[i] = Current))
      BY <2>2, <3>1, <3>2, Listed DEF CommitNode, Advance, Current
    <3>7. Decided' = Decided
      <4>1. \A n \in Nodes : Decided'[n] = Decided[n]
        BY <1>2, <2>2, <3>1, <3>2, <3>3, <3>4, <3>5, <3>6 DEF Decided, CommitNode, Pending
      <4> QED  BY <4>1 DEF Decided
    <3> QED  BY <3>7
  <2>3. CASE StartTick \/ Latch \/ (EvaluateNode /\ at # Len(order))
             \/ SortQueue \/ RunAction \/ ClearQueue \/ Dump
    <3>1. phase # "commit" /\ phase' # "commit" /\ state' = state
      BY <2>3 DEF StartTick, Latch, EvaluateNode, SortQueue, RunAction, ClearQueue, Dump,
                  Advance, nodeVars
    <3> QED  BY <3>1 DEF Decided
  <2>4. CASE UNCHANGED vars
    BY <2>4 DEF vars, nodeVars, Decided, Pending
  <2> QED
    BY <1>2, <2>1, <2>2, <2>3, <2>4 DEF Next
<1> QED
  BY <1>1, <1>2, TickInvariant, PTL DEF Spec, ImplementsSynchronous, Abstract!Spec

-----------------------------------------------------------------------------
(***************************************************************************)
(* What an evaluation fires: transitions of the node, each at most once.   *)
(***************************************************************************)

Firing(n, fired) ==
  /\ fired \in Seq(1 .. Len(Transitions[n]))
  /\ \A i, j \in DOMAIN fired : i # j => fired[i] # fired[j]

LEMMA TransitionList ==
  ASSUME NEW n \in Nodes
  PROVE  DOMAIN Transitions[n] = 1 .. Len(Transitions[n]) /\ Len(Transitions[n]) \in Nat
<1>1. Transitions[n] \in Seq(Range(Transitions[n]))  BY TransitionsAssumption
<1> QED  BY <1>1, LenProperties

(* One pass over the transitions of a net, however many there are, is a    *)
(* recursive function: seq[t] is what t of them leave.  That there is one  *)
(* is shown from the least number of transitions without it.               *)
AfterOne(n, in, view, e, t) ==
  IF Enabled(e.next, Transitions[n][t]) /\ Guard(n, t, in, view)
    THEN Evaluation(Apply(e.next, Transitions[n][t]), Append(e.fired, t))
    ELSE e

IsPass(n, in, view, f) ==
  /\ f[0] = Evaluation(view[n], <<>>)
  /\ \A t \in 1 .. Len(Transitions[n]) : f[t] = AfterOne(n, in, view, f[t - 1], t)

LEMMA NetPass ==
  ASSUME NEW n \in Nets, NEW in, NEW view
  PROVE  \E f : IsPass(n, in, view, f) /\ NetEvaluate(n, in, view) = f[Len(Transitions[n])]
<1> DEFINE N         == Len(Transitions[n])
           opening   == Evaluation(view[n], <<>>)
           Try(e, t) == AfterOne(n, in, view, e, t)
           Computes(f, m) ==
             f = [t \in 0 .. m |-> IF t = 0 THEN opening ELSE Try(f[t - 1], t)]
<1>1. N \in Nat  BY TransitionList DEF Nodes
<1>2. NetEvaluate(n, in, view) = (CHOOSE f : Computes(f, N))[N]  BY DEF NetEvaluate, AfterOne
<1> HIDE DEF opening, Try, N
<1>3. \A m \in Nat : \E f : Computes(f, m)
  <2> DEFINE Without == {m \in Nat : ~ \E f : Computes(f, m)}
  <2> SUFFICES ASSUME Without # {}  PROVE FALSE
    OBVIOUS
  <2>1. PICK m \in Without : \A k \in Without : m <= k
    <3>1. Without \in SUBSET Nat /\ Without # {}  OBVIOUS
    <3> HIDE DEF Without
    <3> QED  BY <3>1, Least, Zenon
  <2>2. m # 0
    <3> DEFINE f == [t \in 0 .. 0 |-> opening]
    <3>1. Computes(f, 0)  OBVIOUS
    <3> QED  BY <2>1, <3>1
  <2>3. m - 1 \in Nat /\ m - 1 \notin Without
    <3>1. m \in Nat  OBVIOUS
    <3>2. m - 1 \in Nat /\ ~ (m <= m - 1)  BY <2>2, <3>1
    <3> QED  BY <2>1, <3>2, Zenon
  <2>4. PICK f : Computes(f, m - 1)  BY <2>3
  <2> DEFINE g == [t \in 0 .. m |-> IF t = m THEN Try(f[m - 1], m) ELSE f[t]]
  <2>5. \A t \in 0 .. m : g[t] = IF t = 0 THEN opening ELSE Try(g[t - 1], t)
    <3> TAKE t \in 0 .. m
    <3>1. CASE t = m
      <4>1. g[t - 1] = f[m - 1]  BY <2>3, <3>1
      <4> QED  BY <2>2, <3>1, <4>1
    <3>2. CASE t # m /\ t # 0
      <4>1. t \in 0 .. m - 1 /\ t - 1 \in 0 .. m - 1 /\ t - 1 # m  BY <2>3, <3>2
      <4>2. f[t] = Try(f[t - 1], t)  BY <2>4, <3>2, <4>1
      <4>3. g[t] = f[t] /\ g[t - 1] = f[t - 1]  BY <3>2, <4>1
      <4> QED  BY <3>2, <4>2, <4>3
    <3>3. CASE t = 0
      <4>1. f[0] = opening /\ g[0] = f[0]  BY <2>2, <2>3, <2>4
      <4> QED  BY <3>3, <4>1
    <3> QED  BY <3>1, <3>2, <3>3
  <2>6. g = [t \in 0 .. m |-> g[t]]  OBVIOUS
  <2> HIDE DEF g
  <2>7. Computes(g, m)  BY <2>5, <2>6
  <2> QED  BY <2>1, <2>7
<1>4. PICK f : Computes(f, N) /\ NetEvaluate(n, in, view) = f[N]  BY <1>1, <1>2, <1>3
<1>5. f[0] = opening /\ \A t \in 1 .. N : f[t] = Try(f[t - 1], t)  BY <1>1, <1>4
<1> QED  BY <1>4, <1>5 DEF IsPass, opening, Try, N

(* Behind t transitions only the first t can have fired, each once.        *)
LEMMA PassFires ==
  ASSUME NEW n \in Nets, NEW in, NEW view, NEW f,
         IsPass(n, in, view, f)
  PROVE  \A t \in 0 .. Len(Transitions[n]) :
           /\ f[t].fired \in Seq(1 .. t)
           /\ \A i, j \in DOMAIN f[t].fired : i # j => f[t].fired[i] # f[t].fired[j]
<1> DEFINE N       == Len(Transitions[n])
           Fires(fired, t) ==
             /\ fired \in Seq(1 .. t)
             /\ \A i, j \in DOMAIN fired : i # j => fired[i] # fired[j]
<1>1. N \in Nat  BY TransitionList DEF Nodes
<1>2. f[0].fired = <<>>  BY DEF IsPass, Evaluation
<1>3. ASSUME NEW e, NEW t
      PROVE  \/ AfterOne(n, in, view, e, t).fired = e.fired
             \/ AfterOne(n, in, view, e, t).fired = Append(e.fired, t)
  BY DEF Evaluation, AfterOne
<1>4. \A t \in 1 .. N : f[t] = AfterOne(n, in, view, f[t - 1], t)  BY DEF IsPass
<1> HIDE DEF N
<1>5. \A t \in 0 .. N : Fires(f[t].fired, t)
  <2> DEFINE Bad == {t \in 0 .. N : ~ Fires(f[t].fired, t)}
  <2> SUFFICES ASSUME Bad # {}  PROVE FALSE
    OBVIOUS
  <2>1. PICK t \in Bad : \A k \in Bad : t <= k
    <3>1. Bad \in SUBSET Nat  BY <1>1
    <3> HIDE DEF Bad
    <3> QED  BY <3>1, Least, Zenon
  <2>2. Fires(<<>>, 0)  OBVIOUS
  <2>3. t # 0  BY <1>2, <2>1, <2>2
  <2>4. t \in 1 .. N /\ t - 1 \in 0 .. N  BY <1>1, <2>1, <2>3
  <2>5. ~ (t <= t - 1)  BY <2>4
  <2>6. Fires(f[t - 1].fired, t - 1)  BY <2>1, <2>4, <2>5
  <2> DEFINE before == f[t - 1].fired
  <2>7. f[t].fired = before \/ f[t].fired = Append(before, t)  BY <1>3, <1>4, <2>4, ZenonT(40)
  <2>8. Fires(before, t - 1)  BY <2>6
  <2> HIDE DEF before
  <2>9. Fires(before, t)
    <3>1. 1 .. t - 1 \in SUBSET (1 .. t)  BY <2>4
    <3>2. before \in Seq(1 .. t)  BY <2>8, <3>1
    <3> QED  BY <2>8, <3>2
  <2>10. Fires(Append(before, t), t)
    <3>1. Append(before, t) \in Seq(1 .. t)  BY <2>4, <2>9
    <3>2. \A i \in DOMAIN before : before[i] \in 1 .. t - 1  BY <2>8
    <3>3. \A i \in DOMAIN before : before[i] # t  BY <2>4, <3>2
    <3> QED  BY <2>4, <2>8, <2>9, <3>1, <3>3
  <2> QED  BY <2>1, <2>7, <2>9, <2>10
<1> QED  BY <1>5 DEF N

LEMMA NetFires ==
  ASSUME NEW n \in Nets, NEW in, NEW view
  PROVE  Firing(n, NetEvaluate(n, in, view).fired)
<1> DEFINE N == Len(Transitions[n])
<1>1. N \in Nat  BY TransitionList DEF Nodes
<1>2. PICK f : IsPass(n, in, view, f) /\ NetEvaluate(n, in, view) = f[N]  BY NetPass
<1> HIDE DEF N
<1>3. /\ f[N].fired \in Seq(1 .. N)
      /\ \A i, j \in DOMAIN f[N].fired : i # j => f[N].fired[i] # f[N].fired[j]
  <2>1. N \in 0 .. N  BY <1>1
  <2> QED  BY <1>2, <2>1, PassFires DEF N
<1> QED  BY <1>2, <1>3 DEF Firing, N

(* What the pass of a net has left behind every transition: a marking of   *)
(* the same places, and a transition fired exactly when it was enabled by  *)
(* what the ones before it left, and its guard held.                       *)
LEMMA PassLeaves ==
  ASSUME NEW n \in Nets, NEW in, NEW view, NEW f,
         IsMarking(view[n]), IsPass(n, in, view, f)
  PROVE  /\ \A t \in 0 .. Len(Transitions[n]) :
              f[t].next = [p \in DOMAIN view[n] |-> f[t].next[p]]
         /\ \A t \in 1 .. Len(Transitions[n]) :
              t \in ToSet(f[Len(Transitions[n])].fired) <=>
                Enabled(f[t - 1].next, Transitions[n][t]) /\ Guard(n, t, in, view)
<1> DEFINE N      == Len(Transitions[n])
           D      == DOMAIN view[n]
           OnD(m) == m = [p \in D |-> m[p]]
           Fires(t) == Enabled(f[t - 1].next, Transitions[n][t]) /\ Guard(n, t, in, view)
<1>1. N \in Nat  BY TransitionList DEF Nodes
<1>2. ASSUME NEW t \in 1 .. N
      PROVE  /\ Fires(t) => /\ f[t].next = Apply(f[t - 1].next, Transitions[n][t])
                            /\ f[t].fired = Append(f[t - 1].fired, t)
             /\ ~ Fires(t) => f[t] = f[t - 1]
  <2>1. f[t] = AfterOne(n, in, view, f[t - 1], t)  BY DEF IsPass
  <2> QED  BY <2>1 DEF AfterOne, Evaluation
<1>3. \A t \in 0 .. N : f[t].fired \in Seq(1 .. t)  BY PassFires
<1>4. f[0].next = view[n] /\ OnD(view[n])  BY DEF IsPass, Evaluation, IsMarking
<1> HIDE DEF N, Fires
<1>5. \A t \in 0 .. N : OnD(f[t].next)
  <2> DEFINE Bad == {t \in 0 .. N : ~ OnD(f[t].next)}
  <2> HIDE DEF OnD
  <2> SUFFICES ASSUME Bad # {}  PROVE FALSE
    OBVIOUS
  <2>1. PICK t \in Bad : \A k \in Bad : t <= k
    <3>1. Bad \in SUBSET Nat  BY <1>1
    <3> HIDE DEF Bad
    <3> QED  BY <3>1, Least, Zenon
  <2>2. t \in 1 .. N /\ t - 1 \in 0 .. N /\ ~ (t <= t - 1)  BY <1>1, <1>4, <2>1
  <2>3. OnD(f[t - 1].next)  BY <2>1, <2>2
  <2>4. OnD(Apply(f[t - 1].next, Transitions[n][t]))  BY <2>3 DEF OnD, Apply
  <2>5. f[t].next = f[t - 1].next \/ f[t].next = Apply(f[t - 1].next, Transitions[n][t])
    BY <1>2, <2>2
  <2> QED  BY <2>1, <2>3, <2>4, <2>5
<1>6. ASSUME NEW t \in 1 .. N  PROVE t \in ToSet(f[t].fired) <=> Fires(t)
  <2>1. f[t - 1].fired \in Seq(1 .. t - 1) /\ t \in Int
    <3>1. t - 1 \in 0 .. N  BY <1>1
    <3> QED  BY <1>3, <3>1
  <2>2. t \notin ToSet(f[t - 1].fired)
    <3>1. \A i \in DOMAIN f[t - 1].fired : f[t - 1].fired[i] \in 1 .. t - 1  BY <2>1
    <3> QED  BY <2>1, <3>1 DEF ToSet
  <2>3. t \in ToSet(Append(f[t - 1].fired, t))
    <3> DEFINE s == f[t - 1].fired
    <3>1. s \in Seq(1 .. t - 1)  BY <2>1
    <3> HIDE DEF s
    <3>2. /\ Len(s) + 1 \in DOMAIN Append(s, t)
          /\ Append(s, t)[Len(s) + 1] = t
      BY <3>1
    <3>3. t \in ToSet(Append(s, t))  BY <3>2 DEF ToSet
    <3> QED  BY <3>3 DEF s
  <2> QED  BY <1>2, <2>2, <2>3
<1>7. ASSUME NEW t \in 1 .. N, NEW s \in 1 .. N, s # t
      PROVE  t \in ToSet(f[s].fired) <=> t \in ToSet(f[s - 1].fired)
  <2> DEFINE q == f[s - 1].fired
  <2>1. q \in Seq(1 .. s - 1)
    <3>1. s - 1 \in 0 .. N  BY <1>1
    <3> QED  BY <1>3, <3>1
  <2>2. f[s].fired = q \/ f[s].fired = Append(q, s)  BY <1>2
  <2> HIDE DEF q
  <2>3. t \in ToSet(Append(q, s)) <=> t \in ToSet(q)
    <3>1. /\ Len(q) \in Nat /\ DOMAIN q = 1 .. Len(q) /\ DOMAIN Append(q, s) = 1 .. Len(q) + 1
          /\ Append(q, s)[Len(q) + 1] = s
          /\ \A i \in 1 .. Len(q) : Append(q, s)[i] = q[i]
      BY <2>1
    <3> QED  BY <1>7, <3>1 DEF ToSet
  <2> QED  BY <2>2, <2>3 DEF q
<1>8. ASSUME NEW t \in 1 .. N
      PROVE  \A s \in t .. N : t \in ToSet(f[s].fired) <=> Fires(t)
  <2> DEFINE Bad == {s \in t .. N : ~ (t \in ToSet(f[s].fired) <=> Fires(t))}
  <2> SUFFICES ASSUME Bad # {}  PROVE FALSE
    OBVIOUS
  <2>1. PICK s \in Bad : \A k \in Bad : s <= k
    <3>1. Bad \in SUBSET Nat  BY <1>1
    <3> HIDE DEF Bad
    <3> QED  BY <3>1, Least, Zenon
  <2>2. s # t  BY <1>6, <2>1
  <2>3. s \in 1 .. N /\ s - 1 \in t .. N /\ ~ (s <= s - 1)  BY <1>1, <2>1, <2>2
  <2>4. t \in ToSet(f[s - 1].fired) <=> Fires(t)  BY <2>1, <2>3
  <2> QED  BY <1>7, <2>1, <2>2, <2>3, <2>4
<1>9. \A t \in 1 .. N : N \in t .. N  BY <1>1
<1> QED  BY <1>5, <1>8, <1>9 DEF N, Fires

(* What the rule counts a place to have behind is what the pass behind there:  *)
(* both follow the transitions one by one.                                 *)
Tracks(n, F, f, p) ==
  \A t \in 1 .. Len(Transitions[n]) :
    f[t].next[p] =
      IF t \in ToSet(F)
      THEN f[t - 1].next[p] - WeightAt(Transitions[n][t].consume, p)
                            + WeightAt(Transitions[n][t].produce, p)
      ELSE f[t - 1].next[p]

LEMMA LeftIsTheMarking ==
  ASSUME NEW n \in Nets, NEW view, NEW F, NEW f, NEW p \in DOMAIN view[n],
         f[0].next = view[n], Tracks(n, F, f, p)
  PROVE  \A t \in 0 .. Len(Transitions[n]) : LeftBehind(n, view, F, p)[t] = f[t].next[p]
<1> DEFINE N       == Len(Transitions[n])
           To(x, t) == IF t \in ToSet(F)
                       THEN x - WeightAt(Transitions[n][t].consume, p)
                              + WeightAt(Transitions[n][t].produce, p)
                       ELSE x
           Counts(g) == g = [t \in 0 .. N |-> IF t = 0 THEN view[n][p] ELSE To(g[t - 1], t)]
           behind    == CHOOSE g : Counts(g)
           pass      == [t \in 0 .. N |-> f[t].next[p]]
<1>1. N \in Nat  BY TransitionList DEF Nodes
<1>2. LeftBehind(n, view, F, p) = behind  BY DEF LeftBehind
<1>3. \A t \in 1 .. N : f[t].next[p] = To(f[t - 1].next[p], t)  BY DEF Tracks
<1> HIDE DEF N, To
<1>4. Counts(pass)
  <2>1. ASSUME NEW t \in 0 .. N
        PROVE  pass[t] = IF t = 0 THEN view[n][p] ELSE To(pass[t - 1], t)
    <3>1. CASE t = 0  BY <3>1
    <3>2. CASE t # 0
      <4>1. t \in 1 .. N /\ t - 1 \in 0 .. N  BY <1>1, <3>2
      <4>2. pass[t - 1] = f[t - 1].next[p] /\ pass[t] = f[t].next[p]  BY <4>1
      <4> HIDE DEF pass
      <4> QED  BY <1>3, <3>2, <4>1, <4>2
    <3> QED  BY <3>1, <3>2
  <2>2. pass = [t \in 0 .. N |-> pass[t]]  OBVIOUS
  <2> HIDE DEF pass
  <2> QED  BY <2>1, <2>2
<1>5. Counts(behind)
  <2> HIDE DEF Counts, pass
  <2> QED  BY <1>4 DEF behind
<1> HIDE DEF behind
<1>6. behind[0] = view[n][p] /\ \A t \in 1 .. N : behind[t] = To(behind[t - 1], t)
  <2>1. \A t \in 0 .. N : behind[t] = IF t = 0 THEN view[n][p] ELSE To(behind[t - 1], t)
    BY <1>5
  <2>2. 0 \in 0 .. N /\ \A t \in 1 .. N : t \in 0 .. N /\ t # 0  BY <1>1
  <2> QED  BY <2>1, <2>2
<1>7. \A t \in 0 .. N : behind[t] = f[t].next[p]
  <2> DEFINE Bad == {t \in 0 .. N : behind[t] # f[t].next[p]}
  <2> SUFFICES ASSUME Bad # {}  PROVE FALSE
    OBVIOUS
  <2>1. PICK t \in Bad : \A k \in Bad : t <= k
    <3>1. Bad \in SUBSET Nat  BY <1>1
    <3> HIDE DEF Bad
    <3> QED  BY <3>1, Least, Zenon
  <2>2. t \in 1 .. N /\ t - 1 \in 0 .. N /\ ~ (t <= t - 1)  BY <1>1, <1>6, <2>1
  <2>3. behind[t - 1] = f[t - 1].next[p]  BY <2>1, <2>2
  <2> QED  BY <1>3, <1>6, <2>1, <2>2, <2>3
<1> QED  BY <1>2, <1>7 DEF N

(* The greedy rule of Petri nets, for every list of transitions, all arcs, *)
(* weights and guards: a transition of pn.c fires exactly when its arcs    *)
(* are valid, its guard holds and its tokens are there after every earlier *)
(* transition that fires; and the marking is what all that fired leave.    *)
THEOREM NetsFireGreedily ==
  ASSUME NEW n \in Nets, NEW in, NEW view,
         IsMarking(view[n])
  PROVE  Greedy(n, in, view, NetEvaluate(n, in, view))
<1> DEFINE N    == Len(Transitions[n])
           D    == DOMAIN view[n]
           e    == NetEvaluate(n, in, view)
           Left(p) == LeftBehind(n, view, e.fired, p)
<1>1. N \in Nat /\ DOMAIN Transitions[n] = 1 .. N  BY TransitionList DEF Nodes
<1>2. PICK f : IsPass(n, in, view, f) /\ e = f[N]  BY NetPass
<1>3. /\ \A t \in 0 .. N : f[t].next = [p \in D |-> f[t].next[p]]
      /\ \A t \in 1 .. N : t \in ToSet(f[N].fired) <=>
           Enabled(f[t - 1].next, Transitions[n][t]) /\ Guard(n, t, in, view)
  BY <1>2, PassLeaves
<1> HIDE DEF N, e
<1>4. ASSUME NEW p \in D
      PROVE  \A t \in 0 .. N : Left(p)[t] = f[t].next[p]
  <2>1. f[0].next = view[n]  BY <1>2 DEF IsPass, Evaluation
  <2>2. ASSUME NEW t \in 1 .. N
        PROVE  f[t].next[p] =
                 IF t \in ToSet(e.fired)
                 THEN f[t - 1].next[p] - WeightAt(Transitions[n][t].consume, p)
                                       + WeightAt(Transitions[n][t].produce, p)
                 ELSE f[t - 1].next[p]
    <3>1. t - 1 \in 0 .. N  BY <1>1
    <3>2. DOMAIN f[t - 1].next = D  BY <1>3, <3>1
    <3>3. f[t] = AfterOne(n, in, view, f[t - 1], t)  BY <1>2 DEF IsPass, N
    <3>4. t \in ToSet(e.fired) <=>
            Enabled(f[t - 1].next, Transitions[n][t]) /\ Guard(n, t, in, view)
      BY <1>2, <1>3
    <3> QED  BY <3>2, <3>3, <3>4 DEF AfterOne, Evaluation, Apply
  <2>3. Tracks(n, e.fired, f, p)  BY <2>2 DEF Tracks, N
  <2> QED  BY <2>1, <2>3, LeftIsTheMarking DEF N
<1>5. ASSUME NEW t \in 1 .. N
      PROVE  Enabled(f[t - 1].next, Transitions[n][t]) <=>
               /\ ValidArcs(view[n], Transitions[n][t].consume)
               /\ ValidArcs(view[n], Transitions[n][t].produce)
               /\ \A i \in DOMAIN Transitions[n][t].consume :
                    Left(Transitions[n][t].consume[i].place)[t - 1]
                      >= Transitions[n][t].consume[i].weight
  <2>1. t - 1 \in 0 .. N  BY <1>1
  <2>2. DOMAIN f[t - 1].next = D  BY <1>3, <2>1
  <2>3. \A p \in D : Left(p)[t - 1] = f[t - 1].next[p]  BY <1>4, <2>1
  <2> HIDE DEF Left
  <2> QED  BY <2>2, <2>3 DEF Enabled, ValidArcs
<1>6. e.next = [p \in D |-> Left(p)[N]]
  <2>1. N \in 0 .. N  BY <1>1
  <2>2. \A p \in D : Left(p)[N] = f[N].next[p]  BY <1>4, <2>1
  <2>3. e.next = [p \in D |-> f[N].next[p]]  BY <1>2, <1>3, <2>1
  <2> HIDE DEF Left
  <2> QED  BY <2>2, <2>3
<1>7. \A t \in 1 .. N : t \in ToSet(e.fired) <=>
        Enabled(f[t - 1].next, Transitions[n][t]) /\ Guard(n, t, in, view)
  BY <1>2, <1>3
<1> QED  BY <1>1, <1>5, <1>6, <1>7 DEF Greedy, N, e

(* What a net holds and proposes are markings.                             *)
Markings == \A n \in Nets : IsMarking(state[n]) /\ IsMarking(proposed[n].next)

(* Proposals stand until the commit begins to move the nodes.              *)
ProposedFromState ==
  \A n \in Proposals : n \in Nodes /\ proposed[n] = Evaluate(n, latched[n], state)

RulesInv == Markings /\ ProposedFromState

LEMMA EvaluateObeys ==
  ASSUME Markings, NEW n \in Nodes, NEW in
  PROVE  /\ ObeysRule(n, in, state, Evaluate(n, in, state))
         /\ n \in Nets => IsMarking(Evaluate(n, in, state).next)
<1>1. CASE n \in Machines
  <2>1. n \notin Nets  BY <1>1, KindsAssumption
  <2> QED  BY <1>1, <2>1, MachinesFollowFirstMatch DEF ObeysRule, Evaluate
<1>2. CASE n \in Nets /\ n \notin Machines
  <2>1. Evaluate(n, in, state) = NetEvaluate(n, in, state)  BY <1>2 DEF Evaluate
  <2>2. Greedy(n, in, state, NetEvaluate(n, in, state))
    <3>1. IsMarking(state[n])  BY <1>2 DEF Markings
    <3> QED  BY <1>2, <3>1, NetsFireGreedily
  <2>3. IsMarking(NetEvaluate(n, in, state).next)  BY <2>2 DEF Greedy, IsMarking
  <2> QED  BY <1>2, <2>1, <2>2, <2>3 DEF ObeysRule
<1> QED  BY <1>1, <1>2 DEF Nodes

LEMMA RulesInit == Init => RulesInv
<1> SUFFICES ASSUME Init  PROVE RulesInv
  OBVIOUS
<1>1. Proposals = {}  BY DEF Init, Proposals
<1>2. \A n \in Nets : state[n] = Initial[n] /\ proposed[n].next = Initial[n]
  BY DEF Init, Evaluation, Nodes
<1> QED  BY <1>1, <1>2, InitialAssumption DEF RulesInv, Markings, ProposedFromState

LEMMA RulesStep ==
  ASSUME TickInv, RulesInv, [Next]_vars
  PROVE  RulesInv'
<1> USE DEF TickInv, InList, NodeFunctions
<1>1. CASE EvaluateNode
  <2>1. order \in ActiveLists /\ at \in 1 .. Len(order) /\ order' = order
    BY <1>1 DEF EvaluateNode, Looping
  <2>2. Len(order) \in Nat \ {0} /\ Current \in Nodes
    BY <2>1, Listed DEF Current
  <2>3. /\ proposed' = [proposed EXCEPT ![Current] = Evaluate(Current, latched[Current], state)]
        /\ latched' = latched /\ state' = state
    BY <1>1 DEF EvaluateNode
  <2>4. Markings'
    <3> SUFFICES ASSUME NEW n \in Nets
                 PROVE  IsMarking(state'[n]) /\ IsMarking(proposed'[n].next)
      BY DEF Markings
    <3>1. n \in Nodes  BY DEF Nodes
    <3>2. CASE n = Current
      <4>1. IsMarking(Evaluate(n, latched[n], state).next)
        BY <3>1, EvaluateObeys DEF RulesInv
      <4> QED  BY <2>2, <2>3, <3>2, <4>1 DEF RulesInv, Markings
    <3>3. CASE n # Current
      BY <2>3, <3>1, <3>3 DEF RulesInv, Markings
    <3> QED  BY <3>2, <3>3
  <2>5. \/ phase' = "evaluate" /\ at' = at + 1
        \/ phase' = "commit" /\ at' = 1 /\ at = Len(order)
    BY <1>1, <2>1, <2>2 DEF EvaluateNode, Advance
  <2>6. Proposals' \in SUBSET {order[i] : i \in 1 .. at}
    <3>1. CASE phase' = "evaluate"
      <4>1. at' - 1 = at  BY <2>1, <2>2, <2>5, <3>1
      <4> QED  BY <2>1, <3>1, <4>1 DEF Proposals
    <3>2. CASE phase' = "commit" /\ at = Len(order)
      <4>1. ToSet(order) = {order[i] : i \in 1 .. at}  BY <2>1, <3>2, Listed
      <4>2. Proposals' = ToSet(order)  BY <2>1, <2>5, <3>2 DEF Proposals
      <4> QED  BY <4>1, <4>2
    <3> QED  BY <2>5, <3>1, <3>2
  <2>7. \A i \in 1 .. at : order[i] \in Nodes
    BY <2>1, <2>2, Listed
  <2>8. \A i \in 1 .. at : proposed'[order[i]] = Evaluate(order[i], latched[order[i]], state)
    BY <1>1, EvaluateGrows
  <2>9. ProposedFromState'
    <3> SUFFICES ASSUME NEW n \in Proposals'
                 PROVE  n \in Nodes /\ proposed'[n] = Evaluate(n, latched'[n], state')
      BY DEF ProposedFromState
    <3>1. PICK i \in 1 .. at : n = order[i]  BY <2>6
    <3> QED  BY <2>3, <2>7, <2>8, <3>1
  <2> QED  BY <2>4, <2>9 DEF RulesInv
<1>2. CASE CommitNode
  <2>1. order \in ActiveLists /\ at \in 1 .. Len(order) /\ order' = order
    BY <1>2 DEF CommitNode, Looping
  <2>2. Len(order) \in Nat \ {0} /\ Current \in Nodes
    BY <2>1, Listed DEF Current
  <2>3. proposed' = proposed /\ state' = [state EXCEPT ![Current] = proposed[Current].next]
    BY <1>2 DEF CommitNode
  <2>4. Markings'
    <3>1. \A n \in Nets : n \in Nodes  BY DEF Nodes
    <3> QED  BY <2>2, <2>3, <3>1 DEF RulesInv, Markings
  <2>5. phase' = "dispatch" \/ (phase' = "commit" /\ at' # 1)
    BY <1>2, <2>1, <2>2 DEF CommitNode, Advance
  <2>6. Proposals' = {}  BY <2>5 DEF Proposals
  <2> QED  BY <2>4, <2>6 DEF RulesInv, ProposedFromState
<1>3. CASE Latch
  <2>1. state' = state /\ proposed' = proposed  BY <1>3 DEF Latch
  <2>2. Markings'  BY <2>1 DEF RulesInv, Markings
  <2>3. order \in ActiveLists /\ at \in 1 .. Len(order) /\ Len(order) \in Nat
    BY <1>3, Listed DEF Latch, Looping
  <2>4. phase' = "latch" \/ (phase' = "evaluate" /\ at' = 1)
    BY <1>3, <2>3 DEF Latch, Advance
  <2>5. Proposals' = {}  BY <2>4 DEF Proposals
  <2> QED  BY <2>2, <2>5 DEF RulesInv, ProposedFromState
<1>4. CASE StartTick \/ SortQueue \/ RunAction \/ ClearQueue \/ Dump
  <2>1. /\ state' = state /\ proposed' = proposed
        /\ phase' \in {"latch", "run", "dump", "idle"}
    BY <1>4 DEF StartTick, SortQueue, RunAction, ClearQueue, Dump, Advance, nodeVars
  <2>2. Proposals' = {}  BY <2>1 DEF Proposals
  <2> QED  BY <2>1, <2>2 DEF RulesInv, Markings, ProposedFromState
<1>5. CASE UNCHANGED vars
  BY <1>5, ZenonT(30) DEF vars, nodeVars, RulesInv, Markings, ProposedFromState, Proposals
<1> QED  BY <1>1, <1>2, <1>3, <1>4, <1>5 DEF Next

(* Every node proposes what its rule says of the input it latched and of   *)
(* the state the tick found, whatever the order of the nodes and whatever  *)
(* is queued in between (fsm.c:19-42, pn.c:76-103).                        *)
THEOREM NodesObeyTheRules == Spec => []ProposalsObeyTheRules
<1>1. RulesInv => ProposalsObeyTheRules
  BY EvaluateObeys DEF RulesInv, ProposedFromState, ProposalsObeyTheRules
<1> QED  BY <1>1, RulesInit, RulesStep, TickInvariant, PTL DEF Spec

LEMMA Fired ==
  ASSUME NEW n \in Nodes, NEW in, NEW view
  PROVE  Firing(n, Evaluate(n, in, view).fired)
<1>1. CASE n \in Machines
  <2> DEFINE E     == Eligible(n, in, view)
             first == CHOOSE t \in E : \A u \in E : t <= u
  <2>1. E \in SUBSET (1 .. Len(Transitions[n])) /\ Len(Transitions[n]) \in Nat
    BY TransitionList DEF Eligible
  <2>2. CASE E = {}
    <3>1. Evaluate(n, in, view).fired = <<>>
      BY <1>1, <2>2 DEF Evaluate, MachineEvaluate, Evaluation
    <3> QED  BY <3>1 DEF Firing
  <2>3. CASE E # {}
    <3>1. Evaluate(n, in, view).fired = <<first>>
      BY <1>1, <2>3 DEF Evaluate, MachineEvaluate, Evaluation
    <3>2. first \in E
      <4>1. E \in SUBSET Nat  BY <2>1
      <4> HIDE DEF E
      <4>2. \E t \in E : \A u \in E : t <= u  BY <2>3, <4>1, Least, Zenon
      <4> QED  BY <4>2 DEF first
    <3> HIDE DEF first
    <3>3. <<first>> \in Seq(1 .. Len(Transitions[n]))  BY <2>1, <3>2
    <3> QED  BY <3>1, <3>3 DEF Firing
  <2> QED  BY <2>2, <2>3
<1>2. CASE n \in Nets /\ n \notin Machines
  <2>1. Evaluate(n, in, view) = NetEvaluate(n, in, view)  BY <1>2 DEF Evaluate
  <2> QED  BY <1>2, <2>1, NetFires
<1> QED  BY <1>1, <1>2 DEF Nodes

-----------------------------------------------------------------------------
(***************************************************************************)
(* The queue of deferred actions.                                          *)
(***************************************************************************)

(* The queue holds what was offered, up to its capacity.                   *)
QueueBounded ==
  /\ queue \in Seq(Entries)
  /\ asked \in Nat
  /\ Len(queue) = IF asked <= Capacity THEN asked ELSE Capacity

(* Until it is sorted it is in the order in which the entries came.        *)
Waiting ==
  phase # "run" =>
    /\ sorted = 0 /\ ran = <<>>
    /\ \A i \in DOMAIN queue : queue[i].id = i

(* By priority, first come first served among equals.                      *)
RunsFirst(e, f) ==
  e.priority > f.priority \/ (e.priority = f.priority /\ e.id < f.id)

(* While it is run: the entries the dispatch found are first, in the order *)
(* of the sort, what the actions enqueue follows, and the entries before   *)
(* the index have run.                                                     *)
BeingRun ==
  phase = "run" =>
    /\ sorted \in 0 .. Len(queue)
    /\ at \in 1 .. Len(queue) + 1
    /\ ran \in Seq(Entries) /\ Len(ran) = at - 1
    /\ \A i \in DOMAIN ran : ran[i] = queue[i]
    /\ \A i \in 1 .. sorted : queue[i].id \in 1 .. sorted
    /\ \A id \in 1 .. sorted : \E i \in 1 .. sorted : queue[i].id = id
    /\ \A i \in DOMAIN queue : i > sorted => queue[i].id = i
    /\ \A i, j \in 1 .. sorted : i < j => RunsFirst(queue[i], queue[j])

(* The nodes that have proposed something in this tick.                    *)
Evaluated ==
  IF phase = "evaluate" THEN {order[i] : i \in 1 .. at - 1}
  ELSE IF phase \in {"commit", "dispatch", "run"} THEN ToSet(order)
  ELSE {}

Same(e, n, t) == e.node = n /\ e.transition = t

(* A transition's action is in the queue once, and only in the tick its    *)
(* node fired in; and unless the queue was full, it is there.              *)
HoldsTheFired ==
  /\ \A k \in DOMAIN queue : queue[k].transition # 0 => queue[k].node \in Evaluated
  /\ \A k, l \in DOMAIN queue :
       k # l /\ queue[k].transition # 0 =>
         ~ Same(queue[l], queue[k].node, queue[k].transition)
  /\ asked <= Capacity =>
       \A n \in Evaluated : \A t \in Acting(n) :
         t # 0 /\ \E k \in DOMAIN queue : Same(queue[k], n, t)

QueueInv == QueueBounded /\ Waiting /\ BeingRun /\ HoldsTheFired

-----------------------------------------------------------------------------
(* What enqueueing leaves: the entries there were, and new ones behind.    *)
Grows ==
  /\ QueueBounded'
  /\ Len(queue) <= Len(queue') /\ asked <= asked'
  /\ \A i \in DOMAIN queue : i \in DOMAIN queue' /\ queue'[i] = queue[i]
  /\ \A i \in DOMAIN queue' : i > Len(queue) => queue'[i].id = i

Requested == [node : Nodes, transition : Nat, priority : 0 .. 3]

LEMMA OfferGrows ==
  ASSUME QueueBounded, NEW k \in Nat, NEW actions \in [1 .. k -> Requested], Offer(actions)
  PROVE  /\ Grows
         /\ \A i \in DOMAIN queue' : i > Len(queue) =>
              /\ i - Len(queue) \in 1 .. k
              /\ queue'[i] = Entry(actions, i - Len(queue))
         /\ asked' <= Capacity => Len(queue') = Len(queue) + k
<1> DEFINE n     == Len(queue)
           taken == IF n + k <= Capacity THEN k ELSE Capacity - n
           new   == [i \in 1 .. taken |-> Entry(actions, i)]
<1>1. /\ queue \in Seq(Entries) /\ n \in 0 .. Capacity /\ asked \in Nat /\ Capacity \in Nat
      /\ n = IF asked <= Capacity THEN asked ELSE Capacity
  BY CapacityAssumption DEF QueueBounded
<1>2. actions \in Seq(Requested) /\ Len(actions) = k  OBVIOUS
<1>3. taken \in 0 .. k /\ n + taken <= Capacity  BY <1>1
<1>4. Taken(actions) = 1 .. taken  BY <1>1, <1>2 DEF Taken
<1>5. queue' = queue \o new /\ asked' = asked + k
  BY <1>2, <1>4 DEF Offer
<1>6. ASSUME NEW i \in 1 .. taken  PROVE Entry(actions, i) \in Entries
  <2>1. actions[i] \in Requested  BY <1>3
  <2>2. n + i \in Nat  BY <1>1, <1>3
  <2> QED  BY <2>1, <2>2 DEF Entry, Entries, Requested
<1>7. asked' \in Nat /\ n + taken = IF asked' <= Capacity THEN asked' ELSE Capacity
  BY <1>1, <1>5
<1>8. asked' <= Capacity => taken = k  BY <1>1, <1>5
<1> HIDE DEF taken, n
<1>9. new \in Seq(Entries) /\ Len(new) = taken
  <2>1. new \in [1 .. taken -> Entries]  BY <1>6
  <2> QED  BY <1>3, <2>1
<1>10. queue' \in Seq(Entries) /\ Len(queue') = n + taken
  <2> HIDE DEF new
  <2>1. queue \o new \in Seq(Entries) /\ Len(queue \o new) = Len(queue) + Len(new)
    BY <1>1, <1>9, ConcatProperties
  <2> QED  BY <1>5, <1>9, <2>1 DEF n
<1>11. \A i \in DOMAIN queue : i \in DOMAIN queue' /\ queue'[i] = queue[i]
  <2> HIDE DEF new
  <2> QED  BY <1>1, <1>3, <1>5, <1>9, <1>10 DEF n
<1>12. ASSUME NEW i \in DOMAIN queue', i > n
       PROVE  i - n \in 1 .. k /\ queue'[i] = Entry(actions, i - n)
  <2>1. i \in 1 .. n + taken  BY <1>10
  <2>2. i - n \in 1 .. taken  BY <1>1, <1>3, <1>12, <2>1
  <2>3. queue'[i] = new[i - n]
    <3> HIDE DEF new
    <3> QED  BY <1>1, <1>5, <1>9, <1>12, <2>1 DEF n
  <2> QED  BY <1>3, <2>2, <2>3
<1>13. \A i \in DOMAIN queue' : i > n => queue'[i].id = i
  <2> SUFFICES ASSUME NEW i \in DOMAIN queue', i > n  PROVE queue'[i].id = i
    OBVIOUS
  <2>1. i \in Int  BY <1>10
  <2>2. queue'[i].id = n + (i - n)  BY <1>12 DEF Entry, n
  <2> QED  BY <1>1, <2>1, <2>2
<1>14. QueueBounded'  BY <1>5, <1>7, <1>10 DEF QueueBounded
<1>15. n <= n + taken /\ asked <= asked'  BY <1>1, <1>3, <1>5
<1> QED
  BY <1>8, <1>10, <1>11, <1>12, <1>13, <1>14, <1>15 DEF Grows, n

(* What the application enqueues is not a transition's action.             *)
LEMMA CallbackGrows ==
  ASSUME QueueBounded, NEW n \in Nodes, Callback(n)
  PROVE  /\ Grows
         /\ \A i \in DOMAIN queue' : i > Len(queue) => queue'[i].transition = 0
<1>1. PICK request \in Requests[n] :
        Offer([i \in DOMAIN request |-> Action(n, 0, request[i])])
  BY DEF Callback
<1> DEFINE k == Len(request)
           actions == [i \in 1 .. k |-> Action(n, 0, request[i])]
<1>2. request \in Seq(0 .. 3)  BY RequestsAssumption
<1>3. k \in Nat /\ DOMAIN request = 1 .. k /\ \A i \in 1 .. k : request[i] \in 0 .. 3
  BY <1>2
<1>4. Offer(actions)  BY <1>1, <1>3
<1> HIDE DEF k
<1>5. actions \in [1 .. k -> Requested]  BY <1>3 DEF Action, Requested
<1>6. \A i \in 1 .. k : actions[i].transition = 0  BY DEF Action
<1> HIDE DEF actions
<1>7. /\ Grows
      /\ \A i \in DOMAIN queue' : i > Len(queue) =>
           i - Len(queue) \in 1 .. k /\ queue'[i] = Entry(actions, i - Len(queue))
  BY <1>3, <1>4, <1>5, OfferGrows
<1> QED  BY <1>6, <1>7 DEF Entry

(* The actions of an evaluation: of each acting transition, once.          *)
LEMMA ActionsOfFired ==
  ASSUME NEW n \in Nodes, NEW fired, Firing(n, fired)
  PROVE  \E k \in Nat :
           /\ ActionsOf(n, fired) \in [1 .. k -> Requested]
           /\ \A i \in 1 .. k : /\ ActionsOf(n, fired)[i].node = n
                                /\ ActionsOf(n, fired)[i].transition # 0
           /\ \A i, j \in 1 .. k : i # j =>
                ActionsOf(n, fired)[i].transition # ActionsOf(n, fired)[j].transition
           /\ \A t \in ToSet(fired) : Transitions[n][t].action =>
                t # 0 /\ \E i \in 1 .. k : ActionsOf(n, fired)[i].transition = t
<1> DEFINE S == {i \in DOMAIN fired : Transitions[n][fired[i]].action}
           A == Ascending(S)
           k == Len(A)
<1>1. /\ fired \in Seq(1 .. Len(Transitions[n]))
      /\ \A i, j \in DOMAIN fired : i # j => fired[i] # fired[j]
      /\ Len(Transitions[n]) \in Nat
  BY TransitionList DEF Firing
<1>2. Len(fired) \in Nat /\ DOMAIN fired = 1 .. Len(fired)  BY <1>1
<1>3. S \in SUBSET (1 .. Len(fired))  BY <1>2
<1>4. ActionsOf(n, fired) = [i \in DOMAIN A |-> Action(n, fired[A[i]], NORMAL)]
  BY DEF ActionsOf
<1>5. /\ A \in Seq(S)
      /\ \A x \in S : \E i \in DOMAIN A : A[i] = x
      /\ \A i, j \in DOMAIN A : i # j => A[i] # A[j]
  <2> HIDE DEF S
  <2> QED  BY <1>2, <1>3, AscendingFacts
<1> HIDE DEF A
<1>6. k \in Nat /\ DOMAIN A = 1 .. k /\ \A i \in 1 .. k : A[i] \in S  BY <1>5
<1> HIDE DEF k
<1>7. \A i \in 1 .. k : fired[A[i]] \in Nat \ {0}  BY <1>1, <1>6
<1>8. ActionsOf(n, fired) \in [1 .. k -> Requested]
  <2>1. \A i \in 1 .. k : Action(n, fired[A[i]], NORMAL) \in Requested
    BY <1>7 DEF Action, Requested, NORMAL
  <2> QED  BY <1>4, <1>6, <2>1
<1>9. \A i \in 1 .. k : /\ ActionsOf(n, fired)[i].node = n
                        /\ ActionsOf(n, fired)[i].transition = fired[A[i]]
  BY <1>4, <1>6 DEF Action
<1>10. ASSUME NEW i \in 1 .. k, NEW j \in 1 .. k, i # j
       PROVE  fired[A[i]] # fired[A[j]]
  <2> DEFINE x == A[i]
             y == A[j]
  <2>1. x # y  BY <1>5, <1>6, <1>10
  <2>2. x \in DOMAIN fired /\ y \in DOMAIN fired  BY <1>2, <1>3, <1>6
  <2> HIDE DEF x, y
  <2>3. fired[x] # fired[y]  BY <1>1, <2>1, <2>2, Zenon
  <2> QED  BY <2>3 DEF x, y
<1>11. ASSUME NEW t \in ToSet(fired), Transitions[n][t].action
       PROVE  t # 0 /\ \E i \in 1 .. k : fired[A[i]] = t
  <2>1. PICK i \in DOMAIN fired : t = fired[i]  BY DEF ToSet
  <2>2. i \in S  BY <1>11, <2>1
  <2> QED  BY <1>1, <1>5, <1>6, <2>1, <2>2, SMTT(30)
<1> DEFINE B == ActionsOf(n, fired)
<1>12. \A i \in 1 .. k : B[i].node = n /\ B[i].transition # 0  BY <1>7, <1>9
<1>13. \A i, j \in 1 .. k : i # j => B[i].transition # B[j].transition  BY <1>9, <1>10
<1>14. \A t \in ToSet(fired) : Transitions[n][t].action =>
         t # 0 /\ \E i \in 1 .. k : B[i].transition = t
  BY <1>9, <1>11
<1>15. B \in [1 .. k -> Requested]  BY <1>8
<1> QED  BY <1>6, <1>12, <1>13, <1>14, <1>15, Zenon

-----------------------------------------------------------------------------
(* A callback outside the ticks' evaluations and dispatch.                 *)
LEMMA OutsideKeeps ==
  ASSUME QueueInv, Grows, UNCHANGED <<sorted, ran>>,
         phase # "run", phase' # "run", Evaluated = {}, Evaluated' = {},
         \A i \in DOMAIN queue' : i > Len(queue) => queue'[i].transition = 0
  PROVE  QueueInv'
<1>1. queue \in Seq(Entries) /\ queue' \in Seq(Entries)
  BY DEF QueueInv, QueueBounded, Grows
<1>2. \A i \in DOMAIN queue' : i \in DOMAIN queue \/ i > Len(queue)  BY <1>1
<1>3. \A i \in DOMAIN queue' : queue'[i].transition = 0
  BY <1>2 DEF QueueInv, HoldsTheFired, Grows
<1>4. HoldsTheFired'  BY <1>3 DEF HoldsTheFired, Same
<1>5. Waiting'  BY <1>2 DEF QueueInv, Waiting, Grows
<1>6. QueueBounded' /\ BeingRun'  BY DEF Grows, BeingRun
<1> QED  BY <1>4, <1>5, <1>6 DEF QueueInv

(* A node that evaluates adds the actions of what it fires, each of them   *)
(* once, and none of them was there before.                                *)
LEMMA EvaluateHolds ==
  ASSUME TickInv, QueueInv, EvaluateNode
  PROVE  QueueInv'
<1>1. /\ order \in ActiveLists /\ order' = order /\ at \in 1 .. Len(order)
      /\ phase = "evaluate" /\ phase' \in {"evaluate", "commit"}
  BY DEF EvaluateNode, Advance, TickInv, InList, Looping
<1>2. PICK here \in Nodes : here = Current
  BY <1>1, Listed DEF Current
<1>3. PICK e : e = Evaluate(here, latched[here], state)
  OBVIOUS
<1>4. /\ proposed' = [proposed EXCEPT ![here] = e] /\ UNCHANGED <<sorted, ran>>
      /\ Offer(ActionsOf(here, e.fired))
  BY <1>2, <1>3 DEF EvaluateNode
<1>5. Firing(here, e.fired)  BY <1>3, Fired
<1>6. Len(order) \in Nat \ {0}  BY <1>1, Listed
<1>7. \/ phase' = "evaluate" /\ at' = at + 1
      \/ phase' = "commit" /\ at = Len(order)
  BY <1>1 DEF EvaluateNode, Advance
<1>8. Evaluated = {order[i] : i \in 1 .. at - 1}  BY <1>1 DEF Evaluated
<1>9. Evaluated' = {order[i] : i \in 1 .. at}
  <2>1. CASE phase' = "evaluate" /\ at' = at + 1
    <3>1. at' - 1 = at  BY <1>1, <1>6, <2>1
    <3> QED  BY <1>1, <2>1, <3>1 DEF Evaluated
  <2>2. CASE phase' = "commit" /\ at = Len(order)
    BY <1>1, <2>2, Listed DEF Evaluated
  <2> QED  BY <1>7, <2>1, <2>2
<1>10. here \notin Evaluated /\ Evaluated' = Evaluated \cup {here}
  <2>1. here = order[at]  BY <1>2 DEF Current
  <2>2. \A i \in 1 .. at - 1 : order[i] # order[at]  BY <1>1, <1>6, Listed
  <2>3. 1 .. at = (1 .. at - 1) \cup {at}  BY <1>1, <1>6
  <2> QED  BY <1>8, <1>9, <2>1, <2>2, <2>3
<1>11. Evaluated \in SUBSET Nodes  BY <1>1, <1>6, <1>8, Listed
<1>12. /\ \A n \in Evaluated : Acting(n)' = Acting(n)
       /\ Acting(here)' = {t \in ToSet(e.fired) : Transitions[here][t].action}
  <2>1. proposed = [n \in Nodes |-> proposed[n]]  BY DEF TickInv, NodeFunctions
  <2>2. proposed'[here] = e /\ \A n \in Evaluated : proposed'[n] = proposed[n]
    BY <1>2, <1>4, <1>10, <1>11, <2>1
  <2> QED  BY <2>2 DEF Acting
<1> DEFINE n       == Len(queue)
           actions == ActionsOf(here, e.fired)
<1>13. PICK k \in Nat :
         /\ actions \in [1 .. k -> Requested]
         /\ \A i \in 1 .. k : actions[i].node = here /\ actions[i].transition # 0
         /\ \A i, j \in 1 .. k : i # j => actions[i].transition # actions[j].transition
         /\ \A t \in ToSet(e.fired) : Transitions[here][t].action =>
              t # 0 /\ \E i \in 1 .. k : actions[i].transition = t
  BY <1>5, ActionsOfFired
<1> HIDE DEF actions
<1>14. Offer(actions)  BY <1>4 DEF actions
<1>15. /\ Grows
       /\ \A i \in DOMAIN queue' : i > n =>
            i - n \in 1 .. k /\ queue'[i] = Entry(actions, i - n)
       /\ asked' <= Capacity => Len(queue') = n + k
  BY <1>13, <1>14, OfferGrows DEF QueueInv
<1>16. /\ queue \in Seq(Entries) /\ queue' \in Seq(Entries)
       /\ asked \in Nat /\ asked' \in Nat /\ asked <= asked'
       /\ n \in Nat /\ DOMAIN queue = 1 .. n
       /\ \A i \in DOMAIN queue : i \in DOMAIN queue' /\ queue'[i] = queue[i]
       /\ \A i \in DOMAIN queue' : i \in Nat /\ (i \in DOMAIN queue \/ i > n)
  BY <1>15 DEF QueueInv, QueueBounded, Grows
<1>17. \A i \in DOMAIN queue' : i > n =>
         /\ i - n \in 1 .. k /\ queue'[i].node = here /\ queue'[i].transition # 0
         /\ queue'[i].transition = actions[i - n].transition
  BY <1>13, <1>15 DEF Entry
<1>18. \A i \in DOMAIN queue' : i \in DOMAIN queue =>
         queue'[i] = queue[i] /\ (queue'[i].transition # 0 => queue'[i].node \in Evaluated)
  BY <1>16 DEF QueueInv, HoldsTheFired
<1> HIDE DEF n
<1>19. \A i, j \in DOMAIN queue' : i # j /\ queue'[i].transition # 0 =>
         ~ Same(queue'[j], queue'[i].node, queue'[i].transition)
  <2> SUFFICES ASSUME NEW i \in DOMAIN queue', NEW j \in DOMAIN queue', i # j,
                      queue'[i].transition # 0,
                      Same(queue'[j], queue'[i].node, queue'[i].transition)
               PROVE  FALSE
    OBVIOUS
  <2>1. queue'[j].node = queue'[i].node /\ queue'[j].transition = queue'[i].transition
    BY DEF Same
  <2>2. CASE i \in DOMAIN queue /\ j \in DOMAIN queue
    BY <1>18, <2>1, <2>2 DEF QueueInv, HoldsTheFired, Same
  <2>3. CASE i > n /\ j > n
    <3>1. i - n \in 1 .. k /\ j - n \in 1 .. k /\ i - n # j - n  BY <1>16, <1>17, <2>3
    <3> QED  BY <1>13, <1>17, <2>1, <2>3, <3>1
  <2>4. CASE (i \in DOMAIN queue /\ j > n) \/ (j \in DOMAIN queue /\ i > n)
    BY <1>10, <1>17, <1>18, <2>1, <2>4
  <2> QED  BY <1>16, <2>2, <2>3, <2>4
<1>20. ASSUME asked' <= Capacity, NEW m \in Evaluated', NEW t \in Acting(m)'
       PROVE  t # 0 /\ \E i \in DOMAIN queue' : Same(queue'[i], m, t)
  <2>1. CASE m \in Evaluated
    <3>1. asked <= Capacity  BY <1>16, <1>20, CapacityAssumption
    <3>2. t \in Acting(m)  BY <1>12, <1>20, <2>1
    <3>3. t # 0 /\ \E i \in DOMAIN queue : Same(queue[i], m, t)
      BY <2>1, <3>1, <3>2 DEF QueueInv, HoldsTheFired
    <3> QED  BY <1>16, <3>3
  <2>2. CASE m = here
    <3>1. t \in ToSet(e.fired) /\ Transitions[here][t].action  BY <1>12, <1>20, <2>2
    <3>2. t # 0 /\ \E i \in 1 .. k : actions[i].transition = t  BY <1>13, <3>1
    <3>3. PICK i \in 1 .. k : actions[i].transition = t  BY <3>2
    <3>4. n + i \in DOMAIN queue' /\ n + i > n /\ (n + i) - n = i
      BY <1>15, <1>16, <1>20
    <3>5. Same(queue'[n + i], m, t)  BY <1>17, <2>2, <3>3, <3>4 DEF Same
    <3> QED  BY <3>2, <3>4, <3>5
  <2> QED  BY <1>10, <2>1, <2>2
<1>21. HoldsTheFired'
  <2>1. \A i \in DOMAIN queue' : queue'[i].transition # 0 => queue'[i].node \in Evaluated'
    BY <1>10, <1>16, <1>17, <1>18
  <2> QED  BY <1>19, <1>20, <2>1 DEF HoldsTheFired, Same
<1>22. Waiting'
  BY <1>1, <1>4, <1>15, <1>16 DEF QueueInv, Waiting, Grows, n
<1>23. QueueBounded' /\ BeingRun'  BY <1>1, <1>15 DEF Grows, BeingRun
<1> QED  BY <1>21, <1>22, <1>23 DEF QueueInv

(* The sort moves each entry once, and puts those of higher priority and,  *)
(* among equals, the older ones first.                                     *)
LEMMA SortKeeps ==
  ASSUME QueueInv, SortQueue
  PROVE  QueueInv'
<1> DEFINE n == Len(queue)
<1>1. /\ phase = "dispatch" /\ phase' = "run" /\ at' = 1 /\ sorted' = n
      /\ queue' = SortDescending(queue)
      /\ UNCHANGED <<order, latched, state, proposed, ran, asked>>
  BY DEF SortQueue, nodeVars
<1>2. /\ queue \in Seq(Entries) /\ n \in Nat /\ DOMAIN queue = 1 .. n
      /\ ran = <<>> /\ \A i \in 1 .. n : queue[i].id = i
  BY <1>1 DEF QueueInv, QueueBounded, Waiting
<1>3. \A i \in DOMAIN queue : queue[i].priority \in Int
  <2>1. \A i \in DOMAIN queue : queue[i] \in Entries  BY <1>2
  <2>2. \A entry \in Entries : entry.priority \in Int  BY DEF Entries
  <2> QED  BY <2>1, <2>2
<1>4. /\ queue' \in Seq(Entries) /\ Len(queue') = n /\ DOMAIN queue' = 1 .. n
      /\ \E from \in [DOMAIN queue -> DOMAIN queue] : SortedFrom(queue, from)
  BY <1>1, <1>2, <1>3, SortFacts
<1>5. PICK from \in [1 .. n -> 1 .. n] : SortedFrom(queue, from)  BY <1>2, <1>4
<1>6. /\ \A i \in 1 .. n : from[i] \in 1 .. n /\ queue'[i] = queue[from[i]]
      /\ \A id \in 1 .. n : \E i \in 1 .. n : from[i] = id
      /\ \A i, j \in 1 .. n : i < j => GoesFirst(queue, from[i], from[j])
      /\ \A i, j \in 1 .. n : i # j => from[i] # from[j]
  <2>1. DOMAIN queue = 1 .. n  BY <1>2
  <2> HIDE DEF n
  <2> QED  BY <1>1, <1>5, <2>1 DEF SortedFrom
<1>7. \A i \in 1 .. n : queue'[i].id = from[i]  BY <1>2, <1>6
<1> HIDE DEF n
<1>8. BeingRun'
  <2>1. \A i, j \in 1 .. n : i < j => RunsFirst(queue'[i], queue'[j])
    <3> TAKE i, j \in 1 .. n
    <3> HAVE i < j
    <3>1. GoesFirst(queue, from[i], from[j])  BY <1>6
    <3>2. from[i] \in 1 .. n /\ from[j] \in 1 .. n  BY <1>6
    <3>3. /\ queue'[i].id = from[i] /\ queue'[j].id = from[j]
          /\ queue'[i].priority = queue[from[i]].priority
          /\ queue'[j].priority = queue[from[j]].priority
      BY <1>6, <1>7
    <3> QED  BY <3>1, <3>2, <3>3 DEF GoesFirst, RunsFirst
  <2>2. ran' = <<>> /\ ran' \in Seq(Entries) /\ Len(ran') = 0 /\ DOMAIN ran' = {}
    BY <1>1, <1>2
  <2>3. at' \in 1 .. n + 1 /\ n \in 0 .. n /\ Len(ran') = at' - 1
    BY <1>1, <1>2, <2>2
  <2>4. \A i \in 1 .. n : ~ (i > n)  BY <1>2
  <2>5. /\ \A i \in 1 .. n : queue'[i].id \in 1 .. n
        /\ \A id \in 1 .. n : \E i \in 1 .. n : queue'[i].id = id
    BY <1>6, <1>7, SMTT(30)
  <2> QED  BY <1>1, <1>4, <2>1, <2>2, <2>3, <2>4, <2>5 DEF BeingRun
<1>9. QueueBounded'  BY <1>1, <1>4 DEF QueueInv, QueueBounded, n
<1>10. HoldsTheFired'
  <2>1. Evaluated' = Evaluated /\ \A m : Acting(m)' = Acting(m)
    BY <1>1 DEF Evaluated, Acting
  <2>2. \A i \in 1 .. n : queue'[i].transition # 0 => queue'[i].node \in Evaluated
    <3>1. \A i \in 1 .. n : queue[i].transition # 0 => queue[i].node \in Evaluated
      BY <1>2 DEF QueueInv, HoldsTheFired
    <3> QED  BY <1>6, <3>1, SMTT(30)
  <2>3. ASSUME NEW i \in 1 .. n, NEW j \in 1 .. n, i # j, queue'[i].transition # 0
        PROVE  ~ Same(queue'[j], queue'[i].node, queue'[i].transition)
    <3>1. from[i] # from[j] /\ from[i] \in DOMAIN queue /\ from[j] \in DOMAIN queue
      BY <1>2, <1>6, <2>3
    <3>2. queue'[i] = queue[from[i]] /\ queue'[j] = queue[from[j]]  BY <1>6, <2>3
    <3>3. queue[from[i]].transition # 0  BY <2>3, <3>2
    <3>4. ~ Same(queue[from[j]], queue[from[i]].node, queue[from[i]].transition)
      BY <3>1, <3>3 DEF QueueInv, HoldsTheFired
    <3> QED  BY <3>2, <3>4
  <2>4. ASSUME asked <= Capacity, NEW m \in Evaluated, NEW t \in Acting(m)
        PROVE  t # 0 /\ \E i \in 1 .. n : Same(queue'[i], m, t)
    <3>1. t # 0 /\ \E k \in DOMAIN queue : Same(queue[k], m, t)
      BY <2>4 DEF QueueInv, HoldsTheFired
    <3>2. PICK k \in 1 .. n : Same(queue[k], m, t)  BY <1>2, <3>1
    <3>3. PICK i \in 1 .. n : from[i] = k  BY <1>6
    <3> QED  BY <1>6, <3>1, <3>2, <3>3
  <2> QED  BY <1>1, <1>4, <2>1, <2>2, <2>3, <2>4 DEF HoldsTheFired, Same
<1>11. Waiting'  BY <1>1 DEF Waiting
<1> QED  BY <1>8, <1>9, <1>10, <1>11 DEF QueueInv

(* An action that runs leaves the queue as it is and may add to it.        *)
LEMMA RunKeeps ==
  ASSUME QueueInv, RunAction
  PROVE  QueueInv'
<1> DEFINE n == Len(queue)
<1>1. /\ phase = "run" /\ phase' = "run" /\ at <= n /\ at' = at + 1
      /\ ran' = Append(ran, queue[at]) /\ sorted' = sorted
      /\ UNCHANGED <<order, latched, state, proposed>>
  BY DEF RunAction, nodeVars
<1>2. /\ queue \in Seq(Entries) /\ n \in Nat /\ DOMAIN queue = 1 .. n /\ asked \in Nat
      /\ sorted \in 0 .. n /\ at \in 1 .. n + 1 /\ ran \in Seq(Entries) /\ Len(ran) = at - 1
      /\ \A i \in DOMAIN ran : ran[i] = queue[i]
  BY <1>1 DEF QueueInv, QueueBounded, BeingRun
<1>3. queue[at] \in Entries  BY <1>1, <1>2
<1>4. PICK source \in Nodes : source = queue[at].node  BY <1>3 DEF Entries
<1>5. Callback(source)  BY <1>4 DEF RunAction
<1>6. Grows /\ \A i \in DOMAIN queue' : i > n => queue'[i].transition = 0
  BY <1>5, CallbackGrows DEF QueueInv
<1>7. /\ queue' \in Seq(Entries) /\ Len(queue') \in Nat /\ n <= Len(queue')
      /\ DOMAIN queue' = 1 .. Len(queue') /\ asked' \in Nat /\ asked <= asked'
      /\ \A i \in 1 .. n : queue'[i] = queue[i]
      /\ \A i \in DOMAIN queue' : i > n => queue'[i].id = i
  <2>1. queue' \in Seq(Entries) /\ asked' \in Nat  BY <1>6 DEF Grows, QueueBounded
  <2>2. Len(queue') \in Nat /\ DOMAIN queue' = 1 .. Len(queue')  BY <2>1
  <2>3. n <= Len(queue') /\ asked <= asked'  BY <1>6 DEF Grows
  <2>4. \A i \in 1 .. n : queue'[i] = queue[i]  BY <1>2, <1>6 DEF Grows
  <2>5. \A i \in DOMAIN queue' : i > n => queue'[i].id = i  BY <1>6 DEF Grows
  <2> QED  BY <2>1, <2>2, <2>3, <2>4, <2>5
<1> HIDE DEF n
<1>8. BeingRun'
  <2>1. /\ ran' \in Seq(Entries) /\ Len(ran') = at' - 1
        /\ \A i \in DOMAIN ran' : ran'[i] = queue'[i]
    <3>1. ran' \in Seq(Entries) /\ Len(ran') = at /\ DOMAIN ran' = 1 .. at
      BY <1>1, <1>2, <1>3
    <3>2. \A i \in 1 .. at : ran'[i] = queue[i]
      BY <1>1, <1>2, <1>3
    <3> QED  BY <1>1, <1>2, <1>7, <3>1, <3>2
  <2>2. /\ sorted' \in 0 .. Len(queue') /\ at' \in 1 .. Len(queue') + 1
        /\ \A i \in 1 .. sorted : i \in 1 .. n /\ queue'[i] = queue[i]
    BY <1>1, <1>2, <1>7
  <2>3. /\ \A i \in 1 .. sorted : queue[i].id \in 1 .. sorted
        /\ \A id \in 1 .. sorted : \E i \in 1 .. sorted : queue[i].id = id
        /\ \A i \in 1 .. n : i > sorted => queue[i].id = i
        /\ \A i, j \in 1 .. sorted : i < j => RunsFirst(queue[i], queue[j])
    BY <1>1, <1>2 DEF QueueInv, BeingRun
  <2>4. \A i \in DOMAIN queue' : i > sorted => queue'[i].id = i
    BY <1>2, <1>7, <2>3
  <2>5. \A i, j \in 1 .. sorted : i < j => RunsFirst(queue'[i], queue'[j])
    BY <2>2, <2>3
  <2> QED  BY <1>1, <2>1, <2>2, <2>3, <2>4, <2>5 DEF BeingRun
<1>9. HoldsTheFired'
  <2>1. Evaluated' = Evaluated /\ \A m : Acting(m)' = Acting(m)
    BY <1>1 DEF Evaluated, Acting
  <2>2. \A i \in DOMAIN queue' : queue'[i].transition # 0 => i \in DOMAIN queue
    BY <1>2, <1>6, <1>7
  <2>3. \A i \in DOMAIN queue : i \in DOMAIN queue' /\ queue'[i] = queue[i]
    BY <1>2, <1>7
  <2>4. \A i \in DOMAIN queue' : queue'[i].transition # 0 => queue'[i].node \in Evaluated
    BY <2>2, <2>3 DEF QueueInv, HoldsTheFired
  <2>5. ASSUME NEW i \in DOMAIN queue', NEW j \in DOMAIN queue', i # j,
               queue'[i].transition # 0
        PROVE  ~ Same(queue'[j], queue'[i].node, queue'[i].transition)
    <3>1. CASE queue'[j].transition = 0  BY <2>5, <3>1 DEF Same
    <3>2. CASE queue'[j].transition # 0
      <4>1. i \in DOMAIN queue /\ j \in DOMAIN queue  BY <2>2, <2>5, <3>2
      <4> QED  BY <2>3, <2>5, <4>1 DEF QueueInv, HoldsTheFired
    <3> QED  BY <3>1, <3>2
  <2>6. asked' <= Capacity => asked <= Capacity  BY <1>2, <1>7, CapacityAssumption
  <2>7. ASSUME asked' <= Capacity, NEW m \in Evaluated, NEW t \in Acting(m)
        PROVE  t # 0 /\ \E i \in DOMAIN queue' : Same(queue'[i], m, t)
    BY <2>3, <2>6, <2>7 DEF QueueInv, HoldsTheFired
  <2> QED  BY <2>1, <2>4, <2>5, <2>7 DEF HoldsTheFired, Same
<1>10. Waiting' /\ QueueBounded'  BY <1>1, <1>6 DEF Waiting, Grows
<1> QED  BY <1>8, <1>9, <1>10 DEF QueueInv

LEMMA QueueInit == Init => QueueInv
<1> SUFFICES ASSUME Init  PROVE QueueInv
  OBVIOUS
<1>1. phase = "idle" /\ queue = <<>> /\ sorted = 0 /\ ran = <<>> /\ asked = 0
  BY DEF Init
<1>2. DOMAIN queue = {} /\ queue \in Seq(Entries) /\ Len(queue) = 0  BY <1>1
<1>3. Evaluated = {}  BY <1>1 DEF Evaluated
<1> QED
  BY <1>1, <1>2, <1>3, CapacityAssumption
     DEF QueueInv, QueueBounded, Waiting, BeingRun, HoldsTheFired

LEMMA QueueStep ==
  ASSUME TickInv, QueueInv, [Next]_vars
  PROVE  QueueInv'
<1>1. CASE StartTick
  <2>1. phase = "idle" /\ phase' = "latch" /\ UNCHANGED <<queue, sorted, ran, asked>>
    BY <1>1 DEF StartTick, queueVars
  <2>2. Evaluated = {} /\ Evaluated' = {}  BY <2>1 DEF Evaluated
  <2> QED
    BY <2>1, <2>2 DEF QueueInv, QueueBounded, Waiting, BeingRun, HoldsTheFired
<1>2. CASE Latch \/ Dump
  <2>1. /\ order \in ActiveLists /\ at \in 1 .. Len(order) /\ UNCHANGED <<order, sorted, ran>>
        /\ phase \in {"latch", "dump"} /\ Callback(Current)
        /\ phase' \in {"latch", "dump", "idle"} \/ (phase' = "evaluate" /\ at' = 1)
    BY <1>2 DEF Latch, Dump, Advance, TickInv, InList, Looping
  <2>2. PICK source \in Nodes : source = Current  BY <2>1, Listed DEF Current
  <2>3. Grows /\ \A i \in DOMAIN queue' : i > Len(queue) => queue'[i].transition = 0
    BY <2>1, <2>2, CallbackGrows DEF QueueInv
  <2>4. Evaluated = {} /\ Evaluated' = {}  BY <2>1 DEF Evaluated
  <2>5. phase # "run" /\ phase' # "run"  BY <2>1
  <2> QED  BY <2>1, <2>3, <2>4, <2>5, OutsideKeeps
<1>3. CASE EvaluateNode  BY <1>3, EvaluateHolds
<1>4. CASE CommitNode
  <2>1. /\ phase = "commit" /\ phase' \in {"commit", "dispatch"}
        /\ UNCHANGED <<order, proposed, queue, sorted, ran, asked>>
    BY <1>4 DEF CommitNode, Advance, queueVars
  <2>2. Evaluated' = Evaluated /\ \A n : Acting(n)' = Acting(n)
    BY <2>1 DEF Evaluated, Acting
  <2> QED
    BY <2>1, <2>2 DEF QueueInv, QueueBounded, Waiting, BeingRun, HoldsTheFired
<1>5. CASE SortQueue  BY <1>5, SortKeeps
<1>6. CASE RunAction  BY <1>6, RunKeeps
<1>7. CASE ClearQueue
  <2>1. phase' = "dump" /\ queue' = <<>> /\ sorted' = 0 /\ ran' = <<>> /\ asked' = 0
    BY <1>7 DEF ClearQueue
  <2>2. DOMAIN queue' = {} /\ queue' \in Seq(Entries) /\ Len(queue') = 0  BY <2>1
  <2>3. Evaluated' = {}  BY <2>1 DEF Evaluated
  <2> QED
    BY <2>1, <2>2, <2>3, CapacityAssumption
       DEF QueueInv, QueueBounded, Waiting, BeingRun, HoldsTheFired
<1>8. CASE UNCHANGED vars
  <2>1. Evaluated' = Evaluated /\ \A n : Acting(n)' = Acting(n)
    BY <1>8 DEF vars, nodeVars, Evaluated, Acting
  <2> QED
    BY <1>8, <2>1
       DEF vars, nodeVars, queueVars, QueueInv, QueueBounded, Waiting, BeingRun, HoldsTheFired
<1> QED
  BY <1>1, <1>2, <1>3, <1>4, <1>5, <1>6, <1>7, <1>8 DEF Next

(* The inductive invariant of the tick and its queue.                      *)
THEOREM QueueInvariant == Spec => [](TickInv /\ QueueInv)
<1>1. Init => TickInv /\ QueueInv  BY TickInit, QueueInit
<1>2. TickInv /\ QueueInv /\ [Next]_vars => (TickInv /\ QueueInv)'
  BY TickStep, QueueStep
<1> QED  BY <1>1, <1>2, PTL DEF Spec

(* RunOrder: actions run by descending priority and, among equals, in the  *)
(* order in which they were enqueued; what the actions enqueue themselves  *)
(* follows (sort_deferred_descending, rx_context_run_deferred_actions).    *)
THEOREM ActionsRunInOrder == Spec => []RunOrder
<1>1. ASSUME QueueInv, phase = "run"  PROVE RunOrder
  <2>1. /\ queue \in Seq(Entries) /\ sorted \in 0 .. Len(queue) /\ ran \in Seq(Entries)
        /\ at \in 1 .. Len(queue) + 1 /\ Len(ran) = at - 1
        /\ \A i \in DOMAIN ran : ran[i] = queue[i]
        /\ \A i \in 1 .. sorted : queue[i].id \in 1 .. sorted
        /\ \A i \in DOMAIN queue : i > sorted => queue[i].id = i
        /\ \A i, j \in 1 .. sorted : i < j => RunsFirst(queue[i], queue[j])
    BY <1>1 DEF QueueInv, QueueBounded, BeingRun
  <2> SUFFICES ASSUME NEW i \in DOMAIN ran, NEW j \in DOMAIN ran, i < j
               PROVE  Before(queue[i], queue[j])
    BY <2>1 DEF RunOrder
  <2>2. i \in 1 .. Len(queue) /\ j \in 1 .. Len(queue) /\ Len(queue) \in Nat  BY <2>1
  <2>3. CASE j <= sorted
    <3>1. i \in 1 .. sorted /\ j \in 1 .. sorted  BY <2>1, <2>2, <2>3
    <3>2. RunsFirst(queue[i], queue[j]) /\ queue[i].id <= sorted /\ queue[j].id <= sorted
      BY <2>1, <3>1
    <3> QED  BY <3>2 DEF RunsFirst, Before
  <2>4. CASE i <= sorted /\ j > sorted
    <3>1. queue[i].id \in 1 .. sorted /\ queue[j].id = j  BY <2>1, <2>2, <2>4
    <3> QED  BY <2>1, <2>2, <2>4, <3>1 DEF Before
  <2>5. CASE i > sorted /\ j > sorted
    <3>1. queue[i].id = i /\ queue[j].id = j  BY <2>1, <2>2, <2>5
    <3> QED  BY <2>1, <2>2, <2>5, <3>1 DEF Before
  <2> QED  BY <2>1, <2>2, <2>3, <2>4, <2>5
<1>2. ASSUME QueueInv, phase # "run"  PROVE RunOrder
  BY <1>2 DEF QueueInv, Waiting, RunOrder
<1>3. QueueInv => RunOrder  BY <1>1, <1>2
<1> QED  BY <1>3, QueueInvariant, PTL

(* AcceptedActionsRun: when the dispatch is over, what the queue took has  *)
(* run, each entry once, and unless the queue was full every action of a   *)
(* transition that fired is among them, once.                              *)
THEOREM AcceptedActionsAreRun == Spec => AcceptedActionsRun
<1>1. ASSUME QueueInv, [Next]_vars, phase = "run", phase' # "run"
      PROVE  /\ Len(ran) = IF asked <= Capacity THEN asked ELSE Capacity
             /\ {ran[i].id : i \in DOMAIN ran} = DOMAIN ran
             /\ asked <= Capacity => EveryFiredActionRan
  <2>1. ClearQueue
    BY <1>1 DEF Next, StartTick, Latch, EvaluateNode, CommitNode, SortQueue, RunAction,
                Dump, vars
  <2>2. /\ queue \in Seq(Entries) /\ sorted \in 0 .. Len(queue) /\ ran \in Seq(Entries)
        /\ at \in 1 .. Len(queue) + 1 /\ Len(ran) = at - 1
        /\ \A i \in DOMAIN ran : ran[i] = queue[i]
        /\ \A i \in 1 .. sorted : queue[i].id \in 1 .. sorted
        /\ \A id \in 1 .. sorted : \E i \in 1 .. sorted : queue[i].id = id
        /\ \A i \in DOMAIN queue : i > sorted => queue[i].id = i
        /\ Len(queue) = IF asked <= Capacity THEN asked ELSE Capacity
    BY <1>1 DEF QueueInv, QueueBounded, BeingRun
  <2>3. at > Len(queue)  BY <2>1 DEF ClearQueue
  <2>4. /\ Len(ran) = Len(queue) /\ DOMAIN ran = 1 .. Len(queue) /\ Len(queue) \in Nat
        /\ DOMAIN queue = 1 .. Len(queue)
    BY <2>2, <2>3
  <2>5. {ran[i].id : i \in DOMAIN ran} = DOMAIN ran
    <3>1. \A i \in 1 .. Len(queue) : queue[i].id \in 1 .. Len(queue)
      <4> TAKE i \in 1 .. Len(queue)
      <4>1. i <= sorted \/ i > sorted  BY <2>2
      <4> QED  BY <2>2, <2>4, <4>1
    <3>2. \A id \in 1 .. Len(queue) : \E i \in 1 .. Len(queue) : queue[i].id = id
      <4> TAKE id \in 1 .. Len(queue)
      <4>1. CASE id <= sorted
        <5>1. id \in 1 .. sorted  BY <2>2, <4>1
        <5>2. PICK i \in 1 .. sorted : queue[i].id = id  BY <2>2, <5>1
        <5> QED  BY <2>2, <2>4, <5>2
      <4>2. CASE id > sorted  BY <2>2, <2>4, <4>2
      <4> QED  BY <2>2, <4>1, <4>2
    <3>3. \A i \in DOMAIN ran : ran[i].id = queue[i].id  BY <2>2
    <3> QED  BY <2>4, <3>1, <3>2, <3>3
  <2>6. ASSUME asked <= Capacity, NEW n \in ToSet(order), NEW t \in Acting(n)
        PROVE  RunsOnce(n, t)
    <3>1. Evaluated = ToSet(order)  BY <1>1 DEF Evaluated
    <3>2. t # 0 /\ \E k \in DOMAIN queue : Same(queue[k], n, t)
      BY <1>1, <2>6, <3>1 DEF QueueInv, HoldsTheFired
    <3>3. PICK k \in DOMAIN queue : Same(queue[k], n, t)  BY <3>2
    <3>4. ASSUME NEW l \in DOMAIN queue, l # k  PROVE ~ Same(queue[l], n, t)
      BY <1>1, <3>2, <3>3, <3>4 DEF QueueInv, HoldsTheFired, Same
    <3>5. \A l \in DOMAIN ran : Same(ran[l], n, t) <=> l = k
      BY <2>2, <2>4, <3>3, <3>4
    <3>6. k \in DOMAIN ran  BY <2>4, <3>3
    <3> QED  BY <3>5, <3>6 DEF RunsOnce, Same
  <2> QED  BY <2>2, <2>4, <2>5, <2>6 DEF EveryFiredActionRan
<1> QED  BY <1>1, QueueInvariant, PTL DEF Spec, AcceptedActionsRun

-----------------------------------------------------------------------------
(***************************************************************************)
(* Building and registration: what is run was checked.                     *)
(***************************************************************************)


SetupTypeOK ==
  /\ nodes \in [Runtimes -> Seq(Settings)]
  /\ tasks \in Seq(Runtimes)
  /\ executor \in Executors

Suits(setting) ==
  /\ setting.period > 0 => setting.deadline <= setting.period
  /\ executor = "thread" => setting.period > 0

(* Exec_add has checked every node of its runtimes that was there.         *)
TasksAreChecked ==
  \A t \in DOMAIN tasks : \A i \in Ids(tasks[t]) :
    <<tasks[t], i>> \in late \/ Suits(nodes[tasks[t]][i])

(* The inductive invariant: a table, and with it a run, names only nodes   *)
(* of the tasks, however many have been added since it was built.          *)
CheckedInv ==
  /\ SetupTypeOK
  /\ TasksAreChecked
  /\ running \subseteq Activations
  /\ \A s \in DOMAIN table : table[s] \subseteq Activations

-----------------------------------------------------------------------------
LEMMA InActivations ==
  ASSUME NEW a
  PROVE  a \in Activations <=>
           \E t \in DOMAIN tasks : \E i \in Ids(tasks[t]) : a = <<t, i>>
BY DEF Activations

LEMMA CheckedInit == SetupInit => CheckedInv
BY DEF SetupInit, CheckedInv, SetupTypeOK, TasksAreChecked

LEMMA AddNodeKeeps ==
  ASSUME CheckedInv, NEW r \in Runtimes, NEW setting \in Settings, AddNode(r, setting)
  PROVE  CheckedInv'
<1> DEFINE new == Len(nodes[r]) + 1
<1>1. /\ nodes' = [nodes EXCEPT ![r] = Append(@, setting)]
      /\ running' = {} /\ UNCHANGED <<executor, tasks, table>>
      /\ late' = IF Registered(r) THEN late \cup {<<r, new>>} ELSE late
  BY DEF AddNode
<1>2. /\ nodes[r] \in Seq(Settings) /\ nodes'[r] = Append(nodes[r], setting)
      /\ DOMAIN nodes[r] = 1 .. Len(nodes[r]) /\ DOMAIN nodes'[r] = 1 .. new
      /\ nodes'[r] \in Seq(Settings)
      /\ \A i \in DOMAIN nodes[r] : nodes'[r][i] = nodes[r][i]
      /\ \A q \in Runtimes \ {r} : nodes'[q] = nodes[q]
  BY <1>1 DEF CheckedInv, SetupTypeOK
<1>3. SetupTypeOK'
  BY <1>1, <1>2 DEF CheckedInv, SetupTypeOK
<1>4. TasksAreChecked'
  <2>1. ASSUME NEW t \in DOMAIN tasks, NEW i \in DOMAIN nodes'[tasks[t]]
        PROVE  <<tasks[t], i>> \in late' \/ Suits(nodes'[tasks[t]][i])
    <3>1. tasks[t] \in Runtimes  BY DEF CheckedInv, SetupTypeOK
    <3>2. CASE tasks[t] = r /\ i = new
      <4>1. Registered(r)  BY <3>2 DEF Registered, Range
      <4> QED  BY <1>1, <3>2, <4>1
    <3>3. CASE ~ (tasks[t] = r /\ i = new)
      <4>1. i \in DOMAIN nodes[tasks[t]] /\ nodes'[tasks[t]][i] = nodes[tasks[t]][i]
        BY <1>2, <3>1, <3>3
      <4>2. <<tasks[t], i>> \in late \/ Suits(nodes[tasks[t]][i])
        BY <4>1 DEF CheckedInv, TasksAreChecked, Ids
      <4> QED  BY <1>1, <4>1, <4>2
    <3> QED  BY <3>2, <3>3
  <2> QED  BY <1>1, <2>1 DEF TasksAreChecked, Ids, Suits
<1>5. Activations \subseteq Activations'
  <2>1. \A q \in Runtimes : DOMAIN nodes[q] \subseteq DOMAIN nodes'[q]
    BY <1>2
  <2>2. \A t \in DOMAIN tasks : DOMAIN nodes[tasks[t]] \subseteq DOMAIN nodes'[tasks[t]]
    BY <2>1 DEF CheckedInv, SetupTypeOK
  <2> QED  BY <1>1, <2>2 DEF Activations, Ids
<1> QED  BY <1>1, <1>3, <1>4, <1>5 DEF CheckedInv

LEMMA RegisterKeeps ==
  ASSUME CheckedInv, NEW r \in Runtimes, Register(r), Valid(r),
         executor = "thread" => ThreadAccepts(r),
         running' = {}, UNCHANGED <<executor, nodes>>
  PROVE  CheckedInv'
<1>1. /\ tasks \in Seq(Runtimes) /\ tasks' = Append(tasks, r) /\ tasks' \in Seq(Runtimes)
      /\ late' = {l \in late : l[1] # r} /\ table' = <<>>
  BY DEF Register, CheckedInv, SetupTypeOK
<1>2. SetupTypeOK'
  BY <1>1 DEF CheckedInv, SetupTypeOK
<1>3. ASSUME NEW t \in DOMAIN tasks', NEW i \in Ids(tasks'[t])
      PROVE  <<tasks'[t], i>> \in late' \/ Suits(nodes[tasks'[t]][i])
  <2>1. CASE tasks'[t] = r
    BY <1>3, <2>1 DEF Valid, ThreadAccepts, Period, Suits
  <2>2. CASE tasks'[t] # r
    <3>1. t \in DOMAIN tasks /\ tasks'[t] = tasks[t]
      BY <1>1, <2>2
    <3> QED  BY <1>1, <1>3, <2>2, <3>1 DEF CheckedInv, TasksAreChecked
  <2> QED  BY <2>1, <2>2
<1>4. TasksAreChecked'
  BY <1>3 DEF TasksAreChecked, Ids, Suits
<1> QED  BY <1>1, <1>2, <1>4 DEF CheckedInv

(* Whatever is built anew names nodes of the tasks.                        *)
LEMMA NewTableInActivations ==
  \A s \in DOMAIN NewTable : NewTable[s] \subseteq Activations
BY DEF NewTable, DueIn

LEMMA CheckedNext ==
  ASSUME CheckedInv, [SetupNext]_setupVars
  PROVE  CheckedInv'
<1>1. ASSUME NEW r \in Runtimes, NEW setting \in Settings, AddNode(r, setting)
      PROVE  CheckedInv'
  BY <1>1, AddNodeKeeps
<1>2. ASSUME NEW r \in Runtimes, ExecAdd(r) \/ ExecAddFails(r)
      PROVE  CheckedInv'
  <2>1. CASE ExecAdd(r) /\ Periods(r) # {} /\ (executor = "thread" => ThreadAccepts(r))
    <3>1. /\ Register(r) /\ Valid(r) /\ running' = {} /\ UNCHANGED <<executor, nodes>>
          /\ executor = "thread" => ThreadAccepts(r)
      BY <2>1 DEF ExecAdd, Builds
    <3> QED  BY <3>1, RegisterKeeps
  <2>2. CASE ~ (ExecAdd(r) /\ Periods(r) # {} /\ (executor = "thread" => ThreadAccepts(r)))
    <3>1. running' = {} /\ UNCHANGED <<executor, nodes, tasks, table, late>>
      BY <1>2, <2>2 DEF ExecAdd, ExecAddFails
    <3> QED
      BY <3>1 DEF CheckedInv, SetupTypeOK, TasksAreChecked, Ids, Suits, Activations
  <2> QED  BY <2>1, <2>2
<1>3. ASSUME ExecBuild \/ Run
      PROVE  CheckedInv'
  <2>1. UNCHANGED <<executor, nodes, tasks, late>>
    BY <1>3 DEF ExecBuild, Run
  <2>2. Activations' = Activations /\ SetupTypeOK' /\ TasksAreChecked'
    BY <2>1 DEF CheckedInv, SetupTypeOK, TasksAreChecked, Ids, Suits, Activations
  <2>3. table' = table \/ table' = NewTable
    BY <1>3 DEF ExecBuild, Run, RunCoop, RunCyclic, RunThread
  <2>4. \A s \in DOMAIN table' : table'[s] \subseteq Activations
    BY <2>3, NewTableInActivations DEF CheckedInv
  <2>5. running' = {} \/ running' = Activations \/ running' = UNION Range(table')
    BY <1>3 DEF ExecBuild, Run, RunCoop, RunCyclic, RunThread
  <2>6. running' \subseteq Activations
    BY <2>4, <2>5 DEF Range
  <2> QED  BY <2>2, <2>4, <2>6 DEF CheckedInv
<1>4. CASE UNCHANGED setupVars
  BY <1>4 DEF setupVars, CheckedInv, SetupTypeOK, TasksAreChecked, Ids, Suits, Activations
<1> QED  BY <1>1, <1>2, <1>3, <1>4 DEF SetupNext

(* No executor ever runs a node that was not checked when its runtime was  *)
(* added, except one added later.                                          *)
THEOREM OnlyCheckedNodesRun == SetupSpec => []RunIsChecked
<1>1. ASSUME CheckedInv PROVE RunIsChecked
  <2>1. ASSUME NEW a \in running
        PROVE  Node(a) \in late \/ Suits(nodes[Node(a)[1]][a[2]])
    <3>1. PICK t \in DOMAIN tasks : \E i \in Ids(tasks[t]) : a = <<t, i>>
      BY <1>1, InActivations DEF CheckedInv
    <3>2. a[1] = t /\ a[2] \in Ids(tasks[t]) /\ Node(a) = <<tasks[t], a[2]>>
      BY <3>1 DEF Node
    <3> QED  BY <1>1, <3>2 DEF CheckedInv, TasksAreChecked
  <2> QED  BY <2>1 DEF RunIsChecked, Suits
<1> QED  BY <1>1, CheckedInit, CheckedNext, PTL DEF SetupSpec

-----------------------------------------------------------------------------
(***************************************************************************)
(* A run covers the nodes.                                                 *)
(***************************************************************************)

(* The first slot of a table holds every node, so a table covers all the   *)
(* nodes there were; a node that came later is in unseen.                  *)
TableCovers ==
  table # <<>> =>
    \A a \in Activations : Node(a) \in unseen \/ a \in UNION Range(table)

(* Each task has the contexts of its nodes, but for the nodes added since  *)
(* exec_add; a second exec_add of the runtime takes those out of late.     *)
ContextsCover ==
  /\ DOMAIN contexts = DOMAIN tasks
  /\ \A t \in DOMAIN tasks : \A i \in Ids(tasks[t]) :
       <<tasks[t], i>> \in late \/ Twice(tasks[t]) \/ i \in contexts[t]

RunningCovers ==
  running # {} => \A a \in Activations : Node(a) \in unseen \/ a \in running

(* The inductive invariant.                                                *)
CoverInv ==
  /\ SetupTypeOK /\ contexts \in Seq(SUBSET Nat)
  /\ TableCovers /\ ContextsCover /\ RunningCovers

-----------------------------------------------------------------------------
(* The periods of the tasks, and a divisor of them, are natural numbers.   *)
LEMMA PeriodType ==
  ASSUME SetupTypeOK, NEW t \in DOMAIN tasks, NEW i \in Ids(tasks[t])
  PROVE  Period(tasks[t], i) \in Nat
<1>1. nodes[tasks[t]] \in Seq(Settings)  BY DEF SetupTypeOK
<1>2. nodes[tasks[t]][i] \in Settings  BY <1>1 DEF Ids
<1> QED  BY <1>2, SetupAssumption DEF Period

LEMMA DivisorType ==
  ASSUME NEW periods \in SUBSET (Nat \ {0})
  PROVE  CommonDivisor(periods) \in Nat
<1>1. CASE periods = {}  BY <1>1 DEF CommonDivisor
<1>2. CASE periods # {}
  <2>1. PICK m \in periods : \A p \in periods : m <= p  BY <1>2, Least
  <2>2. Min(periods) \in periods  BY <2>1 DEF Min
  <2> DEFINE least == Min(periods)
             D     == {d \in 1 .. least : \A p \in periods : p % d = 0}
  <2>3. least \in Nat \ {0}  BY <2>2
  <2> HIDE DEF least
  <2>4. 1 \in D  BY <2>3
  <2>5. D \in SUBSET (0 .. least) /\ D # {}  BY <2>3, <2>4
  <2>6. D \in SUBSET Nat  BY <2>3
  <2>7. CommonDivisor(periods) = Max(D)  BY <1>2 DEF CommonDivisor, least
  <2> HIDE DEF D
  <2>8. \E d \in D : \A e \in D : d >= e  BY <2>3, <2>5, Greatest, Zenon
  <2>9. Max(D) \in D  BY <2>8 DEF Max
  <2> QED  BY <2>6, <2>7, <2>9
<1> QED  BY <1>1, <1>2

LEMMA AllPeriodsType == ASSUME SetupTypeOK PROVE AllPeriods \in SUBSET (Nat \ {0})
<1> SUFFICES ASSUME NEW p \in AllPeriods  PROVE p \in Nat \ {0}
  OBVIOUS
<1>1. PICK t \in DOMAIN tasks : p \in Periods(tasks[t])  BY DEF AllPeriods, Range
<1>2. PICK i \in Ids(tasks[t]) : p = Period(tasks[t], i) /\ p # 0  BY <1>1 DEF Periods
<1> QED  BY <1>2, PeriodType

(* A table has a first slot, and every node is due in it.                  *)
LEMMA NewTableCovers ==
  ASSUME SetupTypeOK, CanBuild
  PROVE  NewTable # <<>> /\ \A a \in Activations : a \in UNION Range(NewTable)
<1>1. SlotCounts \in SUBSET Nat /\ SlotCounts # {} /\ \A s \in SlotCounts : s >= 1
  BY SetupAssumption DEF CanBuild, SlotCounts
<1>2. SlotCount \in SlotCounts
  <2>1. \E s \in SlotCounts : \A u \in SlotCounts : s <= u  BY <1>1, Least, Zenon
  <2> QED  BY <2>1 DEF SlotCount, Min
<1>3. 1 \in DOMAIN NewTable /\ NewTable[1] = DueIn(0)
  <2>1. 1 \in 1 .. SlotCount  BY <1>1, <1>2
  <2> QED  BY <2>1 DEF NewTable
<1>4. ASSUME NEW a \in Activations  PROVE a \in DueIn(0)
  <2>1. PICK t \in DOMAIN tasks : \E i \in Ids(tasks[t]) : a = <<t, i>>  BY InActivations
  <2> DEFINE period == Period(tasks[a[1]], a[2])
             divisor == CommonDivisor(AllPeriods)
  <2>2. period \in Nat  BY <2>1, PeriodType
  <2>3. divisor \in Nat  BY AllPeriodsType, DivisorType
  <2> HIDE DEF period, divisor
  <2>4. period # 0 => (0 * divisor) % period = 0
    <3>1. ASSUME period # 0  PROVE (period * 0) % period = 0  BY <2>2, <3>1, MultipleIsZero
    <3>2. 0 * divisor = 0 /\ period * 0 = 0  BY <2>2, <2>3
    <3> QED  BY <3>1, <3>2
  <2> QED  BY <2>4 DEF DueIn, period, divisor
<1>5. NewTable # <<>>  BY <1>3
<1> QED  BY <1>3, <1>4, <1>5 DEF Range

-----------------------------------------------------------------------------
LEMMA CoverInit == SetupInit => CoverInv
BY DEF SetupInit, CoverInv, SetupTypeOK, TableCovers, ContextsCover, RunningCovers

(* A node that is added is in late, and in unseen, if it comes too late    *)
(* for what was prepared.                                                  *)
LEMMA AddNodeCovers ==
  ASSUME CoverInv, NEW r \in Runtimes, NEW setting \in Settings, AddNode(r, setting), SetupTypeOK'
  PROVE  CoverInv'
<1> DEFINE new == Len(nodes[r]) + 1
<1>1. /\ nodes' = [nodes EXCEPT ![r] = Append(@, setting)]
      /\ running' = {} /\ UNCHANGED <<executor, tasks, table, contexts>>
      /\ late' = IF Registered(r) THEN late \cup {<<r, new>>} ELSE late
      /\ unseen' = IF table # <<>> THEN unseen \cup {<<r, new>>} ELSE unseen
  BY DEF AddNode
<1>2. /\ DOMAIN nodes[r] = 1 .. Len(nodes[r]) /\ DOMAIN nodes'[r] = 1 .. new
      /\ \A q \in Runtimes \ {r} : nodes'[q] = nodes[q]
  BY <1>1 DEF CoverInv, SetupTypeOK
<1>3. ASSUME NEW t \in DOMAIN tasks, NEW i \in DOMAIN nodes'[tasks[t]]
      PROVE  \/ tasks[t] = r /\ i = new /\ Registered(r)
             \/ i \in DOMAIN nodes[tasks[t]]
  <2>1. tasks[t] \in Runtimes  BY DEF CoverInv, SetupTypeOK
  <2>2. tasks[t] = r => Registered(r)  BY DEF Registered, Range
  <2> QED  BY <1>2, <1>3, <2>1, <2>2
<1>4. ContextsCover'
  <2>1. \A q : Twice(q)' = Twice(q)  BY <1>1 DEF Twice
  <2> SUFFICES ASSUME NEW t \in DOMAIN tasks, NEW i \in DOMAIN nodes'[tasks[t]]
               PROVE  <<tasks[t], i>> \in late' \/ Twice(tasks[t]) \/ i \in contexts[t]
    BY <1>1, <2>1 DEF CoverInv, ContextsCover, Ids
  <2>2. CASE tasks[t] = r /\ i = new /\ Registered(r)  BY <1>1, <2>2
  <2>3. CASE i \in DOMAIN nodes[tasks[t]]
    BY <1>1, <2>3 DEF CoverInv, ContextsCover, Ids
  <2> QED  BY <1>3, <2>2, <2>3
<1>5. TableCovers'
  <2> SUFFICES ASSUME table # <<>>, NEW a \in Activations'
               PROVE  <<tasks[a[1]], a[2]>> \in unseen' \/ a \in UNION Range(table)
    BY <1>1 DEF TableCovers, Node
  <2>1. PICK t \in DOMAIN tasks : \E i \in DOMAIN nodes'[tasks[t]] : a = <<t, i>>
    BY <1>1 DEF Activations, Ids
  <2>2. PICK i \in DOMAIN nodes'[tasks[t]] : a = <<t, i>>  BY <2>1
  <2>3. CASE tasks[t] = r /\ i = new  BY <1>1, <2>2, <2>3
  <2>4. CASE i \in DOMAIN nodes[tasks[t]]
    <3>1. a \in Activations  BY <2>2, <2>4, InActivations DEF Ids
    <3> QED  BY <1>1, <3>1 DEF CoverInv, TableCovers, Node
  <2> QED  BY <1>3, <2>3, <2>4
<1> QED  BY <1>1, <1>4, <1>5 DEF CoverInv, RunningCovers

(* Two tasks of one runtime.                                               *)
LEMMA IsTwice ==
  ASSUME NEW s \in Seq(Runtimes), NEW r, NEW t \in DOMAIN s, NEW u \in DOMAIN s,
         t # u, s[t] = r, s[u] = r
  PROVE  Cardinality({v \in DOMAIN s : s[v] = r}) > 1
<1> DEFINE S == {v \in DOMAIN s : s[v] = r}
<1>1. IsFiniteSet(DOMAIN s)
  <2>1. Len(s) \in Nat /\ DOMAIN s = 1 .. Len(s)  OBVIOUS
  <2> QED  BY <2>1, FS_Interval
<1>2. IsFiniteSet(S) /\ {t, u} \subseteq S  BY <1>1, FS_Subset
<1>3. Cardinality({t, u}) <= Cardinality(S)  BY <1>2, FS_Subset
<1>4. Cardinality({t, u}) = 2
  <2> DEFINE first == {t}
             both  == {t, u}
  <2>1. IsFiniteSet(first) /\ Cardinality(first) = 1  BY FS_Singleton
  <2>2. u \notin first /\ both = first \cup {u}  OBVIOUS
  <2> HIDE DEF first, both
  <2>3. Cardinality(both) = Cardinality(first) + 1  BY <2>1, <2>2, FS_AddElement
  <2>4. Cardinality(both) = 2  BY <2>1, <2>3
  <2> QED  BY <2>4 DEF both
<1>5. Cardinality(S) \in Nat  BY <1>2, FS_CardinalityType
<1>6. Cardinality(S) > 1  BY <1>3, <1>4, <1>5
<1> QED  BY <1>6

(* A task more: its nodes have contexts, and what was late of the runtime  *)
(* is now that of a runtime that is there twice.                           *)
LEMMA RegisterCovers ==
  ASSUME CoverInv, NEW r \in Runtimes, Register(r), running' = {}, UNCHANGED nodes, SetupTypeOK'
  PROVE  CoverInv'
<1>1. /\ tasks \in Seq(Runtimes) /\ tasks' = Append(tasks, r) /\ tasks' \in Seq(Runtimes)
      /\ contexts \in Seq(SUBSET Nat) /\ contexts' = Append(contexts, Ids(r))
      /\ late' = {l \in late : l[1] # r} /\ table' = <<>>
      /\ DOMAIN contexts = DOMAIN tasks
  BY DEF Register, CoverInv, SetupTypeOK, ContextsCover
<1>2. Ids(r) \in SUBSET Nat
  <2>1. nodes[r] \in Seq(Settings)  BY DEF CoverInv, SetupTypeOK
  <2> QED  BY <2>1 DEF Ids
<1>3. contexts' \in Seq(SUBSET Nat)  BY <1>1, <1>2
<1>4. /\ Len(contexts) = Len(tasks) /\ DOMAIN contexts' = DOMAIN tasks'
      /\ DOMAIN tasks' = DOMAIN tasks \cup {Len(tasks) + 1}
      /\ Len(tasks) + 1 \notin DOMAIN tasks
      /\ tasks'[Len(tasks) + 1] = r /\ contexts'[Len(tasks) + 1] = Ids(r)
      /\ \A t \in DOMAIN tasks : tasks'[t] = tasks[t] /\ contexts'[t] = contexts[t]
  <2>1. Len(contexts) = Len(tasks)
    <3>1. Len(contexts) \in Nat /\ Len(tasks) \in Nat
          /\ 1 .. Len(contexts) = 1 .. Len(tasks)
      BY <1>1
    <3> QED  BY <3>1
  <2> QED  BY <1>1, <2>1
<1> DEFINE after    == tasks'
           Again(q) == Cardinality({v \in DOMAIN after : after[v] = q}) > 1
<1>5. ASSUME NEW t \in DOMAIN after, NEW i \in Ids(after[t])
      PROVE  <<after[t], i>> \in late' \/ Again(after[t]) \/ i \in contexts'[t]
  <2>1. CASE t = Len(tasks) + 1  BY <1>4, <1>5, <2>1
  <2>2. CASE t \in DOMAIN tasks /\ tasks[t] = r
    <3>1. t # Len(tasks) + 1 /\ after[t] = r /\ after[Len(tasks) + 1] = r
          /\ Len(tasks) + 1 \in DOMAIN after /\ after \in Seq(Runtimes)
      BY <1>1, <1>4, <2>2
    <3> HIDE DEF after
    <3>2. Again(r)  BY <3>1, IsTwice
    <3> QED  BY <3>1, <3>2
  <2>3. CASE t \in DOMAIN tasks /\ tasks[t] # r
    <3>1. {v \in DOMAIN after : after[v] = tasks[t]} = {v \in DOMAIN tasks : tasks[v] = tasks[t]}
      BY <1>4, <2>3
    <3>2. Twice(tasks[t]) => Again(tasks[t])  BY <3>1 DEF Twice
    <3>3. <<tasks[t], i>> \in late \/ Twice(tasks[t]) \/ i \in contexts[t]
      BY <1>4, <1>5, <2>3 DEF CoverInv, ContextsCover
    <3>4. <<tasks[t], i>> \in late => <<tasks[t], i>> \in late'  BY <1>1, <2>3
    <3> QED  BY <1>4, <2>3, <3>2, <3>3, <3>4
  <2> QED  BY <1>4, <2>1, <2>2, <2>3
<1>6. ContextsCover'
  <2>1. \A t \in DOMAIN tasks' : \A i \in DOMAIN nodes[tasks'[t]] :
          <<tasks'[t], i>> \in late' \/ i \in contexts'[t]
          \/ Cardinality({v \in DOMAIN tasks' : tasks'[v] = tasks'[t]}) > 1
    BY <1>5 DEF Ids
  <2> QED  BY <1>4, <2>1 DEF ContextsCover, Ids, Twice
<1> QED  BY <1>1, <1>3, <1>6 DEF CoverInv, TableCovers, RunningCovers

LEMMA CoverNext ==
  ASSUME CoverInv, SetupTypeOK', [SetupNext]_setupVars
  PROVE  CoverInv'
<1>1. ASSUME NEW r \in Runtimes, NEW setting \in Settings, AddNode(r, setting)
      PROVE  CoverInv'
  BY <1>1, AddNodeCovers
<1>2. ASSUME NEW r \in Runtimes, ExecAdd(r) \/ ExecAddFails(r)
      PROVE  CoverInv'
  <2>1. CASE ExecAdd(r) /\ Periods(r) # {} /\ (executor = "thread" => ThreadAccepts(r))
    <3>1. Register(r) /\ running' = {} /\ UNCHANGED nodes  BY <2>1 DEF ExecAdd
    <3> QED  BY <3>1, RegisterCovers
  <2>2. CASE ~ (ExecAdd(r) /\ Periods(r) # {} /\ (executor = "thread" => ThreadAccepts(r)))
    <3>1. running' = {} /\ UNCHANGED <<nodes, tasks, table, contexts, late, unseen>>
      BY <1>2, <2>2 DEF ExecAdd, ExecAddFails
    <3> QED
      BY <3>1 DEF CoverInv, TableCovers, ContextsCover, RunningCovers, Ids, Activations,
                  Node, Twice
  <2> QED  BY <2>1, <2>2
<1>3. ASSUME ExecBuild \/ Run
      PROVE  CoverInv'
  <2>1. UNCHANGED <<nodes, tasks, late, contexts>>  BY <1>3 DEF ExecBuild, Run
  <2>2. /\ Activations' = Activations /\ ContextsCover'
        /\ \A a : Node(a)' = Node(a)
    BY <2>1 DEF CoverInv, ContextsCover, Ids, Activations, Twice, Node
  <2>3. \/ table' = table /\ unseen' = unseen
        \/ table' = NewTable /\ unseen' = {} /\ CanBuild
    BY <1>3 DEF ExecBuild, Run, RunCoop, RunCyclic, RunThread
  <2>4. TableCovers'
    <3>1. CASE table' = table /\ unseen' = unseen
      BY <2>2, <3>1 DEF CoverInv, TableCovers
    <3>2. CASE table' = NewTable /\ CanBuild
      BY <2>2, <3>2, NewTableCovers DEF CoverInv, TableCovers
    <3> QED  BY <2>3, <3>1, <3>2
  <2>5. \/ running' = {} \/ running' = Activations
        \/ running' = UNION Range(table') /\ table' # <<>>
    <3>1. CASE RunCyclic /\ table = <<>>
      BY <3>1, NewTableCovers DEF RunCyclic, CoverInv
    <3>2. CASE RunCyclic /\ table # <<>>
      BY <3>2 DEF RunCyclic
    <3> QED  BY <1>3, <3>1, <3>2 DEF ExecBuild, Run, RunCoop, RunThread
  <2>6. RunningCovers'  BY <2>2, <2>4, <2>5 DEF RunningCovers, TableCovers
  <2> QED  BY <2>1, <2>2, <2>4, <2>6 DEF CoverInv
<1>4. CASE UNCHANGED setupVars
  BY <1>4 DEF setupVars, CoverInv, TableCovers, ContextsCover, RunningCovers, Ids, Activations,
              Node, Twice
<1> QED  BY <1>1, <1>2, <1>3, <1>4 DEF SetupNext

(* RunCoversNodes: a run covers every node that was there when the         *)
(* executor prepared it, and no thread is without the context its node's   *)
(* actions are queued in, for any sequence of calls, periods and limits    *)
(* (cyclic.c:48, thread.c:427).                                            *)
THEOREM RunsCoverTheNodes == SetupSpec => []RunCoversNodes
<1>1. SetupSpec => [](CheckedInv /\ CoverInv)
  <2>1. SetupInit => CheckedInv /\ CoverInv  BY CheckedInit, CoverInit
  <2>2. CheckedInv /\ CoverInv /\ [SetupNext]_setupVars => (CheckedInv /\ CoverInv)'
    <3>1. CheckedInv /\ [SetupNext]_setupVars => CheckedInv'  BY CheckedNext
    <3>2. CheckedInv' => SetupTypeOK'  BY DEF CheckedInv
    <3> QED  BY <3>1, <3>2, CoverNext
  <2> QED  BY <2>1, <2>2, PTL DEF SetupSpec
<1>2. ASSUME CoverInv  PROVE RunCoversNodes
  <2> SUFFICES ASSUME running # {}, NEW a \in Activations
               PROVE  /\ Node(a) \in unseen \/ a \in running
                      /\ Node(a) \in late \/ Twice(Node(a)[1]) \/ a[2] \in contexts[a[1]]
    BY DEF RunCoversNodes
  <2>1. Node(a) \in unseen \/ a \in running  BY <1>2 DEF CoverInv, RunningCovers
  <2>2. PICK t \in DOMAIN tasks : \E i \in Ids(tasks[t]) : a = <<t, i>>  BY InActivations
  <2>3. Node(a) \in late \/ Twice(Node(a)[1]) \/ a[2] \in contexts[a[1]]
    BY <1>2, <2>2 DEF CoverInv, ContextsCover, Node
  <2> QED  BY <2>1, <2>3
<1> QED  BY <1>1, <1>2, PTL

-----------------------------------------------------------------------------
(* Schedulability.  What is analysed does not change while it is watched.  *)
TasksInv ==
  /\ policy \in Policies
  /\ AreTasks(Tasks) /\ param \in [Tasks -> Params]
  /\ access \in [Tasks -> [Resources -> Nat]]

(* The order of the priorities is total.                                   *)
LEMMA PriorityOrder ==
  ASSUME TasksInv
  PROVE  /\ \A i \in Tasks : i \in Nat /\ param[i].deadline \in Nat
         /\ \A i, j \in Tasks : i = j \/ Less(i, j) \/ Less(j, i)
         /\ \A i, j \in Tasks : ~ (Less(i, j) /\ Less(j, i))
         /\ \A i, j, k \in Tasks : Less(i, j) /\ Less(j, k) => Less(i, k)
<1>1. \A i \in Tasks : i \in Nat /\ param[i].deadline \in Nat
  BY DEF TasksInv, AreTasks, Params
<1> QED  BY <1>1 DEF Less

LEMMA FirstFacts ==
  ASSUME TasksInv, NEW R \in SUBSET Tasks, R # {}
  PROVE  FirstOf(R) \in R /\ \A j \in R \ {FirstOf(R)} : Less(FirstOf(R), j)
<1>1. \A i \in R : i \in Nat /\ param[i].deadline \in Nat  BY PriorityOrder
<1> DEFINE deadlines == {param[i].deadline : i \in R}
<1>2. deadlines \in SUBSET Nat /\ deadlines # {}  BY <1>1
<1>3. PICK d \in deadlines : \A e \in deadlines : d <= e  BY <1>2, Least, Zenon
<1> DEFINE urgent == {i \in R : param[i].deadline = d}
<1>4. urgent \in SUBSET Nat /\ urgent # {}  BY <1>1, <1>3
<1>5. PICK i \in urgent : \A j \in urgent : i <= j
  <2> HIDE DEF urgent
  <2> QED  BY <1>4, Least, Zenon
<1>6. i \in R /\ param[i].deadline = d  BY <1>5
<1>7. ASSUME NEW j \in R \ {i}  PROVE Less(i, j)
  <2>1. d \in Nat /\ i \in Nat /\ j \in Nat /\ param[j].deadline \in Nat  BY <1>1, <1>6
  <2>2. d <= param[j].deadline  BY <1>3
  <2>3. param[j].deadline = d => i <= j  BY <1>5
  <2> QED  BY <1>6, <2>1, <2>2, <2>3 DEF Less
<1> QED  BY <1>6, <1>7 DEF FirstOf

-----------------------------------------------------------------------------
(* The recursion of max_thread_blocking_rec, for the tasks of R.           *)
Longest(R, rest) ==
  [used \in SUBSET Resources |->
     IF R = {} THEN 0
     ELSE Max({rest[used]} \cup
              {access[FirstOf(R)][r] + rest[used \cup {r}] :
                 r \in {q \in Resources \ used : access[FirstOf(R)][q] > 0}})]

IsBest(S, best) == best = [R \in SUBSET S |-> Longest(R, best[R \ {FirstOf(R)}])]

LEMMA BlockingIsComputed ==
  ASSUME NEW S
  PROVE  ThreadBlocking(S) = (CHOOSE best : IsBest(S, best))[S][{}]
BY DEF ThreadBlocking, IsBest, Longest

LEMMA BestExists ==
  ASSUME TasksInv, NEW S \in SUBSET Tasks
  PROVE  \E best : IsBest(S, best)
<1> DEFINE Level(n) == {R \in SUBSET S : Cardinality(R) <= n}
           Value(R, g) == Longest(R, g[R \ {FirstOf(R)}])
           Computes(n, g) == g = [R \in Level(n) |-> Value(R, g)]
           Without == {n \in Nat : ~ \E g : Computes(n, g)}
<1>1. \A R \in SUBSET S : IsFiniteSet(R) /\ Cardinality(R) \in Nat
  BY FS_Subset, FS_CardinalityType DEF TasksInv, AreTasks
<1>2. \A R \in SUBSET S : R # {} =>
        /\ FirstOf(R) \in R /\ R \ {FirstOf(R)} \in SUBSET S
        /\ Cardinality(R \ {FirstOf(R)}) = Cardinality(R) - 1
        /\ Cardinality(R) > 0
  <2> SUFFICES ASSUME NEW R \in SUBSET S, R # {}
               PROVE  /\ FirstOf(R) \in R /\ R \ {FirstOf(R)} \in SUBSET S
                      /\ Cardinality(R \ {FirstOf(R)}) = Cardinality(R) - 1
                      /\ Cardinality(R) > 0
    OBVIOUS
  <2>1. FirstOf(R) \in R  BY FirstFacts
  <2>2. Cardinality(R \ {FirstOf(R)}) = Cardinality(R) - 1  BY <1>1, <2>1, FS_RemoveElement
  <2>3. Cardinality(R \ {FirstOf(R)}) \in Nat /\ Cardinality(R) \in Nat  BY <1>1
  <2> QED  BY <2>1, <2>2, <2>3
<1>3. \A g, h : \A R \in SUBSET S :
        R = {} \/ g[R \ {FirstOf(R)}] = h[R \ {FirstOf(R)}] => Value(R, g) = Value(R, h)
  <2>1. \A a, b : Longest({}, a) = Longest({}, b)  BY DEF Longest
  <2> QED  BY <2>1
<1> HIDE DEF Value
<1>4. \A n \in Nat : \E g : Computes(n, g)
  <2> SUFFICES ASSUME Without # {}  PROVE FALSE
    OBVIOUS
  <2>1. PICK n \in Without : \A k \in Without : n <= k
    <3>1. Without \in SUBSET Nat  OBVIOUS
    <3> HIDE DEF Without
    <3> QED  BY <3>1, Least, Zenon
  <2>2. n # 0
    <3> DEFINE g == [R \in Level(0) |-> Value({}, {})]
    <3>1. ASSUME NEW R \in Level(0)  PROVE R = {}
      <4>1. R \in SUBSET S /\ Cardinality(R) <= 0  OBVIOUS
      <4>2. ~ (Cardinality(R) > 0)  BY <1>1, <4>1
      <4> QED  BY <1>2, <4>1, <4>2
    <3>2. g = [R \in Level(0) |-> Value(R, g)]
      <4>1. \A R \in Level(0) : R \in SUBSET S  OBVIOUS
      <4> HIDE DEF Level
      <4>2. \A R \in Level(0) : Value(R, g) = Value({}, {})  BY <1>3, <3>1, <4>1
      <4> QED  BY <4>2
    <3>3. \E e : Computes(0, e)  BY <3>2
    <3> HIDE DEF Computes
    <3> QED  BY <2>1, <3>3
  <2>3. n - 1 \in Nat /\ n - 1 \notin Without
    <3>1. n \in Nat  OBVIOUS
    <3>2. n - 1 \in Nat /\ ~ (n <= n - 1)  BY <2>2, <3>1
    <3> QED  BY <2>1, <3>2, Zenon
  <2>4. PICK g : Computes(n - 1, g)  BY <2>3
  <2> DEFINE h == [R \in Level(n) |-> Value(R, g)]
  <2>5. \A R \in Level(n) : R \in SUBSET S /\ (R = {} \/ R \ {FirstOf(R)} \in Level(n - 1))
    BY <1>1, <1>2, <2>3
  <2>6. \A R \in Level(n - 1) : R \in Level(n)  BY <1>1, <2>3
  <2>7. \A R \in Level(n - 1) : g[R] = Value(R, g)  BY <2>4
  <2>8. \A R \in Level(n - 1) : h[R] = g[R]  BY <2>6, <2>7
  <2>9. \A R \in Level(n) : Value(R, g) = Value(R, h)  BY <1>3, <2>5, <2>8
  <2>10. h = [R \in Level(n) |-> Value(R, h)]
    <3>1. h = [R \in Level(n) |-> Value(R, g)]  OBVIOUS
    <3> HIDE DEF h, Level
    <3> QED  BY <2>9, <3>1
  <2> HIDE DEF h
  <2>11. \E e : Computes(n, e)  BY <2>10
  <2> QED  BY <2>1, <2>11
<1>5. Cardinality(S) \in Nat /\ Level(Cardinality(S)) = SUBSET S
  <2>1. IsFiniteSet(S)  BY <1>1
  <2>2. \A R \in SUBSET S : Cardinality(R) <= Cardinality(S)  BY <2>1, FS_Subset
  <2> QED  BY <1>1, <2>2
<1>6. PICK g : Computes(Cardinality(S), g)  BY <1>4, <1>5
<1>7. g = [R \in SUBSET S |-> Value(R, g)]  BY <1>5, <1>6
<1> QED  BY <1>7 DEF IsBest, Value

-----------------------------------------------------------------------------
(* v is the length of the longest combination of sections of the tasks of  *)
(* R on the resources of U.                                                *)
IsLongest(R, U, v) ==
  /\ \E C \in Combos(R, U) : Length(C) = v
  /\ \A C \in Combos(R, U) : Length(C) <= v

LEMMA LengthFacts ==
  ASSUME TasksInv, NEW C \in SUBSET (Tasks \X Resources)
  PROVE  /\ IsFiniteSet(C) /\ Length(C) \in Nat /\ Length({}) = 0
         /\ \A c \in C : Length(C) = access[c[1]][c[2]] + Length(C \ {c})
<1> DEFINE f == [c \in Tasks \X Resources |-> access[c[1]][c[2]]]
<1>1. IsFiniteSet(Tasks) /\ IsFiniteSet(Resources)
  BY AnalysedAssumption DEF TasksInv, AreTasks
<1>2. IsFiniteSet(C)  BY <1>1, FS_Product, FS_Subset
<1>3. \A c \in C : c \in Tasks \X Resources /\ f[c] = access[c[1]][c[2]] /\ f[c] \in Nat
  BY DEF TasksInv
<1>4. \A D : Length(D) = SumOver(f, D)  BY DEF Length
<1> HIDE DEF f
<1>5. SumOver(f, C) \in Nat  BY <1>2, <1>3, SumOfNaturals
<1>6. SumOver(f, {}) = 0 /\ \A c \in C : SumOver(f, C) = f[c] + SumOver(f, C \ {c})
  BY <1>2, <1>3, SumFacts
<1> QED  BY <1>2, <1>3, <1>4, <1>5, <1>6

(* A combination without a section of i is one of the other tasks.         *)
LEMMA CombosWithout ==
  ASSUME NEW R, NEW U, NEW i \in R, NEW C \in Combos(R, U),
         \A c \in C : c[1] # i
  PROVE  C \in Combos(R \ {i}, U)
<1>1. \A c \in C : c \in R \X U /\ c[1] \in R \ {i} /\ c[2] \in U  BY DEF Combos
<1>2. C \in SUBSET ((R \ {i}) \X U)  BY <1>1
<1> QED  BY <1>2 DEF Combos

(* With a section of i the rest of it uses other tasks and resources.      *)
LEMMA CombosWith ==
  ASSUME NEW R, NEW U, NEW C \in Combos(R, U), NEW c \in C
  PROVE  /\ c[1] \in R /\ c[2] \in U /\ c = <<c[1], c[2]>>
         /\ C \ {c} \in Combos(R \ {c[1]}, U \ {c[2]})
         /\ C \ {c} \in Combos(R \ {c[1]}, U)
<1>1. \A d \in C : d \in R \X U /\ d = <<d[1], d[2]>> /\ d[1] \in R /\ d[2] \in U
  BY DEF Combos
<1>2. \A d \in C : d # c => d[1] # c[1] /\ d[2] # c[2]  BY DEF Combos
<1>3. \A d \in C \ {c} : d \in (R \ {c[1]}) \X (U \ {c[2]}) /\ d \in (R \ {c[1]}) \X U
  BY <1>1, <1>2
<1>4. C \ {c} \in SUBSET ((R \ {c[1]}) \X (U \ {c[2]})) /\ C \ {c} \in SUBSET ((R \ {c[1]}) \X U)
  BY <1>3
<1>5. \A d, e \in C : d[1] = e[1] \/ d[2] = e[2] => d = e  BY DEF Combos
<1> QED  BY <1>1, <1>4, <1>5 DEF Combos

LEMMA CombosExtend ==
  ASSUME NEW R, NEW U, NEW i \in R, NEW r \in U, NEW C \in Combos(R \ {i}, U \ {r})
  PROVE  C \cup {<<i, r>>} \in Combos(R, U) /\ <<i, r>> \notin C
<1> DEFINE c == <<i, r>>
<1>1. \A d \in C : d \in (R \ {i}) \X (U \ {r})  BY DEF Combos
<1>2. \A d \in C : d[1] # i /\ d[2] # r /\ d \in R \X U /\ d # c  BY <1>1
<1>3. c \in R \X U /\ c[1] = i /\ c[2] = r  OBVIOUS
<1>4. \A d, e \in C : d[1] = e[1] \/ d[2] = e[2] => d = e  BY DEF Combos
<1>5. C \cup {c} \in SUBSET (R \X U)  BY <1>2, <1>3
<1>6. \A d, e \in C \cup {c} : d[1] = e[1] \/ d[2] = e[2] => d = e  BY <1>2, <1>3, <1>4
<1> QED  BY <1>2, <1>5, <1>6 DEF Combos

LEMMA CombosSmaller ==
  ASSUME NEW R, NEW U, NEW i, NEW C \in Combos(R \ {i}, U)
  PROVE  C \in Combos(R, U)
BY DEF Combos

(* The largest of the candidates of one level is the longest combination,  *)
(* when those of the next are.                                             *)
LEMMA LongestFromRest ==
  ASSUME TasksInv, NEW R \in SUBSET Tasks, R # {}, NEW used \in SUBSET Resources, NEW rest,
         \A u \in SUBSET Resources :
           rest[u] \in Nat /\ IsLongest(R \ {FirstOf(R)}, Resources \ u, rest[u])
  PROVE  /\ Longest(R, rest)[used] \in Nat
         /\ IsLongest(R, Resources \ used, Longest(R, rest)[used])
<1> DEFINE i     == FirstOf(R)
           U     == Resources \ used
           with  == {q \in U : access[i][q] > 0}
           cand(r) == access[i][r] + rest[used \cup {r}]
           all   == {rest[used]} \cup {cand(r) : r \in with}
           v     == Max(all)
<1>1. i \in R /\ i \in Tasks  BY FirstFacts
<1>2. \A r \in U : access[i][r] \in Nat /\ used \cup {r} \in SUBSET Resources
                   /\ Resources \ (used \cup {r}) = U \ {r}
  BY <1>1 DEF TasksInv
<1>2a. rest[used] \in Nat  OBVIOUS
<1>2b. ASSUME NEW r \in with  PROVE cand(r) \in Nat
  <2>1. r \in U /\ access[i][r] \in Nat /\ used \cup {r} \in SUBSET Resources  BY <1>2
  <2>2. rest[used \cup {r}] \in Nat  BY <2>1
  <2> QED  BY <2>1, <2>2
<1>3. all \in SUBSET Int /\ IsFiniteSet(all) /\ all # {}
  <2>3. IsFiniteSet(with)  BY AnalysedAssumption, FS_Subset
  <2> DEFINE f == [r \in with |-> cand(r)]
  <2>4. {cand(r) : r \in with} = {f[r] : r \in with}  OBVIOUS
  <2> HIDE DEF with, f
  <2>5. IsFiniteSet({f[r] : r \in with})  BY <2>3, FiniteImage
  <2>6. IsFiniteSet({rest[used]})  BY FS_Singleton
  <2>7. IsFiniteSet({rest[used]} \cup {f[r] : r \in with})  BY <2>5, <2>6, FS_Union
  <2>8. IsFiniteSet(all)  BY <2>4, <2>7
  <2>9. \A x \in all : x \in Nat
    <3> HIDE DEF cand
    <3> QED  BY <1>2a, <1>2b
  <2> HIDE DEF all
  <2>10. all # {}  BY DEF all
  <2> QED  BY <2>8, <2>9, <2>10
<1>4. Longest(R, rest)[used] = v  BY DEF Longest
<1>5. v \in all /\ \A x \in all : x <= v
  <2> HIDE DEF all
  <2> QED  BY <1>3, MaxFacts
<1>6. v \in Nat
  <2> HIDE DEF with, cand
  <2> QED  BY <1>5, <1>2a, <1>2b
<1>7. rest[used] <= v /\ \A r \in with : cand(r) <= v  BY <1>5
<1>8. v = rest[used] \/ \E r \in with : v = cand(r)  BY <1>5
<1> HIDE DEF v, all
<1>9. \E C \in Combos(R, U) : Length(C) = v
  <2>1. CASE v = rest[used]
    <3>1. PICK C \in Combos(R \ {i}, U) : Length(C) = rest[used]  BY DEF IsLongest
    <3>2. C \in Combos(R, U)  BY <3>1, CombosSmaller
    <3> QED  BY <2>1, <3>1, <3>2
  <2>2. ASSUME NEW r \in with, v = cand(r)  PROVE \E C \in Combos(R, U) : Length(C) = v
    <3>1. IsLongest(R \ {i}, U \ {r}, rest[used \cup {r}])  BY <1>2
    <3>2. PICK C \in Combos(R \ {i}, U \ {r}) : Length(C) = rest[used \cup {r}]
      BY <3>1 DEF IsLongest
    <3> DEFINE D == C \cup {<<i, r>>}
    <3>3. D \in Combos(R, U) /\ <<i, r>> \notin C  BY <1>1, <3>2, CombosExtend
    <3>4. D \in SUBSET (Tasks \X Resources) /\ <<i, r>> \in D /\ D \ {<<i, r>>} = C
      BY <3>3 DEF Combos
    <3>5. Length(D) = access[i][r] + Length(D \ {<<i, r>>})
      <4> HIDE DEF D
      <4> QED  BY <3>4, LengthFacts
    <3>6. Length(D) = v  BY <2>2, <3>2, <3>4, <3>5
    <3> QED  BY <3>3, <3>6
  <2> QED  BY <1>8, <2>1, <2>2
<1>10. ASSUME NEW C \in Combos(R, U)  PROVE Length(C) <= v
  <2>0. C \in SUBSET (Tasks \X Resources)  BY DEF Combos
  <2>1. CASE \A c \in C : c[1] # i
    <3>1. C \in Combos(R \ {i}, U)  BY <1>1, <2>1, CombosWithout
    <3>2. Length(C) <= rest[used]  BY <3>1 DEF IsLongest
    <3>3. Length(C) \in Nat  BY <2>0, LengthFacts
    <3> QED  BY <1>6, <1>7, <1>2a, <3>2, <3>3
  <2>2. ASSUME NEW c \in C, c[1] = i  PROVE Length(C) <= v
    <3> DEFINE r == c[2]
               D == C \ {c}
    <3>1. r \in U /\ D \in Combos(R \ {i}, U \ {r}) /\ D \in Combos(R \ {i}, U)
      BY <2>2, CombosWith
    <3>2. Length(C) = access[i][r] + Length(D)  BY <2>0, <2>2, LengthFacts
    <3>3. Length(D) \in Nat
      <4>1. D \in SUBSET (Tasks \X Resources)  BY <2>0
      <4> HIDE DEF D
      <4> QED  BY <4>1, LengthFacts
    <3> HIDE DEF D, r
    <3>4. IsLongest(R \ {i}, U \ {r}, rest[used \cup {r}]) /\ rest[used \cup {r}] \in Nat
      BY <1>2, <3>1
    <3>5. Length(D) <= rest[used \cup {r}] /\ Length(D) <= rest[used]
      BY <3>1, <3>4 DEF IsLongest
    <3>6. access[i][r] \in Nat  BY <1>2, <3>1
    <3>7. CASE access[i][r] > 0
      <4>1. r \in with  BY <3>1, <3>7
      <4>2. access[i][r] + rest[used \cup {r}] <= v  BY <1>7, <4>1
      <4> QED  BY <1>6, <3>2, <3>3, <3>4, <3>5, <3>6, <4>2
    <3>8. CASE access[i][r] = 0
      <4>1. rest[used] \in Nat  OBVIOUS
      <4> QED  BY <1>6, <1>7, <3>2, <3>3, <3>5, <3>8, <4>1
    <3> QED  BY <3>6, <3>7, <3>8
  <2> QED  BY <2>1, <2>2
<1> QED  BY <1>4, <1>6, <1>9, <1>10 DEF IsLongest

LEMMA LongestOfNone ==
  ASSUME TasksInv, NEW U \in SUBSET Resources
  PROVE  IsLongest({}, U, 0)
<1>1. \A C \in Combos({}, U) : C = {}  BY DEF Combos
<1>2. {} \in Combos({}, U)  BY DEF Combos
<1>3. Length({}) = 0  BY LengthFacts
<1> QED  BY <1>1, <1>2, <1>3 DEF IsLongest

LEMMA BestIsLongest ==
  ASSUME TasksInv, NEW S \in SUBSET Tasks, NEW best, IsBest(S, best)
  PROVE  \A R \in SUBSET S : \A used \in SUBSET Resources :
           best[R][used] \in Nat /\ IsLongest(R, Resources \ used, best[R][used])
<1> DEFINE Good(R) == \A used \in SUBSET Resources :
                        best[R][used] \in Nat /\ IsLongest(R, Resources \ used, best[R][used])
           bad == {R \in SUBSET S : ~ Good(R)}
<1>1. \A R \in SUBSET S : best[R] = Longest(R, best[R \ {FirstOf(R)}])  BY DEF IsBest
<1>2. ASSUME bad # {}  PROVE FALSE
  <2>1. PICK R \in bad : \A i \in R : R \ {i} \notin bad
    <3>1. bad \in SUBSET SUBSET S  OBVIOUS
    <3>2. IsFiniteSet(S)  BY FS_Subset DEF TasksInv, AreTasks
    <3> HIDE DEF bad
    <3> QED  BY <1>2, <3>1, <3>2, SmallestSet
  <2>2. R \in SUBSET S /\ R \in SUBSET Tasks /\ ~ Good(R)  OBVIOUS
  <2>3. CASE R = {}
    <3>1. \A used \in SUBSET Resources : best[R][used] = 0
      BY <1>1, <2>2, <2>3 DEF Longest
    <3>2. \A used \in SUBSET Resources : IsLongest(R, Resources \ used, 0)
      BY <2>3, LongestOfNone
    <3> QED  BY <2>2, <3>1, <3>2
  <2>4. CASE R # {}
    <3> DEFINE rest == best[R \ {FirstOf(R)}]
    <3>1. FirstOf(R) \in R  BY <2>2, <2>4, FirstFacts
    <3>2. Good(R \ {FirstOf(R)})  BY <2>1, <2>2, <3>1
    <3>3. \A u \in SUBSET Resources :
            rest[u] \in Nat /\ IsLongest(R \ {FirstOf(R)}, Resources \ u, rest[u])
      BY <3>2
    <3>4. best[R] = Longest(R, rest)  BY <1>1, <2>2
    <3> HIDE DEF rest
    <3>5. \A used \in SUBSET Resources :
            /\ Longest(R, rest)[used] \in Nat
            /\ IsLongest(R, Resources \ used, Longest(R, rest)[used])
      BY <2>2, <2>4, <3>3, LongestFromRest
    <3>6. Good(R)  BY <3>4, <3>5
    <3> QED  BY <2>2, <3>6
  <2> QED  BY <2>3, <2>4
<1> QED  BY <1>2

(* The blocking term is a natural number, and the longest combination.     *)
LEMMA ThreadBlockingFacts ==
  ASSUME TasksInv, NEW S \in SUBSET Tasks
  PROVE  /\ ThreadBlocking(S) \in Nat /\ IsLongest(S, Resources, ThreadBlocking(S))
         /\ ThreadBlocking(S) = Max({Length(C) : C \in Combos(S, Resources)})
<1> DEFINE best == CHOOSE b : IsBest(S, b)
           v    == ThreadBlocking(S)
           lengths == {Length(C) : C \in Combos(S, Resources)}
<1>1. IsBest(S, best)  BY BestExists
<1>2. v = best[S][{}]  BY BlockingIsComputed
<1> HIDE DEF best, v
<1>3. Resources \ {} = Resources /\ S \in SUBSET S /\ {} \in SUBSET Resources  OBVIOUS
<1>4. v \in Nat /\ IsLongest(S, Resources, v)  BY <1>1, <1>2, <1>3, BestIsLongest
<1>5. lengths \in SUBSET Int /\ v \in lengths /\ \A x \in lengths : x <= v
  <2>1. \A C \in Combos(S, Resources) : C \in SUBSET (Tasks \X Resources)  BY DEF Combos
  <2>2. \A C \in Combos(S, Resources) : Length(C) \in Nat  BY <2>1, LengthFacts
  <2> QED  BY <1>4, <2>2 DEF IsLongest
<1>6. v = Max(lengths)
  <2>1. \A x \in lengths : x \in Int /\ v >= x  BY <1>4, <1>5
  <2>2. \E x \in lengths : \A y \in lengths : x >= y  BY <1>5, <2>1
  <2>3. Max(lengths) \in lengths /\ \A y \in lengths : Max(lengths) >= y
    <3> HIDE DEF lengths
    <3> QED  BY <2>2 DEF Max
  <2> HIDE DEF lengths
  <2>4. PICK m \in Int : m = Max(lengths)  BY <2>1, <2>3
  <2>5. m >= v /\ v >= m  BY <1>5, <2>1, <2>3, <2>4
  <2> QED  BY <1>4, <2>4, <2>5
<1> QED  BY <1>4, <1>6 DEF v

-----------------------------------------------------------------------------
(* ceil(r / p) is the number of multiples of p in 0 .. r - 1.              *)
Ceiling(r, p) == (r + p - 1) \div p

LEMMA CeilingBounds ==
  ASSUME NEW r \in Nat, NEW p \in Nat \ {0}
  PROVE  /\ Ceiling(r, p) \in Nat
         /\ r <= p * Ceiling(r, p) /\ p * Ceiling(r, p) < r + p
<1> DEFINE x == r + p - 1
           k == x \div p
           m == x % p
<1>0. x \in Int  OBVIOUS
<1>1. x \in Int /\ k \in Int /\ m \in 0 .. p - 1 /\ x = p * k + m
  <2> HIDE DEF x
  <2> QED  BY <1>0, DivMod
<1>2. k = Ceiling(r, p) /\ x = r + p - 1  BY DEF Ceiling
<1> HIDE DEF x, k, m
<1>3. r <= p * k /\ p * k < r + p  BY <1>1, <1>2
<1>4. k \in Nat
  <2> SUFFICES ASSUME k <= -1  PROVE FALSE
    BY <1>1
  <2>1. p * k <= p * (-1)  BY <1>1
  <2> QED  BY <1>1, <1>3, <2>1
<1> QED  BY <1>2, <1>3, <1>4

LEMMA CeilingUnique ==
  ASSUME NEW r \in Nat, NEW p \in Nat \ {0}, NEW k \in Nat, r <= p * k, p * k < r + p
  PROVE  Ceiling(r, p) = k
<1> DEFINE c == Ceiling(r, p)
<1>1. c \in Nat /\ r <= p * c /\ p * c < r + p  BY CeilingBounds
<1> HIDE DEF c
<1>2. ~ (c + 1 <= k)
  <2>1. ASSUME c + 1 <= k  PROVE p * (c + 1) <= p * k  BY <1>1, <2>1
  <2>2. p * (c + 1) = p * c + p  BY <1>1
  <2> QED  BY <1>1, <2>1, <2>2
<1>3. ~ (k + 1 <= c)
  <2>1. ASSUME k + 1 <= c  PROVE p * (k + 1) <= p * c  BY <1>1, <2>1
  <2>2. p * (k + 1) = p * k + p  OBVIOUS
  <2> QED  BY <1>1, <2>1, <2>2
<1> QED  BY <1>1, <1>2, <1>3 DEF c

LEMMA CeilingInOrder ==
  ASSUME NEW x \in Nat, NEW y \in Nat, NEW p \in Nat \ {0}, x <= y
  PROVE  Ceiling(x, p) <= Ceiling(y, p)
<1> DEFINE a == Ceiling(x, p)
           b == Ceiling(y, p)
<1>1. a \in Nat /\ x <= p * a /\ p * a < x + p /\ b \in Nat /\ y <= p * b /\ p * b < y + p
  BY CeilingBounds
<1> HIDE DEF a, b
<1> SUFFICES ASSUME b + 1 <= a  PROVE FALSE
  BY <1>1 DEF a, b
<1>2. p * (b + 1) <= p * a /\ p * (b + 1) = p * b + p  BY <1>1
<1> QED  BY <1>1, <1>2

LEMMA CeilingPlus ==
  ASSUME NEW x \in Nat, NEW y \in Nat, NEW p \in Nat \ {0}
  PROVE  Ceiling(x + y, p) <= Ceiling(x, p) + Ceiling(y, p)
<1> DEFINE a == Ceiling(x, p)
           b == Ceiling(y, p)
           c == Ceiling(x + y, p)
<1>1. /\ a \in Nat /\ x <= p * a /\ b \in Nat /\ y <= p * b
      /\ c \in Nat /\ p * c < x + y + p
  <2>1. x + y \in Nat  OBVIOUS
  <2>2. c \in Nat /\ p * c < x + y + p  BY <2>1, CeilingBounds
  <2> QED  BY <2>2, CeilingBounds
<1> HIDE DEF a, b, c
<1> SUFFICES ASSUME a + b + 1 <= c  PROVE FALSE
  BY <1>1 DEF a, b, c
<1>2. p * (a + b + 1) <= p * c /\ p * (a + b + 1) = p * a + p * b + p  BY <1>1
<1> QED  BY <1>1, <1>2

LEMMA CeilingSteps ==
  ASSUME NEW r \in Nat, NEW p \in Nat \ {0}
  PROVE  /\ Ceiling(0, p) = 0 /\ Ceiling(1, p) = 1
         /\ Ceiling(r + 1, p) = Ceiling(r, p) + IF r % p = 0 THEN 1 ELSE 0
<1>1. Ceiling(0, p) = 0 /\ Ceiling(1, p) = 1
  <2>1. 0 <= p * 0 /\ p * 0 < 0 + p /\ 1 <= p * 1 /\ p * 1 < 1 + p  OBVIOUS
  <2> QED  BY <2>1, CeilingUnique
<1> DEFINE q == r \div p
           m == r % p
<1>2. q \in Int /\ m \in 0 .. p - 1 /\ r = p * q + m  BY DivMod
<1>3. q \in Nat  OBVIOUS
<1> HIDE DEF q, m
<1>4. p * (q + 1) = p * q + p  BY <1>3
<1>5. CASE m = 0
  <2>1. r <= p * q /\ p * q < r + p  BY <1>2, <1>3, <1>5
  <2>2. r + 1 <= p * (q + 1) /\ p * (q + 1) < r + 1 + p  BY <1>2, <1>3, <1>4, <1>5
  <2>3. Ceiling(r, p) = q  BY <1>3, <2>1, CeilingUnique
  <2>4. Ceiling(r + 1, p) = q + 1  BY <1>3, <2>2, CeilingUnique
  <2> QED  BY <1>1, <1>3, <1>5, <2>3, <2>4 DEF m
<1>6. CASE m # 0
  <2>1. r <= p * (q + 1) /\ p * (q + 1) < r + p  BY <1>2, <1>3, <1>4, <1>6
  <2>2. r + 1 <= p * (q + 1) /\ p * (q + 1) < r + 1 + p  BY <1>2, <1>3, <1>4, <1>6
  <2>3. Ceiling(r, p) = q + 1  BY <1>3, <2>1, CeilingUnique
  <2>4. Ceiling(r + 1, p) = q + 1  BY <1>3, <2>2, CeilingUnique
  <2> QED  BY <1>1, <1>3, <1>6, <2>3, <2>4 DEF m
<1> QED  BY <1>5, <1>6

LEMMA TimesInOrder ==
  ASSUME NEW a \in Nat, NEW b \in Nat, NEW c \in Nat, a <= b
  PROVE  a * c <= b * c /\ a * c \in Nat
BY SMT

LEMMA ParamFacts ==
  ASSUME TasksInv, NEW i \in Tasks
  PROVE  /\ param[i].period \in Nat \ {0} /\ param[i].deadline \in Nat \ {0}
         /\ param[i].wcet \in Nat \ {0}
         /\ Higher(i) \in SUBSET Tasks /\ Lower(i) \in SUBSET Tasks
         /\ IsFiniteSet(Higher(i)) /\ IsFiniteSet(Lower(i)) /\ IsFiniteSet(Tasks)
         /\ \A r : Jobs(r, i) = Ceiling(r, param[i].period)
<1>1. param[i] \in Params /\ IsFiniteSet(Tasks)  BY DEF TasksInv, AreTasks
<1>2. Higher(i) \in SUBSET Tasks /\ Lower(i) \in SUBSET Tasks  BY DEF Higher, Lower
<1>3. IsFiniteSet(Higher(i)) /\ IsFiniteSet(Lower(i))  BY <1>1, <1>2, FS_Subset
<1> QED  BY <1>1, <1>2, <1>3 DEF Params, Jobs, Ceiling

LEMMA JobsFacts ==
  ASSUME TasksInv, NEW i \in Tasks, NEW r \in Nat, NEW s \in Nat, r <= s
  PROVE  /\ Jobs(r, i) \in Nat /\ Jobs(r, i) * param[i].wcet \in Nat
         /\ Jobs(r, i) * param[i].wcet <= Jobs(s, i) * param[i].wcet
         /\ r >= 1 => param[i].wcet <= Jobs(r, i) * param[i].wcet
<1> DEFINE p == param[i].period
           c == param[i].wcet
<1>1. p \in Nat \ {0} /\ c \in Nat /\ Jobs(r, i) = Ceiling(r, p) /\ Jobs(s, i) = Ceiling(s, p)
  BY ParamFacts
<1> HIDE DEF p
<1>2. Ceiling(r, p) \in Nat /\ Ceiling(s, p) \in Nat  BY <1>1, CeilingBounds
<1>3. Ceiling(r, p) <= Ceiling(s, p)  BY <1>1, CeilingInOrder
<1>4. r >= 1 => 1 <= Ceiling(r, p)
  <2>1. r >= 1 => Ceiling(1, p) <= Ceiling(r, p)  BY <1>1, CeilingInOrder
  <2> QED  BY <1>1, <2>1, CeilingSteps
<1>5. r >= 1 => 1 * c <= Ceiling(r, p) * c  BY <1>1, <1>2, <1>4, TimesInOrder
<1>6. Ceiling(r, p) * c <= Ceiling(s, p) * c /\ Ceiling(r, p) * c \in Nat
  BY <1>1, <1>2, <1>3, TimesInOrder
<1> QED  BY <1>1, <1>2, <1>5, <1>6

-----------------------------------------------------------------------------
(* The demand grows with the response, and is never less than the start.   *)
StartOf(i, blocking) ==
  param[i].wcet + blocking + SumOver([j \in Tasks |-> param[j].wcet], Higher(i))

LEMMA DemandFacts ==
  ASSUME TasksInv, NEW i \in Tasks, NEW blocking \in Nat, NEW r \in Nat, NEW s \in Nat, r <= s
  PROVE  /\ Demand(i, blocking, r) \in Nat
         /\ Demand(i, blocking, r) <= Demand(i, blocking, s)
         /\ StartOf(i, blocking) \in Nat
         /\ param[i].wcet + blocking <= StartOf(i, blocking)
         /\ \A j \in Higher(i) : param[i].wcet + blocking + param[j].wcet <= StartOf(i, blocking)
         /\ r >= 1 => StartOf(i, blocking) <= Demand(i, blocking, r)
<1> DEFINE H == Higher(i)
           c == [j \in Tasks |-> param[j].wcet]
           f == [j \in Tasks |-> Jobs(r, j) * param[j].wcet]
           g == [j \in Tasks |-> Jobs(s, j) * param[j].wcet]
<1>1. IsFiniteSet(H) /\ param[i].wcet \in Nat  BY ParamFacts
<1>2. ASSUME NEW j \in H
      PROVE  /\ c[j] \in Nat /\ f[j] \in Nat /\ g[j] \in Nat
             /\ f[j] <= g[j] /\ (r >= 1 => c[j] <= f[j]) /\ c[j] = param[j].wcet
  <2>1. j \in Tasks  BY ParamFacts
  <2>2. c[j] \in Nat  BY <2>1, ParamFacts
  <2> QED  BY <2>1, <2>2, JobsFacts
<1>3. /\ Demand(i, blocking, r) = param[i].wcet + blocking + SumOver(f, H)
      /\ Demand(i, blocking, s) = param[i].wcet + blocking + SumOver(g, H)
      /\ StartOf(i, blocking) = param[i].wcet + blocking + SumOver(c, H)
  BY DEF Demand, StartOf
<1> HIDE DEF f, g, c, H
<1>4. SumOver(f, H) \in Nat /\ SumOver(g, H) \in Nat /\ SumOver(c, H) \in Nat
      /\ \A j \in H : c[j] <= SumOver(c, H)
  BY <1>1, <1>2, SumOfNaturals
<1>5. SumOver(f, H) <= SumOver(g, H)  BY <1>1, <1>2, SumsInOrder
<1>6. r >= 1 => SumOver(c, H) <= SumOver(f, H)  BY <1>1, <1>2, SumsInOrder
<1>7. \A j \in H : param[j].wcet <= SumOver(c, H) /\ param[j].wcet \in Nat  BY <1>2, <1>4
<1> QED  BY <1>1, <1>3, <1>4, <1>5, <1>6, <1>7 DEF H

LEMMA BlockingFacts ==
  ASSUME TasksInv, NEW i \in Tasks
  PROVE  /\ Blocking(i) \in Nat
         /\ policy # "thread" => \A j \in Lower(i) : param[j].wcet <= Blocking(i)
<1>1. Lower(i) \in SUBSET Tasks /\ IsFiniteSet(Lower(i))  BY ParamFacts
<1>2. CASE policy = "thread"  BY <1>1, <1>2, ThreadBlockingFacts DEF Blocking
<1>3. CASE policy # "thread"
  <2> DEFINE c == [j \in Lower(i) |-> param[j].wcet]
             all == {0} \cup {c[j] : j \in Lower(i)}
  <2>1. Blocking(i) = Max(all)  BY <1>3 DEF Blocking, CoopBlocking
  <2>2. \A j \in Lower(i) : c[j] \in Nat /\ c[j] = param[j].wcet  BY <1>1, ParamFacts
  <2> HIDE DEF c
  <2>3. IsFiniteSet(all)
    <3>1. IsFiniteSet({c[j] : j \in Lower(i)})  BY <1>1, FiniteImage
    <3>2. IsFiniteSet({0})  BY FS_Singleton
    <3> QED  BY <3>1, <3>2, FS_Union
  <2>4. \A x \in all : x \in Nat  BY <2>2
  <2>5. \A j \in Lower(i) : c[j] \in all  OBVIOUS
  <2>6. 0 \in all  OBVIOUS
  <2> HIDE DEF all
  <2>7. Max(all) \in all /\ \A x \in all : x <= Max(all)  BY <2>3, <2>4, <2>6, MaxFacts
  <2> QED  BY <2>1, <2>2, <2>4, <2>5, <2>7
<1> QED  BY <1>2, <1>3

(* The iteration ends within the deadline exactly if there is a response   *)
(* that covers its own demand.                                             *)
LEMMA ResponseFacts ==
  ASSUME TasksInv, NEW i \in Tasks
  PROVE  /\ Response(i) \in Nat
         /\ Response(i) <= param[i].deadline <=>
              \E r \in 1 .. param[i].deadline : Demand(i, Blocking(i), r) = r
<1> DEFINE B == Blocking(i)
           D == param[i].deadline
           S == StartOf(i, B)
           Dem(r) == Demand(i, B, r)
           Round(r) == IF Dem(r) > D THEN r ELSE Dem(r)
           next == [r \in Nat |-> Round(r)]
           IsPrev(f) == f = [k \in 0 .. D |-> IF k = 0 THEN S ELSE Round(f[k - 1])]
           prev == CHOOSE f : IsPrev(f)
<1>1. Response(i) = Dem(prev[D])  BY DEF Response, StartOf
<1>2. B \in Nat /\ D \in Nat \ {0} /\ param[i].wcet \in Nat \ {0}
  BY BlockingFacts, ParamFacts
<1> HIDE DEF B
<1>3. S \in Nat /\ S >= 1
  <2>1. 0 <= 0 /\ 0 \in Nat  OBVIOUS
  <2>2. S \in Nat /\ param[i].wcet + B <= S  BY <1>2, <2>1, DemandFacts
  <2> QED  BY <1>2, <2>2
<1>4. \A r \in Nat : Dem(r) \in Nat /\ (r >= 1 => S <= Dem(r))  BY <1>2, DemandFacts, SMTT(30)
<1>5. \A r, s \in Nat : r <= s => Dem(r) <= Dem(s)  BY <1>2, DemandFacts
<1> HIDE DEF D, S, Dem
<1>6. \E f : IsPrev(f)
  <2>0. PICK g : Iterates(g, S, next, D)
    <3>1. D \in Nat  BY <1>2
    <3> HIDE DEF next, S, D
    <3> QED  BY <3>1, IterationExists
  <2> DEFINE f == [k \in 0 .. D |-> g[k]]
  <2>1. f = [k \in 0 .. D |-> f[k]] /\ f[0] = S /\ \A k \in 0 .. D : k # 0 => f[k] = next[f[k - 1]]
    <3> HIDE DEF next, S
    <3> QED  BY <1>2, <2>0 DEF Iterates
  <2> HIDE DEF f
  <2>2. \A k \in 0 .. D : f[k] = IF k = 0 THEN S ELSE next[f[k - 1]]  BY <2>1
  <2>3. \A k \in 0 .. D : f[k] \in Nat
    <3> DEFINE bad == {k \in 0 .. D : f[k] \notin Nat}
    <3> SUFFICES ASSUME bad # {}  PROVE FALSE
      OBVIOUS
    <3>1. PICK k \in bad : \A l \in bad : k <= l
      <4>1. bad \in SUBSET Nat  BY <1>2
      <4> HIDE DEF bad
      <4> QED  BY <4>1, Least, Zenon
    <3>2. k \in 0 .. D /\ f[k] \notin Nat  OBVIOUS
    <3>3. k # 0  BY <1>3, <2>2, <3>2
    <3>4. k - 1 \in 0 .. D /\ k - 1 \notin bad
      <4>1. k \in Nat /\ D \in Nat  BY <1>2
      <4>2. k - 1 \in 0 .. D /\ ~ (k <= k - 1)  BY <3>2, <3>3, <4>1
      <4> QED  BY <3>1, <4>2
    <3>5. f[k - 1] \in Nat  BY <3>4
    <3>6. f[k] = Round(f[k - 1])  BY <2>2, <3>2, <3>3, <3>5
    <3> QED  BY <1>4, <3>2, <3>5, <3>6
  <2>4. \A k \in 0 .. D : k # 0 => next[f[k - 1]] = Round(f[k - 1])
    <3> TAKE k \in 0 .. D
    <3> HAVE k # 0
    <3>1. k - 1 \in 0 .. D  BY <1>2
    <3> QED  BY <2>3, <3>1
  <2>5. IsPrev(f)
    <3> HIDE DEF next, Round
    <3> QED  BY <2>1, <2>4
  <2> QED  BY <2>5
<1>7. IsPrev(prev)
  <2> HIDE DEF IsPrev
  <2> QED  BY <1>6
<1>8. \A k \in 0 .. D : prev[k] = IF k = 0 THEN S ELSE Round(prev[k - 1])
  <2> HIDE DEF prev
  <2> QED  BY <1>7
<1> HIDE DEF prev, IsPrev, next
<1> DEFINE Good(k) == /\ prev[k] \in Nat /\ prev[k] >= 1 /\ prev[k] <= Dem(prev[k])
                      /\ Dem(prev[k]) > D \/ Dem(prev[k]) = prev[k] \/ prev[k] >= k + 1
                      /\ \A r \in 1 .. D : Dem(r) = r => prev[k] <= r
<1>9. \A k \in 0 .. D : Good(k)
  <2> DEFINE bad == {k \in 0 .. D : ~ Good(k)}
  <2> SUFFICES ASSUME bad # {}  PROVE FALSE
    OBVIOUS
  <2>1. PICK k \in bad : \A l \in bad : k <= l
    <3>1. bad \in SUBSET Nat  BY <1>2
    <3> HIDE DEF bad
    <3> QED  BY <3>1, Least, Zenon
  <2>2. k \in 0 .. D /\ ~ Good(k)  OBVIOUS
  <2>3. k # 0
    <3>1. prev[0] = S  BY <1>2, <1>8
    <3>2. S <= Dem(S)  BY <1>3, <1>4
    <3>3. \A r \in 1 .. D : Dem(r) = r => S <= r  BY <1>4
    <3>4. Good(0)  BY <1>3, <3>1, <3>2, <3>3
    <3> QED  BY <2>2, <3>4
  <2>4. k - 1 \in 0 .. D /\ k - 1 \notin bad
    <3>1. k \in Nat /\ D \in Nat  BY <1>2
    <3>2. k - 1 \in 0 .. D /\ ~ (k <= k - 1)  BY <2>2, <2>3, <3>1
    <3> QED  BY <2>1, <3>2
  <2> DEFINE x == prev[k - 1]
  <2>5. Good(k - 1)  BY <2>4
  <2>6. /\ x \in Nat /\ x >= 1 /\ x <= Dem(x) /\ Dem(x) \in Nat
        /\ Dem(x) > D \/ Dem(x) = x \/ x >= k
        /\ \A r \in 1 .. D : Dem(r) = r => x <= r
    BY <1>4, <2>4, <2>5
  <2>7. prev[k] = Round(x)  BY <1>8, <2>2, <2>3
  <2> HIDE DEF x, Good
  <2>8. CASE Dem(x) > D
    <3>1. prev[k] = x  BY <2>7, <2>8
    <3> QED  BY <2>2, <2>6, <2>8, <3>1 DEF Good
  <2>9. CASE ~ (Dem(x) > D)
    <3> DEFINE y == Dem(x)
    <3>1. prev[k] = y /\ y \in Nat /\ y >= 1  BY <2>6, <2>7, <2>9
    <3>2. y <= Dem(y)  BY <1>5, <2>6
    <3>3. \A r \in 1 .. D : Dem(r) = r => y <= r
      <4> TAKE r \in 1 .. D
      <4> HAVE Dem(r) = r
      <4>1. r \in Nat /\ x <= r  BY <1>2, <2>6
      <4>2. Dem(x) <= Dem(r)  BY <1>5, <2>6, <4>1
      <4> QED  BY <4>2
    <3>4. y = x => Dem(y) = y  OBVIOUS
    <3>5. y # x => y >= k + 1  BY <2>2, <2>6, <2>9, <1>2
    <3> HIDE DEF y
    <3> QED  BY <2>2, <3>1, <3>2, <3>3, <3>4, <3>5 DEF Good
  <2> QED  BY <2>8, <2>9
<1> DEFINE last == prev[D]
<1>10. Good(D)  BY <1>2, <1>9
<1>11. /\ last \in Nat /\ last >= 1 /\ last <= Dem(last) /\ Dem(last) \in Nat
       /\ Dem(last) > D \/ Dem(last) = last \/ last >= D + 1
       /\ \A r \in 1 .. D : Dem(r) = r => last <= r
  BY <1>4, <1>10
<1> HIDE DEF last, Good
<1>12. ASSUME Dem(last) <= D  PROVE \E r \in 1 .. D : Dem(r) = r
  <2>1. Dem(last) = last /\ last \in 1 .. D  BY <1>2, <1>11, <1>12
  <2> QED  BY <2>1
<1>13. ASSUME NEW r \in 1 .. D, Dem(r) = r  PROVE Dem(last) <= D
  <2>1. r \in Nat /\ last <= r  BY <1>2, <1>11, <1>13
  <2>2. Dem(last) <= Dem(r)  BY <1>5, <1>11, <2>1
  <2> QED  BY <1>2, <1>11, <1>13, <2>1, <2>2
<1> QED  BY <1>1, <1>11, <1>12, <1>13 DEF last, Dem, D, B

-----------------------------------------------------------------------------
(* What is watched.                                                        *)
SchedTyped ==
  /\ TasksInv
  /\ accepted = Accepts
  /\ \A i \in Tasks : param[i].deadline <= param[i].period
  /\ policy = "cyclic" =>
       \E t \in 1 .. Horizon : \A i \in Tasks : t % param[i].period = 0
  /\ now \in Nat /\ polled \in Nat /\ missed \in BOOLEAN /\ todo \in SUBSET Tasks
  /\ left \in [Tasks -> Nat] /\ due \in [Tasks -> Nat]

LEMMA SchedStart == CheckInit => SchedTyped
<1> SUFFICES ASSUME CheckInit  PROVE SchedTyped
  OBVIOUS
<1>1. policy \in Policies /\ "thread" \in Policies  BY DEF CheckInit, Policies
<1>2. /\ AreTasks(Tasks) /\ param \in [Tasks -> Params]
      /\ access \in [Tasks -> [Resources -> Nat]]
      /\ \A i \in Tasks : param[i].deadline <= param[i].period
      /\ policy = "cyclic" =>
           \E t \in 1 .. Horizon : \A i \in Tasks : t % param[i].period = 0
  <2>1. CASE param \in Timings[policy] /\ access = [i \in Tasks |-> [r \in Resources |-> 0]]
    BY <1>1, <2>1, AnalysedAssumption DEF Tasks
  <2>2. CASE /\ access \in Accesses /\ policy = "thread"
             /\ param = [i \in DOMAIN access |->
                           [period |-> Horizon, deadline |-> Horizon, wcet |-> 1]]
    <3>1. AreTasks(DOMAIN access) /\ access \in [DOMAIN access -> [Resources -> Nat]]
      BY <2>2, AnalysedAssumption
    <3>2. Tasks = DOMAIN access  BY <2>2 DEF Tasks
    <3>3. Horizon \in Nat \ {0}  BY AnalysedAssumption
    <3>4. [period |-> Horizon, deadline |-> Horizon, wcet |-> 1] \in Params
      BY <3>3 DEF Params
    <3>5. \A i \in Tasks : param[i] = [period |-> Horizon, deadline |-> Horizon, wcet |-> 1]
      BY <2>2, <3>2
    <3>6. param \in [Tasks -> Params]  BY <2>2, <3>2, <3>4
    <3>7. \A i \in Tasks : param[i].deadline <= param[i].period  BY <3>3, <3>5
    <3> QED  BY <2>2, <3>1, <3>2, <3>6, <3>7
  <2> QED  BY <2>1, <2>2 DEF CheckInit
<1>3. TasksInv  BY <1>1, <1>2 DEF TasksInv
<1>4. /\ now \in Nat /\ polled \in Nat /\ missed \in BOOLEAN /\ todo \in SUBSET Tasks
      /\ left \in [Tasks -> Nat] /\ due \in [Tasks -> Nat]
  BY DEF CheckInit
<1> QED  BY <1>2, <1>3, <1>4 DEF SchedTyped, CheckInit

(* What the checks analyse stays.                                          *)
LEMMA SchedStays ==
  ASSUME UNCHANGED <<policy, param, access, accepted>>
  PROVE  /\ TasksInv => TasksInv'
         /\ Tasks' = Tasks /\ Accepts' = Accepts
         /\ \A i : Higher(i)' = Higher(i) /\ Lower(i)' = Lower(i) /\ Blocking(i)' = Blocking(i)
         /\ \A i, r : Demand(i, Blocking(i), r)' = Demand(i, Blocking(i), r)
         /\ \A i : Response(i)' = Response(i)
BY DEF TasksInv, Tasks, Accepts, Higher, Lower, Less, Blocking, ThreadBlocking, CoopBlocking,
       FirstOf, Demand, Jobs, Response, Slots, InSlot, Finish, SlotCost, Hyperperiod, Base,
       IsMultiple, Max, Min

(* The nearest time and the length of a slot are times.                    *)
LEMMA NearestFacts ==
  ASSUME TasksInv, NEW f, \A i \in Tasks : f[i] \in Nat
  PROVE  /\ Min({f[i] : i \in Tasks}) \in Nat
         /\ \E i \in Tasks : Min({f[j] : j \in Tasks}) = f[i]
         /\ \A i \in Tasks : Min({f[j] : j \in Tasks}) <= f[i]
<1> DEFINE all == {f[i] : i \in Tasks}
<1>1. all \in SUBSET Nat /\ all # {}  BY DEF TasksInv, AreTasks
<1>2. \A i \in Tasks : f[i] \in all  OBVIOUS
<1>3. \A x \in all : \E i \in Tasks : x = f[i]  OBVIOUS
<1> HIDE DEF all
<1>4. \E x \in all : \A y \in all : x <= y  BY <1>1, Least, Zenon
<1>5. Min(all) \in all /\ \A y \in all : Min(all) <= y  BY <1>4 DEF Min
<1> QED  BY <1>1, <1>2, <1>3, <1>5 DEF all

LEMMA MaxOfTwo ==
  ASSUME NEW x \in Nat, NEW y \in Nat
  PROVE  Max({x, y}) = IF x <= y THEN y ELSE x
<1> DEFINE v == IF x <= y THEN y ELSE x
<1>1. v \in {x, y} /\ \A z \in {x, y} : v >= z  OBVIOUS
<1>2. \A u \in {x, y} : (\A z \in {x, y} : u >= z) => u = v  OBVIOUS
<1> HIDE DEF v
<1>3. Max({x, y}) = v  BY <1>1, <1>2 DEF Max
<1> QED  BY <1>3 DEF v

LEMMA BaseFacts ==
  ASSUME TasksInv
  PROVE  Base \in Nat \ {0} /\ \A i \in Tasks : param[i].period % Base = 0
<1> DEFINE all == {d \in 1 .. Horizon : \A i \in Tasks : IsMultiple(param[i].period, d)}
<1>1. Horizon \in Nat \ {0}  BY AnalysedAssumption
<1>2. \A i \in Tasks : param[i].period \in Nat /\ param[i].period % 1 = 0
  BY ParamFacts
<1>3. 1 \in all  BY <1>1, <1>2 DEF IsMultiple
<1>4. all \in SUBSET (0 .. Horizon)  BY <1>1
<1>5. \A d \in all : d \in Nat \ {0} /\ \A i \in Tasks : param[i].period % d = 0
  BY <1>1 DEF IsMultiple
<1>6. Base = Max(all)  BY DEF Base
<1> HIDE DEF all
<1>7. \E x \in all : \A y \in all : x >= y  BY <1>1, <1>3, <1>4, Greatest, Zenon
<1>8. Max(all) \in all  BY <1>7 DEF Max
<1> QED  BY <1>5, <1>6, <1>8

LEMMA SchedStep == SchedTyped /\ [CheckNext]_checkVars => SchedTyped'
<1> SUFFICES ASSUME SchedTyped, [CheckNext]_checkVars  PROVE SchedTyped'
  OBVIOUS
<1>1. UNCHANGED <<policy, param, access, accepted>>
  BY DEF CheckNext, RunThreads, Visit, NextPass, checkVars
<1>2. /\ TasksInv' /\ accepted' = Accepts' /\ Tasks' = Tasks
      /\ \A i \in Tasks' : param'[i].deadline <= param'[i].period
      /\ policy' = "cyclic" =>
           \E t \in 1 .. Horizon : \A i \in Tasks' : t % param'[i].period = 0
  BY <1>1, SchedStays DEF SchedTyped
<1> DEFINE Good == /\ now' \in Nat /\ polled' \in Nat /\ missed' \in BOOLEAN
                   /\ todo' \in SUBSET Tasks
                   /\ left' \in [Tasks -> Nat] /\ due' \in [Tasks -> Nat]
<1>3. ASSUME RunThreads  PROVE Good
  <2> DEFINE ready == [i \in Tasks |-> IF now % param[i].period = 0 THEN param[i].wcet ELSE left[i]]
  <2>1. \A i \in Tasks : ready[i] \in Nat  BY ParamFacts DEF SchedTyped
  <2>2. left' = [i \in Tasks |->
                   IF i \in {j \in Tasks : ready[j] > 0}
                      /\ Higher(i) \cap {j \in Tasks : ready[j] > 0} = {}
                   THEN ready[i] - 1 ELSE ready[i]]
    BY <1>3 DEF RunThreads
  <2> HIDE DEF ready
  <2>3. left' \in [Tasks -> Nat]  BY <2>1, <2>2
  <2>4. now' = now + 1 /\ UNCHANGED <<due, polled, todo>>  BY <1>3 DEF RunThreads
  <2>5. missed' \in BOOLEAN  BY <1>3 DEF RunThreads
  <2> QED  BY <2>3, <2>4, <2>5 DEF SchedTyped
<1>4. ASSUME NEW i \in Tasks, Visit(i)  PROVE Good
  <2>1. param[i].wcet \in Nat /\ param[i].period \in Nat /\ param[i].deadline \in Nat
    BY ParamFacts DEF SchedTyped
  <2>2. due \in [Tasks -> Nat] /\ now \in Nat /\ missed \in BOOLEAN  BY DEF SchedTyped
  <2>3. UNCHANGED <<left, polled>> /\ todo' = todo \ {i}  BY <1>4 DEF Visit
  <2>4. CASE due[i] <= polled
    <3>1. /\ now' = now + param[i].wcet
          /\ due' = [due EXCEPT ![i] = @ + param[i].period]
          /\ missed' = (now' > due[i] + param[i].deadline)
      BY <1>4, <2>4 DEF Visit
    <3> QED  BY <2>1, <2>2, <2>3, <3>1 DEF SchedTyped
  <2>5. CASE ~ (due[i] <= polled)
    <3>1. UNCHANGED <<now, due, missed>>  BY <1>4, <2>5 DEF Visit
    <3> QED  BY <2>3, <3>1 DEF SchedTyped
  <2> QED  BY <2>4, <2>5
<1>5. ASSUME NextPass  PROVE Good
  <2>1. Min({due[i] : i \in Tasks}) \in Nat  BY NearestFacts DEF SchedTyped
  <2>2. Base \in Nat  BY BaseFacts DEF SchedTyped
  <2>3. \A x, y \in Nat : Max({x, y}) \in Nat  BY MaxOfTwo
  <2>4. CASE policy = "coop"  BY <1>5, <2>1, <2>3, <2>4 DEF NextPass, SchedTyped
  <2>5. CASE policy # "coop"
    <3>1. polled' \in Nat  BY <1>5, <2>2, <2>5 DEF NextPass, SchedTyped
    <3>2. now' \in Nat  BY <1>5, <2>3, <2>5, <3>1 DEF NextPass, SchedTyped
    <3> QED  BY <1>5, <3>1, <3>2 DEF NextPass, SchedTyped
  <2> QED  BY <2>4, <2>5
<1>6. ASSUME UNCHANGED checkVars  PROVE Good
  BY <1>6 DEF checkVars, SchedTyped
<1>7. Good
  <2> HIDE DEF Good
  <2> QED  BY <1>3, <1>4, <1>5, <1>6 DEF CheckNext
<1> QED  BY <1>2, <1>7 DEF SchedTyped

-----------------------------------------------------------------------------
(* Threads.  What there is to do of each task in the next unit of time;    *)
(* what the tasks above i have done from b to t if rest is left of them,   *)
(* and what i has done of its activation.                                  *)
Ready(i) == IF now % param[i].period = 0 THEN param[i].wcet ELSE left[i]

Worked(i, b, t, rest) ==
  SumOver([j \in Tasks |-> (Jobs(t, j) - Jobs(b, j)) * param[j].wcet - rest[j]], Higher(i))

Own(i, rest) == IF rest[i] > 0 THEN param[i].wcet - rest[i] ELSE 0

(* As long as no deadline is missed an activation ends before the next.    *)
OnTime ==
  policy = "thread" /\ ~missed =>
    \A i \in Tasks : /\ left[i] <= param[i].wcet
                     /\ left[i] > 0 => now % param[i].period # 0

LEMMA ReadyFacts ==
  ASSUME SchedTyped, NEW i \in Tasks
  PROVE  /\ Ready(i) \in Nat
         /\ OnTime /\ policy = "thread" /\ ~missed => Ready(i) <= param[i].wcet
<1>1. left[i] \in Nat /\ param[i].wcet \in Nat  BY ParamFacts DEF SchedTyped
<1> QED  BY <1>1 DEF Ready, OnTime

LEMMA WithinPeriod ==
  ASSUME NEW x \in Nat, NEW p \in Nat \ {0}, x + 1 - (x \div p) * p < p
  PROVE  (x + 1) % p # 0 /\ (x + 1) \div p = x \div p
<1> DEFINE q == x \div p
           m == x % p
           d == (x + 1) \div p
<1>1. q \in Int /\ m \in 0 .. p - 1 /\ x = p * q + m  BY DivMod
<1>2. x + 1 \in Int /\ x + 1 - q * p < p  OBVIOUS
<1>3. d \in Int /\ x + 1 = p * d + ((x + 1) % p)
  <2> HIDE DEF d
  <2>1. \A y \in Int : y \div p \in Int /\ y = p * (y \div p) + (y % p)  BY DivMod
  <2> QED  BY <1>2, <2>1 DEF d
<1> HIDE DEF q, m, d
<1>4. m + 1 \in 0 .. p - 1 /\ x + 1 = p * q + (m + 1)  BY <1>1, <1>2
<1>5. (x + 1) % p = m + 1  BY <1>1, <1>2, <1>4, ModUnique
<1>6. p * (d - q) = 0  BY <1>1, <1>3, <1>4, <1>5
<1>7. d = q
  <2>1. PICK k \in Int : k = d - q  BY <1>1, <1>3
  <2>2. p * k = 0  BY <1>6, <2>1
  <2>3. k = 0
    <3>1. CASE k >= 1  BY <2>2, <3>1
    <3>2. CASE k <= -1  BY <2>2, <3>2
    <3> QED  BY <2>1, <3>1, <3>2
  <2> QED  BY <1>1, <1>3, <2>1, <2>3
<1> QED  BY <1>1, <1>5, <1>7 DEF q, d

(* What one unit of the processor does, to i and to the tasks above it.    *)
LEMMA ThreadsRun ==
  ASSUME SchedTyped, RunThreads, NEW i \in Tasks
  PROVE  /\ (\E j \in Higher(i) : Ready(j) > 0) =>
              /\ left'[i] = Ready(i)
              /\ \E h \in Higher(i) :
                   /\ Ready(h) > 0 /\ left'[h] = Ready(h) - 1
                   /\ \A j \in Higher(i) \ {h} : left'[j] = Ready(j)
         /\ ~ (\E j \in Higher(i) : Ready(j) > 0) =>
              /\ \A j \in Higher(i) : Ready(j) = 0 /\ left'[j] = 0
              /\ left'[i] = IF Ready(i) > 0 THEN Ready(i) - 1 ELSE 0
         /\ left'[i] <= Ready(i)
<1> DEFINE R == {j \in Tasks : Ready(j) > 0}
<1>1. \A j \in Tasks : left'[j] = IF j \in R /\ Higher(j) \cap R = {} THEN Ready(j) - 1 ELSE Ready(j)
  <2> DEFINE ready == [j \in Tasks |-> IF now % param[j].period = 0 THEN param[j].wcet ELSE left[j]]
  <2>1. \A j \in Tasks : ready[j] = Ready(j)  BY DEF Ready
  <2>2. left' = [j \in Tasks |->
                   IF j \in {k \in Tasks : ready[k] > 0}
                      /\ Higher(j) \cap {k \in Tasks : ready[k] > 0} = {}
                   THEN ready[j] - 1 ELSE ready[j]]
    BY DEF RunThreads
  <2> HIDE DEF ready
  <2>3. {k \in Tasks : ready[k] > 0} = R  BY <2>1
  <2> HIDE DEF R
  <2> QED  BY <2>1, <2>2, <2>3
<1>2. \A j \in Tasks : Ready(j) \in Nat  BY ReadyFacts
<1>3. TasksInv  BY DEF SchedTyped
<1>4. \A j, k \in Tasks : j \in Higher(k) <=> Less(j, k)  BY DEF Higher
<1>5. Higher(i) \in SUBSET Tasks /\ \A j \in Higher(i) : Higher(j) \in SUBSET Higher(i)
  BY <1>3, <1>4, PriorityOrder DEF Higher
<1>6. ASSUME NEW k \in Higher(i), Ready(k) > 0
      PROVE  /\ left'[i] = Ready(i)
             /\ \E h \in Higher(i) :
                  /\ Ready(h) > 0 /\ left'[h] = Ready(h) - 1
                  /\ \A j \in Higher(i) \ {h} : left'[j] = Ready(j)
  <2> DEFINE h == FirstOf(R)
  <2>1. k \in R /\ k \in Higher(i) \cap R  BY <1>5, <1>6
  <2>2. h \in R /\ \A j \in R \ {h} : Less(h, j)
    <3>1. R \in SUBSET Tasks /\ R # {}  BY <2>1
    <3> HIDE DEF R
    <3> QED  BY <1>3, <3>1, FirstFacts
  <2> HIDE DEF h, R
  <2>3. h \in Tasks /\ k \in Tasks  BY <1>5, <2>1, <2>2 DEF R
  <2>4. h \in Higher(i)
    <3>1. h = k \/ Less(h, k)  BY <2>1, <2>2
    <3>2. Less(k, i)  BY <1>4, <1>6, <2>3
    <3>3. Less(h, i)  BY <1>3, <2>3, <3>1, <3>2, PriorityOrder
    <3> QED  BY <1>4, <2>3, <3>3
  <2>5. Higher(h) \cap R = {}
    <3> SUFFICES ASSUME NEW j \in R, j \in Higher(h)  PROVE FALSE
      OBVIOUS
    <3>1. j \in Tasks  BY DEF R
    <3>2. Less(j, h)  BY <1>4, <2>3, <3>1
    <3>3. ~ Less(h, j) /\ j # h  BY <1>3, <2>3, <3>1, <3>2, PriorityOrder
    <3> QED  BY <2>2, <3>3
  <2>6. \A j \in Tasks : j # h => ~ (j \in R /\ Higher(j) \cap R = {})
    <3> SUFFICES ASSUME NEW j \in Tasks, j # h, j \in R, Higher(j) \cap R = {}  PROVE FALSE
      OBVIOUS
    <3>1. Less(h, j)  BY <2>2
    <3>2. h \in Higher(j) \cap R  BY <1>4, <2>2, <2>3, <3>1
    <3> QED  BY <3>2
  <2>7. left'[h] = Ready(h) - 1  BY <1>1, <2>2, <2>3, <2>5
  <2>8. \A j \in Tasks : j # h => left'[j] = Ready(j)  BY <1>1, <2>6
  <2>9. Ready(h) > 0  BY <2>2 DEF R
  <2>10. i # h  BY <1>3, <1>4, <2>3, <2>4, PriorityOrder
  <2> QED  BY <1>5, <2>4, <2>7, <2>8, <2>9, <2>10
<1>7. ASSUME ~ \E j \in Higher(i) : Ready(j) > 0
      PROVE  /\ \A j \in Higher(i) : Ready(j) = 0 /\ left'[j] = 0
             /\ left'[i] = IF Ready(i) > 0 THEN Ready(i) - 1 ELSE 0
  <2>1. \A j \in Higher(i) : j \in Tasks /\ Ready(j) = 0 /\ j \notin R  BY <1>2, <1>5, <1>7
  <2>2. \A j \in Higher(i) : left'[j] = 0  BY <1>1, <2>1
  <2>3. Higher(i) \cap R = {}  BY <2>1
  <2>4. i \in R <=> Ready(i) > 0  OBVIOUS
  <2> HIDE DEF R
  <2>5. left'[i] = IF Ready(i) > 0 THEN Ready(i) - 1 ELSE Ready(i)  BY <1>1, <2>3, <2>4
  <2>6. Ready(i) \in Nat  BY <1>2
  <2> QED  BY <2>1, <2>2, <2>5, <2>6
<1>8. left'[i] <= Ready(i)
  <2>1. left'[i] = Ready(i) - 1 \/ left'[i] = Ready(i)  BY <1>1
  <2> HIDE DEF R
  <2> QED  BY <1>2, <2>1
<1> QED  BY <1>6, <1>7, <1>8

LEMMA OnTimeStep ==
  ASSUME SchedTyped, OnTime, [CheckNext]_checkVars
  PROVE  OnTime'
<1> SUFFICES ASSUME policy' = "thread", ~ missed', NEW i \in Tasks'
             PROVE  left'[i] <= param'[i].wcet /\ (left'[i] > 0 => now' % param'[i].period # 0)
  BY DEF OnTime
<1>0. UNCHANGED <<policy, param, access, accepted>>
  BY DEF CheckNext, RunThreads, Visit, NextPass, checkVars
<1>1. policy = "thread" /\ i \in Tasks  BY <1>0 DEF Tasks
<1>2. CASE UNCHANGED checkVars  BY <1>1, <1>2 DEF OnTime, checkVars
<1>3. CASE RunThreads
  <2> DEFINE T == param[i].period
  <2>1. ~ missed /\ now' = now + 1  BY <1>3 DEF RunThreads
  <2>2. Ready(i) \in Nat /\ Ready(i) <= param[i].wcet  BY <1>1, <2>1, ReadyFacts
  <2>3. left'[i] <= Ready(i)  BY <1>1, <1>3, ThreadsRun
  <2>4. left'[i] \in Nat /\ now \in Nat
    <3>1. left' \in [Tasks' -> Nat]  BY SchedStep DEF SchedTyped
    <3> QED  BY <3>1 DEF SchedTyped
  <2>5. T \in Nat \ {0} /\ param[i].wcet \in Nat /\ param[i].deadline \in Nat /\ param[i].deadline <= T
    BY <1>1, ParamFacts DEF SchedTyped
  <2>6. ASSUME left'[i] > 0  PROVE (now + 1) % T # 0
    <3>1. ~ (now + 1 - (now \div T) * T >= param[i].deadline)  BY <1>1, <1>3, <2>6 DEF RunThreads
    <3>2. now \div T \in Int  BY <2>4, <2>5
    <3>3. now + 1 - (now \div T) * T < T  BY <2>4, <2>5, <3>1, <3>2
    <3> QED  BY <2>4, <2>5, <3>3, WithinPeriod
  <2> QED  BY <1>0, <2>1, <2>2, <2>3, <2>4, <2>5, <2>6
<1>4. CASE NextPass \/ \E n \in Tasks : Visit(n)  BY <1>1, <1>4 DEF NextPass, Visit
<1> QED  BY <1>2, <1>3, <1>4 DEF CheckNext

LEMMA WorkedFacts ==
  ASSUME TasksInv, NEW i \in Tasks, NEW t \in Nat, NEW b \in 0 .. t, NEW rest \in [Tasks -> Nat]
  PROVE  /\ Worked(i, b, t, rest) \in Int
         /\ Worked(i, b, t, rest) <= SumOver([j \in Tasks |-> Jobs(t - b, j) * param[j].wcet], Higher(i))
         /\ (\A j \in Higher(i) : rest[j] = 0) =>
              /\ Worked(i, t, t, rest) = 0
              /\ Worked(i, 0, t, rest) = SumOver([j \in Tasks |-> Jobs(t, j) * param[j].wcet], Higher(i))
<1> DEFINE H == Higher(i)
           W(d) == [j \in Tasks |-> (Jobs(t, j) - Jobs(d, j)) * param[j].wcet - rest[j]]
           N(d) == [j \in Tasks |-> Jobs(d, j) * param[j].wcet]
<1>1. IsFiniteSet(H) /\ H \in SUBSET Tasks  BY ParamFacts
<1>2. b \in Nat /\ t - b \in Nat /\ b + (t - b) = t  OBVIOUS
<1>3. ASSUME NEW j \in H, NEW d \in 0 .. t
      PROVE  /\ W(d)[j] = (Jobs(t, j) - Jobs(d, j)) * param[j].wcet - rest[j]
             /\ N(d)[j] = Jobs(d, j) * param[j].wcet
             /\ Jobs(t, j) \in Nat /\ Jobs(d, j) \in Nat /\ param[j].wcet \in Nat /\ rest[j] \in Nat
             /\ W(d)[j] \in Int /\ N(d)[j] \in Nat
  <2>1. j \in Tasks /\ d \in Nat  BY <1>1
  <2>2. Jobs(t, j) \in Nat /\ Jobs(d, j) \in Nat  BY <2>1, JobsFacts
  <2>3. param[j].wcet \in Nat  BY <2>1, ParamFacts
  <2> QED  BY <2>1, <2>2, <2>3
<1>4. ASSUME NEW j \in H  PROVE W(b)[j] <= N(t - b)[j] /\ N(t - b)[j] \in Int
  <2> DEFINE p == param[j].period
             c == param[j].wcet
  <2>1. j \in Tasks  BY <1>1
  <2>2. p \in Nat \ {0} /\ \A r : Jobs(r, j) = Ceiling(r, p)  BY <2>1, ParamFacts
  <2>3. Jobs(t, j) <= Jobs(t - b, j) + Jobs(b, j)
    <3> HIDE DEF p
    <3> QED  BY <1>2, <2>2, CeilingPlus
  <2>4. Jobs(t - b, j) \in Nat /\ Jobs(t, j) \in Nat /\ Jobs(b, j) \in Nat  BY <1>2, <2>1, JobsFacts
  <2>5. c \in Nat /\ rest[j] \in Nat  BY <2>1, ParamFacts
  <2>6. W(b)[j] = (Jobs(t, j) - Jobs(b, j)) * c - rest[j] /\ N(t - b)[j] = Jobs(t - b, j) * c
    BY <2>1
  <2> HIDE DEF W, N, c
  <2>7. PICK x \in Nat : x = Jobs(t - b, j)  BY <2>4
  <2>8. PICK y \in Int : y = Jobs(t, j) - Jobs(b, j) /\ y <= x  BY <2>3, <2>4, <2>7
  <2>9. y * c <= x * c  BY <2>5, <2>8
  <2>10. y * c \in Int /\ x * c \in Int  BY <2>5, <2>8
  <2> QED  BY <2>5, <2>6, <2>7, <2>8, <2>9, <2>10
<1>5. /\ \A d : Worked(i, d, t, rest) = SumOver(W(d), H)
      /\ \A d : SumOver([j \in Tasks |-> Jobs(d, j) * param[j].wcet], Higher(i)) = SumOver(N(d), H)
  BY DEF Worked
<1>6. 0 \in 0 .. t /\ t \in 0 .. t  OBVIOUS
<1>7. \A j \in H : Jobs(0, j) = 0
  <2> TAKE j \in H
  <2>1. j \in Tasks  BY <1>1
  <2>2. param[j].period \in Nat \ {0} /\ Jobs(0, j) = Ceiling(0, param[j].period)  BY <2>1, ParamFacts
  <2> QED  BY <1>6, <2>2, CeilingSteps
<1> HIDE DEF H
<1>8. Worked(i, b, t, rest) \in Int /\ Worked(i, b, t, rest) <= SumOver(N(t - b), H)
  <2>1. \A j \in H : W(b)[j] \in Int  BY <1>3
  <2> DEFINE f == W(b)
             g == N(t - b)
  <2>2. \A j \in H : f[j] \in Int /\ g[j] \in Int /\ f[j] <= g[j]  BY <1>4, <2>1
  <2>3. Worked(i, b, t, rest) = SumOver(f, H)  BY <1>5
  <2> HIDE DEF f, g
  <2>4. SumOver(f, H) \in Int  BY <1>1, <2>2, SumFacts
  <2>5. SumOver(f, H) <= SumOver(g, H)  BY <1>1, <2>2, SumsInOrder
  <2> QED  BY <2>3, <2>4, <2>5 DEF g
<1>9. ASSUME \A j \in H : rest[j] = 0
      PROVE  Worked(i, t, t, rest) = 0 /\ Worked(i, 0, t, rest) = SumOver(N(t), H)
  <2> DEFINE f == W(t)
             g == W(0)
             h == N(t)
  <2>1. \A j \in H : f[j] = 0 /\ f[j] \in Nat
    <3> TAKE j \in H
    <3>1. f[j] = (Jobs(t, j) - Jobs(t, j)) * param[j].wcet - 0 /\ Jobs(t, j) \in Nat /\ param[j].wcet \in Nat
      BY <1>3, <1>6, <1>9
    <3> HIDE DEF f
    <3> QED  BY <3>1
  <2>2. \A j \in H : g[j] = h[j] /\ h[j] \in Int
    <3> TAKE j \in H
    <3>1. /\ g[j] = (Jobs(t, j) - 0) * param[j].wcet - 0 /\ h[j] = Jobs(t, j) * param[j].wcet
          /\ Jobs(t, j) \in Nat /\ param[j].wcet \in Nat
      BY <1>3, <1>6, <1>7, <1>9
    <3> HIDE DEF g, h
    <3>2. Jobs(t, j) * param[j].wcet \in Int  BY <3>1
    <3> QED  BY <3>1, <3>2
  <2>3. Worked(i, t, t, rest) = SumOver(f, H) /\ Worked(i, 0, t, rest) = SumOver(g, H)  BY <1>5
  <2> HIDE DEF f, g, h
  <2>4. SumOver(f, H) = 0  BY <1>1, <2>1, SumOfNaturals
  <2>5. SumOver(g, H) = SumOver(h, H)  BY <1>1, <2>2, SumsEqual
  <2> QED  BY <2>3, <2>4, <2>5 DEF h
<1> QED  BY <1>5, <1>8, <1>9 DEF H

(* What the tasks above i have done grows by one while one of them runs.   *)
LEMMA WorkedSteps ==
  ASSUME SchedTyped, OnTime, ~ missed, RunThreads, NEW i \in Tasks, NEW b \in 0 .. now
  PROVE  Worked(i, b, now + 1, left') =
           Worked(i, b, now, left) + IF \E j \in Higher(i) : Ready(j) > 0 THEN 1 ELSE 0
<1> DEFINE H == Higher(i)
           f == [j \in Tasks |-> (Jobs(now, j) - Jobs(b, j)) * param[j].wcet - left[j]]
           m == [j \in Tasks |-> (Jobs(now + 1, j) - Jobs(b, j)) * param[j].wcet - Ready(j)]
           g == [j \in Tasks |-> (Jobs(now + 1, j) - Jobs(b, j)) * param[j].wcet - left'[j]]
<1>1. policy = "thread" /\ now \in Nat /\ b \in Nat /\ now + 1 \in Nat /\ b \in 0 .. now + 1
      /\ now <= now + 1
  BY DEF RunThreads, SchedTyped
<1>2. IsFiniteSet(H) /\ H \in SUBSET Tasks /\ TasksInv  BY ParamFacts DEF SchedTyped
<1>3. left' \in [Tasks -> Nat]
  <2>1. left' \in [Tasks' -> Nat]  BY SchedStep DEF SchedTyped, CheckNext
  <2> QED  BY <2>1 DEF RunThreads, Tasks
<1>4. ASSUME NEW j \in H
      PROVE  /\ f[j] \in Int /\ m[j] \in Int /\ g[j] \in Int /\ m[j] = f[j]
             /\ g[j] = m[j] + Ready(j) - left'[j]
             /\ Ready(j) \in Nat /\ left'[j] \in Nat
  <2> DEFINE p == param[j].period
             c == param[j].wcet
             n == Jobs(now, j)
             k == Jobs(b, j)
  <2>1. j \in Tasks  BY <1>2
  <2>2. p \in Nat \ {0} /\ c \in Nat /\ \A r : Jobs(r, j) = Ceiling(r, p)  BY <1>2, <2>1, ParamFacts
  <2>3. Jobs(now + 1, j) = n + IF now % p = 0 THEN 1 ELSE 0
    <3> HIDE DEF p
    <3> QED  BY <1>1, <2>2, CeilingSteps
  <2>4. n \in Nat /\ k \in Nat  BY <1>1, <1>2, <2>1, JobsFacts
  <2>5. left[j] \in Nat /\ left'[j] \in Nat /\ Ready(j) \in Nat  BY <1>3, <2>1, ReadyFacts DEF SchedTyped
  <2>6. now % p = 0 => left[j] = 0  BY <1>1, <2>1, <2>5 DEF OnTime
  <2>7. Ready(j) = IF now % p = 0 THEN c ELSE left[j]  BY DEF Ready
  <2>8. /\ f[j] = (n - k) * c - left[j]
        /\ m[j] = (Jobs(now + 1, j) - k) * c - Ready(j)
        /\ g[j] = (Jobs(now + 1, j) - k) * c - left'[j]
    BY <2>1
  <2> HIDE DEF f, g, m, p, c, n, k
  <2>9. (n - k) * c \in Int /\ (n + 1 - k) * c = (n - k) * c + c  BY <2>2, <2>4
  <2> QED  BY <2>2, <2>3, <2>4, <2>5, <2>6, <2>7, <2>8, <2>9
<1>5. Worked(i, b, now, left) = SumOver(f, H) /\ Worked(i, b, now + 1, left') = SumOver(g, H)
  BY DEF Worked
<1> HIDE DEF f, m, g, H
<1>6. SumOver(m, H) = SumOver(f, H) /\ SumOver(f, H) \in Int  BY <1>2, <1>4, SumsEqual, SumFacts
<1>7. CASE \E j \in Higher(i) : Ready(j) > 0
  <2>1. PICK h \in H : /\ Ready(h) > 0 /\ left'[h] = Ready(h) - 1
                       /\ \A j \in H \ {h} : left'[j] = Ready(j)
    BY <1>7, ThreadsRun DEF H
  <2>2. \A j \in H \ {h} : g[j] = m[j]  BY <1>4, <2>1
  <2>3. g[h] = m[h] + 1  BY <1>4, <2>1
  <2>4. SumOver(g, H) = SumOver(m, H) + g[h] - m[h]
    <3>1. \A j \in H : m[j] \in Int /\ g[j] \in Int  BY <1>4
    <3>2. \A j \in H \ {h} : m[j] = g[j]  BY <2>2
    <3> QED  BY <1>2, <3>1, <3>2, SumMoves
  <2>5. m[h] \in Int  BY <1>4
  <2> QED  BY <1>5, <1>6, <1>7, <2>3, <2>4, <2>5
<1>8. CASE ~ \E j \in Higher(i) : Ready(j) > 0
  <2>1. \A j \in H : Ready(j) = 0 /\ left'[j] = 0  BY <1>8, ThreadsRun DEF H
  <2>2. \A j \in H : m[j] \in Int /\ g[j] = m[j]  BY <1>4, <2>1
  <2>3. SumOver(g, H) = SumOver(m, H)  BY <1>2, <2>2, SumsEqual
  <2> QED  BY <1>5, <1>6, <1>8, <2>3
<1> QED  BY <1>7, <1>8

(* Whatever is left of task i began no earlier than b, and since b the     *)
(* processor has done nothing but the work of i and of the tasks above it, *)
(* for less time than a response that covers its own demand.               *)
Busy(i) ==
  \E r \in 1 .. param[i].deadline : \E b \in 0 .. now :
    /\ Demand(i, Blocking(i), r) = r
    /\ now - b < r
    /\ left[i] > 0 => b <= (now \div param[i].period) * param[i].period
    /\ now - b = Worked(i, b, now, left) + Own(i, left)

ThreadsInTime ==
  policy = "thread" /\ accepted => ~ missed /\ \A i \in Tasks : Busy(i)

(* A rejected task has been waiting or running since time 0, and is not    *)
(* done before its deadline.                                               *)
ThreadsLate ==
  policy = "thread" /\ ~ missed /\ now > 0 =>
    \A i \in Tasks :
      Blocking(i) = 0 /\ Response(i) > param[i].deadline =>
        /\ now < param[i].deadline /\ left[i] > 0
        /\ now = Worked(i, 0, now, left) + Own(i, left)

ThreadInv == SchedTyped /\ OnTime /\ ThreadsInTime /\ ThreadsLate

LEMMA ThreadStart == CheckInit => ThreadInv
<1> SUFFICES ASSUME CheckInit  PROVE ThreadInv
  OBVIOUS
<1>1. SchedTyped  BY SchedStart
<1>2. now = 0 /\ missed = FALSE /\ left = [i \in Tasks |-> 0] /\ 0 \in Nat /\ 0 \in 0 .. 0
  BY DEF CheckInit
<1>3. OnTime
  <2>1. \A i \in Tasks : left[i] = 0 /\ param[i].wcet \in Nat  BY <1>1, <1>2, ParamFacts DEF SchedTyped
  <2> QED  BY <2>1 DEF OnTime
<1>4. ThreadsLate  BY <1>2 DEF ThreadsLate
<1>5. ASSUME policy = "thread", accepted, NEW i \in Tasks  PROVE Busy(i)
  <2>1. Response(i) <= param[i].deadline  BY <1>1, <1>5 DEF SchedTyped, Accepts
  <2>2. PICK r \in 1 .. param[i].deadline : Demand(i, Blocking(i), r) = r
    BY <1>1, <2>1, ResponseFacts DEF SchedTyped
  <2>3. Worked(i, 0, 0, left) = 0
    <3>1. \A j \in Higher(i) : left[j] = 0  BY <1>2 DEF Higher
    <3>2. left \in [Tasks -> Nat] /\ TasksInv  BY <1>1 DEF SchedTyped
    <3> QED  BY <1>2, <3>1, <3>2, WorkedFacts
  <2>4. left[i] = 0 /\ Own(i, left) = 0  BY <1>2 DEF Own
  <2>5. now - 0 < r /\ now - 0 = Worked(i, 0, now, left) + Own(i, left) /\ 0 \in 0 .. now
    BY <1>2, <2>2, <2>3, <2>4
  <2> QED  BY <2>2, <2>4, <2>5 DEF Busy
<1> QED  BY <1>1, <1>2, <1>3, <1>4, <1>5 DEF ThreadInv, ThreadsInTime

(* Task i and the tasks above it keep the processor busy for less than a   *)
(* response that covers its own demand: at that time they would be done.   *)
LEMMA BusyEnds ==
  ASSUME TasksInv, NEW i \in Tasks, NEW t \in Nat, NEW b \in 0 .. t, NEW rest \in [Tasks -> Nat],
         NEW r \in Nat \ {0}, Demand(i, Blocking(i), r) = r,
         t - b <= r, NEW own \in Int, own < param[i].wcet,
         t - b = Worked(i, b, t, rest) + own
  PROVE  t - b < r
<1> DEFINE W == Worked(i, b, t, rest)
           N == SumOver([j \in Tasks |-> Jobs(t - b, j) * param[j].wcet], Higher(i))
<1>1. W \in Int /\ W <= N  BY WorkedFacts
<1>2. t - b \in Nat  OBVIOUS
<1>3. Blocking(i) \in Nat /\ param[i].wcet \in Nat  BY BlockingFacts, ParamFacts
<1>4. t - b = r => r = param[i].wcet + Blocking(i) + N  BY DEF Demand
<1>5. N \in Int
  <2> DEFINE f == [j \in Tasks |-> Jobs(t - b, j) * param[j].wcet]
  <2>1. \A j \in Higher(i) : j \in Tasks  BY ParamFacts
  <2>2. \A j \in Higher(i) : f[j] \in Int
    <3> TAKE j \in Higher(i)
    <3>1. Jobs(t - b, j) * param[j].wcet \in Nat  BY <1>2, <2>1, JobsFacts
    <3> QED  BY <2>1, <3>1
  <2>3. IsFiniteSet(Higher(i))  BY ParamFacts
  <2> HIDE DEF f
  <2>4. SumOver(f, Higher(i)) \in Int  BY <2>2, <2>3, SumFacts
  <2> QED  BY <2>4 DEF f
<1> HIDE DEF W, N
<1>6. t - b # r  BY <1>1, <1>3, <1>4, <1>5 DEF W
<1> QED  BY <1>2, <1>6

(* One unit more has been worked as long as i or a task above it is busy.  *)
LEMMA BusySteps ==
  ASSUME SchedTyped, OnTime, ~ missed, RunThreads, NEW i \in Tasks, NEW b \in 0 .. now
  PROVE  LET done == Worked(i, b, now, left) + Own(i, left)
             H    == \E j \in Higher(i) : Ready(j) > 0 IN
         /\ done \in Int /\ Worked(i, b, now + 1, left') \in Int
         /\ H \/ left'[i] > 0 => Worked(i, b, now + 1, left') + Own(i, left') = done + 1
         /\ ~ H /\ Ready(i) > 0 /\ left'[i] = 0 =>
              Worked(i, b, now + 1, left') + param[i].wcet = done + 1
         /\ left' \in [Tasks -> Nat] /\ left[i] \in Nat /\ left'[i] \in Nat
         /\ Own(i, left') \in Int /\ Own(i, left') < param[i].wcet
<1> DEFINE W == Worked(i, b, now, left)
           V == Worked(i, b, now + 1, left')
           H == \E j \in Higher(i) : Ready(j) > 0
           c == param[i].wcet
<1>1. policy = "thread" /\ now \in Nat /\ now + 1 \in Nat /\ b \in 0 .. now + 1 /\ TasksInv
      /\ left \in [Tasks -> Nat]
  BY DEF RunThreads, SchedTyped
<1>2. left' \in [Tasks -> Nat]
  <2>1. left' \in [Tasks' -> Nat]  BY SchedStep DEF SchedTyped, CheckNext
  <2> QED  BY <2>1 DEF RunThreads, Tasks
<1>3. W \in Int /\ V \in Int  BY <1>1, <1>2, WorkedFacts
<1>4. V = W + IF H THEN 1 ELSE 0  BY WorkedSteps
<1>5. /\ left[i] \in Nat /\ left'[i] \in Nat /\ c \in Nat \ {0} /\ Ready(i) \in Nat
      /\ Ready(i) <= c /\ left[i] <= c
      /\ left[i] > 0 => now % param[i].period # 0
  BY <1>1, <1>2, ParamFacts, ReadyFacts DEF OnTime
<1>6. Ready(i) = IF now % param[i].period = 0 THEN c ELSE left[i]  BY DEF Ready
<1>7. /\ H => left'[i] = Ready(i)
      /\ ~ H => left'[i] = IF Ready(i) > 0 THEN Ready(i) - 1 ELSE 0
  BY ThreadsRun
<1>8. /\ Own(i, left) = IF left[i] > 0 THEN c - left[i] ELSE 0
      /\ Own(i, left') = IF left'[i] > 0 THEN c - left'[i] ELSE 0
  BY DEF Own
<1> HIDE DEF W, V, H, c
<1>9. H \/ left'[i] > 0 => V + Own(i, left') = W + Own(i, left) + 1
  BY <1>3, <1>4, <1>5, <1>6, <1>7, <1>8
<1>10. ~ H /\ Ready(i) > 0 /\ left'[i] = 0 => V + c = W + Own(i, left) + 1
  BY <1>3, <1>4, <1>5, <1>6, <1>7, <1>8
<1>11. Own(i, left) \in Int /\ Own(i, left') \in Int /\ Own(i, left') < c  BY <1>5, <1>8
<1> QED  BY <1>2, <1>3, <1>5, <1>9, <1>10, <1>11 DEF W, V, H, c

LEMMA BusyStays ==
  ASSUME SchedTyped, OnTime, ~ missed, RunThreads, NEW i \in Tasks, Busy(i)
  PROVE  \E r \in 1 .. param[i].deadline : \E b \in 0 .. now + 1 :
           /\ Demand(i, Blocking(i), r) = r
           /\ now + 1 - b < r
           /\ left'[i] > 0 => b <= (now \div param[i].period) * param[i].period
           /\ now + 1 - b = Worked(i, b, now + 1, left') + Own(i, left')
<1> DEFINE H == \E j \in Higher(i) : Ready(j) > 0
           T == param[i].period
<1>1. PICK r \in 1 .. param[i].deadline, b \in 0 .. now :
        /\ Demand(i, Blocking(i), r) = r
        /\ now - b < r
        /\ left[i] > 0 => b <= (now \div param[i].period) * param[i].period
        /\ now - b = Worked(i, b, now, left) + Own(i, left)
  BY DEF Busy
<1>2. /\ now \in Nat /\ now + 1 \in Nat /\ b \in Nat /\ b \in 0 .. now + 1
      /\ r \in Nat \ {0} /\ TasksInv /\ T \in Nat \ {0}
  BY <1>1, ParamFacts DEF SchedTyped
<1>3. CASE H \/ left'[i] > 0
  <2>1. /\ Worked(i, b, now + 1, left') + Own(i, left') = now - b + 1
        /\ left' \in [Tasks -> Nat] /\ left[i] \in Nat /\ left'[i] \in Nat
        /\ Own(i, left') \in Int /\ Own(i, left') < param[i].wcet
    BY <1>1, <1>3, BusySteps
  <2>2. now + 1 - b = Worked(i, b, now + 1, left') + Own(i, left')  BY <1>2, <2>1
  <2>3. now + 1 - b <= r  BY <1>1, <1>2
  <2>4. now + 1 - b < r  BY <1>1, <1>2, <2>1, <2>2, <2>3, BusyEnds
  <2>5. ASSUME left'[i] > 0  PROVE b <= (now \div T) * T
    <3>1. CASE now % T = 0
      <4>1. now \div T \in Nat /\ now = T * (now \div T)  BY <1>2, <3>1, Quotient
      <4>2. (now \div T) * T = T * (now \div T)  BY <1>2, <4>1
      <4> QED  BY <1>2, <4>1, <4>2
    <3>2. CASE now % T # 0
      <4>1. Ready(i) = left[i] /\ Ready(i) \in Nat /\ left'[i] <= Ready(i)
        BY <3>2, ThreadsRun, ReadyFacts DEF Ready
      <4> QED  BY <1>1, <2>1, <2>5, <4>1
    <3> QED  BY <3>1, <3>2
  <2> QED  BY <1>1, <1>2, <2>2, <2>4, <2>5
<1>4. CASE ~ H /\ ~ (left'[i] > 0)
  <2>1. left' \in [Tasks -> Nat] /\ left'[i] \in Nat  BY <1>1, BusySteps
  <2>2. \A j \in Higher(i) : left'[j] = 0  BY <1>4, ThreadsRun
  <2>3. now + 1 \in 0 .. now + 1  BY <1>2
  <2>4. Worked(i, now + 1, now + 1, left') = 0  BY <1>2, <2>1, <2>2, <2>3, WorkedFacts
  <2>5. Own(i, left') = 0  BY <1>4 DEF Own
  <2>6. now + 1 - (now + 1) = 0  BY <1>2
  <2> QED  BY <1>1, <1>2, <1>4, <2>3, <2>4, <2>5, <2>6
<1> QED  BY <1>3, <1>4

LEMMA InTimeStep ==
  ASSUME ThreadInv, RunThreads
  PROVE  ThreadsInTime'
<1> SUFFICES ASSUME accepted'  PROVE ~ missed' /\ \A i \in Tasks' : Busy(i)'
  BY DEF ThreadsInTime
<1>1. policy = "thread" /\ accepted /\ SchedTyped /\ OnTime /\ ~ missed /\ \A i \in Tasks : Busy(i)
  BY DEF ThreadInv, ThreadsInTime, RunThreads
<1>2. now' = now + 1 /\ UNCHANGED <<policy, param, access, accepted>>  BY DEF RunThreads
<1>3. ASSUME NEW i \in Tasks
      PROVE  /\ left'[i] > 0 => ~ (now + 1 - (now \div param[i].period) * param[i].period >= param[i].deadline)
             /\ Busy(i)'
  <2> DEFINE T == param[i].period
             D == param[i].deadline
  <2>1. PICK r \in 1 .. D, b \in 0 .. now + 1 :
           /\ Demand(i, Blocking(i), r) = r
           /\ now + 1 - b < r
           /\ left'[i] > 0 => b <= (now \div T) * T
           /\ now + 1 - b = Worked(i, b, now + 1, left') + Own(i, left')
    BY <1>1, BusyStays
  <2>2. now \in Nat /\ b \in Nat /\ r \in Nat /\ T \in Nat \ {0} /\ D \in Nat /\ D <= T /\ r <= D
    BY <1>1, <2>1, ParamFacts DEF SchedTyped
  <2>3. now \div T \in Int /\ (now \div T) * T \in Int  BY <2>2
  <2>4. left'[i] > 0 => now + 1 - (now \div T) * T < D /\ now + 1 - (now \div T) * T < T
    BY <2>1, <2>2, <2>3
  <2>5. left'[i] > 0 => (now + 1) \div T = now \div T  BY <2>2, <2>4, WithinPeriod
  <2>6. left'[i] > 0 => b <= ((now + 1) \div T) * T  BY <2>1, <2>5
  <2>7. /\ Demand(i, Blocking(i), r)' = r /\ param' = param
        /\ Worked(i, b, now, left)' = Worked(i, b, now + 1, left')
        /\ Own(i, left)' = Own(i, left')
    <3>1. Demand(i, Blocking(i), r)' = Demand(i, Blocking(i), r) /\ Higher(i)' = Higher(i) /\ Tasks' = Tasks
      BY <1>2, SchedStays
    <3> QED  BY <1>2, <2>1, <3>1 DEF Worked, Own, Jobs
  <2> HIDE DEF T
  <2>8. ~ (left'[i] > 0 /\ now + 1 - (now \div T) * T >= D)  BY <2>2, <2>3, <2>4
  <2>9. Busy(i)'
    <3>1. /\ r \in 1 .. param'[i].deadline /\ b \in 0 .. now'
          /\ Demand(i, Blocking(i), r)' = r
          /\ now' - b < r
          /\ left'[i] > 0 => b <= (now' \div param'[i].period) * param'[i].period
          /\ now' - b = Worked(i, b, now, left)' + Own(i, left)'
      <4>1. r \in 1 .. param'[i].deadline /\ b \in 0 .. now'  BY <1>2, <2>1, <2>7
      <4>2. Demand(i, Blocking(i), r)' = r  BY <2>7, Zenon
      <4>2a. now' - b < r  BY <1>2, <2>1, <2>2
      <4>3. left'[i] > 0 => b <= (now' \div param'[i].period) * param'[i].period
        BY <1>2, <2>6 DEF T
      <4>4. now' - b = Worked(i, b, now, left)' + Own(i, left)'
        <5>1. now' - b = Worked(i, b, now + 1, left') + Own(i, left')  BY <1>2, <2>1, <2>2
        <5> QED  BY <2>7, <5>1, Zenon
      <4> QED  BY <4>1, <4>2, <4>2a, <4>3, <4>4
    <3> QED  BY <3>1 DEF Busy
  <2> QED  BY <2>8, <2>9 DEF T
<1>4. ~ missed'
  <2>1. missed' <=> \E i \in Tasks :
          left'[i] > 0 /\ now + 1 - (now \div param[i].period) * param[i].period >= param[i].deadline
    BY DEF RunThreads
  <2> QED  BY <1>3, <2>1
<1>5. Tasks' = Tasks  BY <1>2, SchedStays
<1> QED  BY <1>3, <1>4, <1>5

LEMMA LateStep ==
  ASSUME ThreadInv, RunThreads
  PROVE  ThreadsLate'
<1> SUFFICES ASSUME ~ missed', NEW i \in Tasks', Blocking(i)' = 0, Response(i)' > param'[i].deadline
             PROVE  /\ now' < param'[i].deadline /\ left'[i] > 0
                    /\ now' = Worked(i, 0, now, left)' + Own(i, left)'
  BY DEF ThreadsLate
<1>1. policy = "thread" /\ SchedTyped /\ OnTime /\ TasksInv /\ ~ missed /\ now \in Nat
      /\ now' = now + 1 /\ UNCHANGED <<policy, param, access, accepted>>
  BY DEF ThreadInv, RunThreads, SchedTyped
<1>2. /\ Tasks' = Tasks /\ Higher(i)' = Higher(i) /\ Blocking(i)' = Blocking(i)
      /\ Response(i)' = Response(i)
  BY <1>1, SchedStays
<1>3. i \in Tasks /\ Blocking(i) = 0 /\ Response(i) > param[i].deadline  BY <1>1, <1>2
<1> DEFINE D == param[i].deadline
           T == param[i].period
           c == param[i].wcet
           H == \E j \in Higher(i) : Ready(j) > 0
           done == Worked(i, 0, now, left) + Own(i, left)
<1>4. D \in Nat \ {0} /\ T \in Nat \ {0} /\ c \in Nat \ {0} /\ D <= T
      /\ left[i] \in Nat /\ Ready(i) \in Nat
  BY <1>1, <1>3, ParamFacts, ReadyFacts DEF SchedTyped
<1>5. now < D /\ Ready(i) > 0 /\ now = done
  <2>1. CASE now > 0
    <3>1. now < D /\ left[i] > 0 /\ now = done  BY <1>1, <1>3, <2>1 DEF ThreadInv, ThreadsLate
    <3>2. now % T # 0  BY <1>1, <1>3, <3>1 DEF OnTime
    <3>3. Ready(i) = left[i]  BY <3>2 DEF Ready
    <3> QED  BY <3>1, <3>3
  <2>2. CASE now = 0
    <3>1. \A j \in Tasks : left[j] \in Nat /\ 0 % param[j].period = 0
      BY <1>1, ParamFacts DEF SchedTyped
    <3>2. \A j \in Tasks : left[j] = 0  BY <1>1, <2>2, <3>1 DEF OnTime
    <3>3. Ready(i) = c  BY <1>3, <2>2, <3>1 DEF Ready
    <3>4. Own(i, left) = 0  BY <1>3, <3>2 DEF Own
    <3>5. Worked(i, 0, 0, left) = 0
      <4>1. \A j \in Higher(i) : left[j] = 0  BY <3>2 DEF Higher
      <4>2. 0 \in Nat /\ 0 \in 0 .. 0 /\ left \in [Tasks -> Nat]  BY <1>1 DEF SchedTyped
      <4> QED  BY <1>1, <1>3, <4>1, <4>2, WorkedFacts
    <3> QED  BY <1>4, <2>2, <3>3, <3>4, <3>5
  <2> QED  BY <1>1, <2>1, <2>2
<1>6. 0 \in 0 .. now /\ now + 1 \in Nat /\ now + 1 \in 1 .. D /\ 0 \in 0 .. now + 1  BY <1>1, <1>4, <1>5
<1>7. left'[i] \in Nat /\ left' \in [Tasks -> Nat] /\ Worked(i, 0, now + 1, left') \in Int
  BY <1>1, <1>3, <1>6, BusySteps
<1>8. left'[i] > 0
  <2> SUFFICES ASSUME left'[i] = 0  PROVE FALSE
    BY <1>7
  <2>1. ~ H  BY <1>3, <1>5, ThreadsRun, <1>1, <1>4
  <2>2. Worked(i, 0, now + 1, left') + c = now + 1
    <3>1. Worked(i, 0, now + 1, left') + c = done + 1  BY <1>1, <1>3, <1>5, <1>6, <2>1, BusySteps
    <3> QED  BY <1>5, <3>1
  <2>3. \A j \in Higher(i) : left'[j] = 0  BY <1>1, <1>3, <2>1, ThreadsRun
  <2>4. Worked(i, 0, now + 1, left')
          = SumOver([j \in Tasks |-> Jobs(now + 1, j) * param[j].wcet], Higher(i))
    BY <1>1, <1>3, <1>6, <1>7, <2>3, WorkedFacts
  <2>5. Demand(i, Blocking(i), now + 1) = c + Blocking(i) + Worked(i, 0, now + 1, left')
    BY <2>4 DEF Demand
  <2>6. Demand(i, Blocking(i), now + 1) = now + 1  BY <1>3, <1>4, <1>7, <2>2, <2>5
  <2>7. Response(i) <= D /\ Response(i) \in Nat  BY <1>1, <1>3, <1>6, <2>6, ResponseFacts
  <2> QED  BY <1>3, <1>4, <2>7
<1>9. now + 1 < D
  <2>1. ~ (now + 1 - (now \div T) * T >= D)
    BY <1>1, <1>3, <1>8 DEF RunThreads
  <2>2. now \div T = 0
    <3> DEFINE q == now \div T
               m == now % T
    <3>1. q \in Int /\ m \in 0 .. T - 1 /\ now = T * q + m
      <4>1. now \in Int  BY <1>1
      <4> HIDE DEF T
      <4> QED  BY <1>4, <4>1, DivMod
    <3>2. now < T  BY <1>1, <1>4, <1>5
    <3> HIDE DEF q, m, T
    <3>3. ~ (q >= 1)
      <4> SUFFICES ASSUME q >= 1  PROVE FALSE
        OBVIOUS
      <4>1. T * q >= T  BY <1>4, <3>1
      <4> QED  BY <1>4, <3>1, <3>2, <4>1
    <3>4. ~ (q <= -1)
      <4> SUFFICES ASSUME q <= -1  PROVE FALSE
        OBVIOUS
      <4>1. T * q <= -T  BY <1>4, <3>1
      <4> QED  BY <1>1, <1>4, <3>1, <4>1
    <3> QED  BY <3>1, <3>3, <3>4 DEF q
  <2>3. (now \div T) * T = 0  BY <1>4, <2>2
  <2> HIDE DEF T
  <2> QED  BY <1>1, <1>4, <2>1, <2>3
<1>10. now + 1 = Worked(i, 0, now + 1, left') + Own(i, left')
  <2>1. Worked(i, 0, now + 1, left') + Own(i, left') = done + 1
    BY <1>1, <1>3, <1>6, <1>8, BusySteps
  <2> QED  BY <1>5, <2>1
<1>11. Worked(i, 0, now, left)' = Worked(i, 0, now + 1, left') /\ Own(i, left)' = Own(i, left')
  BY <1>1, <1>2 DEF Worked, Own, Jobs
<1>12. now' < param'[i].deadline  BY <1>1, <1>4, <1>9
<1>13. now' = Worked(i, 0, now, left)' + Own(i, left)'
  <2>1. now' = Worked(i, 0, now + 1, left') + Own(i, left')  BY <1>1, <1>10
  <2> QED  BY <1>11, <2>1, Zenon
<1> QED  BY <1>8, <1>12, <1>13

LEMMA ThreadStep ==
  ASSUME ThreadInv, [CheckNext]_checkVars
  PROVE  ThreadInv'
<1>1. SchedTyped' /\ OnTime'  BY SchedStep, OnTimeStep DEF ThreadInv
<1>2. CASE RunThreads  BY <1>1, <1>2, InTimeStep, LateStep DEF ThreadInv
<1>3. CASE NextPass \/ \E i \in Tasks : Visit(i)
  <2>1. policy' # "thread"  BY <1>3 DEF NextPass, Visit
  <2> QED  BY <1>1, <2>1 DEF ThreadInv, ThreadsInTime, ThreadsLate
<1>4. CASE UNCHANGED checkVars
  <2>1. ThreadsInTime'
    <3>1. policy' = policy /\ accepted' = accepted /\ missed' = missed  BY <1>4 DEF checkVars
    <3>2. Tasks' = Tasks /\ \A i \in Tasks : Busy(i)' = Busy(i)
      <4>1. /\ Tasks' = Tasks /\ \A i : Higher(i)' = Higher(i)
            /\ \A i, r : Demand(i, Blocking(i), r)' = Demand(i, Blocking(i), r)
        BY <1>4, SchedStays DEF checkVars
      <4> QED  BY <1>4, <4>1 DEF checkVars, Busy, Worked, Own, Jobs
    <3> QED  BY <3>1, <3>2 DEF ThreadInv, ThreadsInTime
  <2>2. ThreadsLate'
    <3>1. /\ Tasks' = Tasks /\ \A i : Higher(i)' = Higher(i)
          /\ \A i : Blocking(i)' = Blocking(i) /\ Response(i)' = Response(i)
      BY <1>4, SchedStays DEF checkVars
    <3>2. \A i, b : Worked(i, b, now, left)' = Worked(i, b, now, left) /\ Own(i, left)' = Own(i, left)
      BY <1>4, <3>1 DEF checkVars, Worked, Own, Jobs
    <3> QED  BY <1>4, <3>1, <3>2 DEF checkVars, ThreadInv, ThreadsLate
  <2> QED  BY <1>1, <2>1, <2>2 DEF ThreadInv
<1> QED  BY <1>2, <1>3, <1>4 DEF CheckNext

-----------------------------------------------------------------------------
(* The cost of a slot, or of a pass.                                       *)
LEMMA CostFacts ==
  ASSUME TasksInv, NEW S \in SUBSET Tasks
  PROVE  /\ SlotCost(S) \in Nat /\ SlotCost({}) = 0 /\ SlotCost(S) <= SlotCost(Tasks)
         /\ \A i \in S : SlotCost(S) = param[i].wcet + SlotCost(S \ {i})
<1> DEFINE f == [i \in Tasks |-> param[i].wcet]
<1>1. IsFiniteSet(Tasks) /\ IsFiniteSet(S)  BY FS_Subset DEF TasksInv, AreTasks
<1>2. \A i \in Tasks : f[i] = param[i].wcet /\ f[i] \in Nat  BY ParamFacts
<1>3. \A R : SlotCost(R) = SumOver(f, R)  BY DEF SlotCost
<1> HIDE DEF f
<1>4. SumOver(f, S) \in Nat  BY <1>1, <1>2, SumOfNaturals
<1>5. SumOver(f, {}) = 0 /\ \A i \in S : SumOver(f, S) = f[i] + SumOver(f, S \ {i})
  <2>1. \A i \in S : f[i] \in Int  BY <1>2
  <2> QED  BY <1>1, <2>1, SumFacts
<1>6. SumOver(f, S) <= SumOver(f, Tasks)  BY <1>1, <1>2, SumOfSubset
<1>7. \A i \in S : f[i] = param[i].wcet  BY <1>2
<1> QED  BY <1>3, <1>4, <1>5, <1>6, <1>7

LEMMA CostOfPair ==
  ASSUME TasksInv, Cardinality(Tasks) <= 2, NEW i \in Tasks
  PROVE  /\ SlotCost({i}) = param[i].wcet
         /\ \A j \in Tasks \ {i} : Tasks = {i, j} /\ SlotCost(Tasks) = param[i].wcet + param[j].wcet
         /\ Tasks \ {i} = {} => SlotCost(Tasks) = param[i].wcet
<1>1. ASSUME NEW k \in Tasks  PROVE SlotCost({k}) = param[k].wcet
  <2>1. {k} \in SUBSET Tasks /\ k \in {k} /\ {k} \ {k} = {} /\ {} \in SUBSET Tasks  OBVIOUS
  <2>2. SlotCost({k}) = param[k].wcet + SlotCost({k} \ {k}) /\ SlotCost({}) = 0  BY <2>1, CostFacts
  <2>3. param[k].wcet \in Nat  BY ParamFacts
  <2> QED  BY <2>1, <2>2, <2>3
<1>2. ASSUME NEW j \in Tasks \ {i}
      PROVE  Tasks = {i, j} /\ SlotCost(Tasks) = param[i].wcet + param[j].wcet
  <2>1. IsFiniteSet(Tasks) /\ Cardinality(Tasks) \in Nat  BY FS_CardinalityType DEF TasksInv, AreTasks
  <2> DEFINE R == Tasks \ {i}
             Q == R \ {j}
  <2>2. IsFiniteSet(R) /\ Cardinality(R) = Cardinality(Tasks) - 1  BY <2>1, FS_RemoveElement
  <2>3. j \in R  OBVIOUS
  <2> HIDE DEF R
  <2>4. IsFiniteSet(Q) /\ Cardinality(Q) = Cardinality(R) - 1  BY <2>2, <2>3, FS_RemoveElement
  <2>5. Cardinality(Q) \in Nat  BY <2>4, FS_CardinalityType
  <2>6. Cardinality(Q) = 0  BY <2>1, <2>2, <2>4, <2>5
  <2>7. Q = {}  BY <2>4, <2>6, FS_EmptySet
  <2>8. Tasks = {i, j} /\ Tasks \ {i} = {j}  BY <2>7 DEF R
  <2>9. SlotCost(Tasks) = param[i].wcet + SlotCost(Tasks \ {i})  BY CostFacts
  <2> QED  BY <1>1, <2>8, <2>9
<1>3. ASSUME Tasks \ {i} = {}  PROVE SlotCost(Tasks) = param[i].wcet
  <2>1. Tasks = {i}  BY <1>3
  <2> QED  BY <1>1, <2>1
<1> QED  BY <1>1, <1>2, <1>3

(* Two tasks that the cooperative check accepts fit, one after the other,  *)
(* into the deadline of either.                                            *)
LEMMA BothFit ==
  ASSUME SchedTyped, policy = "coop", Cardinality(Tasks) <= 2, accepted, NEW i \in Tasks
  PROVE  SlotCost(Tasks) <= param[i].deadline
<1> DEFINE B == Blocking(i)
           D == param[i].deadline
<1>1. TasksInv  BY DEF SchedTyped
<1>2. Response(i) <= D  BY DEF SchedTyped, Accepts
<1>3. PICK r \in 1 .. D : Demand(i, B, r) = r  BY <1>1, <1>2, ResponseFacts
<1>4. B \in Nat /\ D \in Nat /\ r \in Nat /\ r >= 1 /\ r <= r /\ param[i].wcet \in Nat
  BY <1>1, <1>3, BlockingFacts, ParamFacts
<1>5. /\ StartOf(i, B) \in Nat /\ param[i].wcet + B <= StartOf(i, B)
      /\ \A j \in Higher(i) : param[i].wcet + B + param[j].wcet <= StartOf(i, B)
      /\ StartOf(i, B) <= Demand(i, B, r)
  <2> HIDE DEF B
  <2> QED  BY <1>1, <1>4, DemandFacts
<1>6. \A j \in Lower(i) : param[j].wcet <= B  BY <1>1, BlockingFacts
<1>7. CASE Tasks \ {i} = {}
  <2>1. SlotCost(Tasks) = param[i].wcet  BY <1>1, <1>7, CostOfPair
  <2> HIDE DEF B, D
  <2> QED  BY <1>3, <1>4, <1>5, <2>1 DEF D
<1>8. ASSUME NEW j \in Tasks \ {i}  PROVE SlotCost(Tasks) <= D
  <2>1. SlotCost(Tasks) = param[i].wcet + param[j].wcet  BY <1>1, CostOfPair
  <2>2. j \in Higher(i) \/ j \in Lower(i)  BY <1>1, PriorityOrder DEF Higher, Lower
  <2>3. param[j].wcet \in Nat  BY <1>1, ParamFacts
  <2>4. param[i].wcet + param[j].wcet <= StartOf(i, B)  BY <1>4, <1>5, <1>6, <2>2, <2>3
  <2> HIDE DEF B
  <2> QED  BY <1>3, <1>4, <1>5, <2>1, <2>3, <2>4
<1> QED  BY <1>7, <1>8

-----------------------------------------------------------------------------
(* The cooperative executor.  The tasks this pass has still to run, when   *)
(* it ends, and when a task is due after it.                               *)
WillRun == {i \in todo : due[i] <= polled}
PassEnd == now + SlotCost(WillRun)
NextDue(i) == due[i] + IF i \in WillRun THEN param[i].period ELSE 0

(* At the end of a pass no task is late, or one is, by less than the tick  *)
(* of the other one, and that is not yet due.                              *)
CoopInTime ==
  policy = "coop" /\ accepted /\ Cardinality(Tasks) <= 2 =>
    /\ ~ missed
    /\ \A i \in WillRun : PassEnd <= due[i] + param[i].deadline
    /\ \A i \in Tasks :
         \/ PassEnd <= NextDue(i)
         \/ \E j \in Tasks \ {i} : PassEnd < NextDue(i) + param[j].wcet /\ PassEnd < NextDue(j)

LEMMA CoopTimes ==
  ASSUME SchedTyped, policy = "coop", Cardinality(Tasks) <= 2, accepted, NEW i \in Tasks
  PROVE  /\ SlotCost(Tasks) \in Nat
         /\ SlotCost(Tasks) <= param[i].deadline /\ SlotCost(Tasks) <= param[i].period
         /\ param[i].wcet \in Nat \ {0} /\ param[i].deadline \in Nat /\ param[i].period \in Nat \ {0}
         /\ param[i].wcet <= SlotCost(Tasks)
<1>1. TasksInv /\ param[i].deadline <= param[i].period  BY DEF SchedTyped
<1>2. SlotCost(Tasks) <= param[i].deadline  BY BothFit
<1>3. SlotCost(Tasks) \in Nat /\ SlotCost(Tasks) = param[i].wcet + SlotCost(Tasks \ {i})
      /\ SlotCost(Tasks \ {i}) \in Nat
  BY <1>1, CostFacts
<1>4. param[i].wcet \in Nat \ {0} /\ param[i].deadline \in Nat /\ param[i].period \in Nat \ {0}
  BY <1>1, ParamFacts
<1> QED  BY <1>1, <1>2, <1>3, <1>4

LEMMA CoopStart == CheckInit => CoopInTime
<1> SUFFICES ASSUME CheckInit, policy = "coop", Cardinality(Tasks) <= 2, accepted
             PROVE  CoopInTime
  BY DEF CoopInTime
<1>1. SchedTyped /\ TasksInv  BY SchedStart DEF SchedTyped
<1>2. /\ now = 0 /\ polled = 0 /\ missed = FALSE /\ due = [i \in Tasks |-> 0] /\ todo = Tasks
  BY DEF CheckInit
<1>3. WillRun = Tasks /\ PassEnd = SlotCost(Tasks)
  <2>1. WillRun = Tasks  BY <1>2 DEF WillRun
  <2> QED  BY <1>1, <1>2, <2>1, CostFacts DEF PassEnd
<1>4. ASSUME NEW i \in Tasks
      PROVE  PassEnd <= due[i] + param[i].deadline /\ PassEnd <= NextDue(i)
  <2>1. due[i] = 0 /\ NextDue(i) = 0 + param[i].period  BY <1>2, <1>3 DEF NextDue
  <2> QED  BY <1>1, <1>3, <2>1, CoopTimes
<1> QED  BY <1>2, <1>3, <1>4 DEF CoopInTime

LEMMA CoopVisit ==
  ASSUME SchedTyped, CoopInTime, policy = "coop", NEW n \in Tasks, Visit(n)
  PROVE  CoopInTime'
<1> SUFFICES ASSUME accepted, Cardinality(Tasks) <= 2  PROVE CoopInTime'
  BY DEF CoopInTime, Visit, Tasks
<1>1. UNCHANGED <<policy, param, access, accepted, polled>> /\ todo' = todo \ {n} /\ n \in todo
  BY DEF Visit
<1>2. /\ ~ missed
      /\ \A i \in WillRun : PassEnd <= due[i] + param[i].deadline
      /\ \A i \in Tasks :
           \/ PassEnd <= NextDue(i)
           \/ \E j \in Tasks \ {i} : PassEnd < NextDue(i) + param[j].wcet /\ PassEnd < NextDue(j)
  BY DEF CoopInTime
<1>3. /\ TasksInv /\ now \in Nat /\ polled \in Nat /\ due \in [Tasks -> Nat] /\ todo \in SUBSET Tasks
      /\ Tasks' = Tasks
  BY <1>1, SchedStays DEF SchedTyped
<1>4. WillRun \in SUBSET Tasks /\ \A S : SlotCost(S)' = SlotCost(S)
  BY <1>1, <1>3 DEF WillRun, SlotCost
<1>5. /\ WillRun' \in SUBSET WillRun /\ PassEnd' = PassEnd /\ ~ missed'
      /\ \A i \in Tasks : NextDue(i)' = NextDue(i) /\ (i # n => due'[i] = due[i])
      /\ n \notin WillRun'
  <2>1. CASE due[n] <= polled
    <3>1. /\ now' = now + param[n].wcet /\ due' = [due EXCEPT ![n] = @ + param[n].period]
          /\ missed' = (now' > due[n] + param[n].deadline)
      BY <2>1 DEF Visit
    <3>2. WillRun' = WillRun \ {n} /\ n \in WillRun  BY <1>1, <1>3, <2>1, <3>1 DEF WillRun
    <3>3. SlotCost(WillRun) = param[n].wcet + SlotCost(WillRun \ {n}) /\ SlotCost(WillRun \ {n}) \in Nat
      BY <1>3, <1>4, <3>2, CostFacts
    <3>4. param[n].wcet \in Nat /\ param[n].period \in Nat /\ param[n].deadline \in Nat /\ due[n] \in Nat
      BY <1>3, ParamFacts
    <3>5. PassEnd' = now' + SlotCost(WillRun \ {n})
      <4>1. SlotCost(WillRun)' = SlotCost(WillRun')  BY <1>1, <1>3 DEF SlotCost
      <4> QED  BY <3>2, <4>1 DEF PassEnd
    <3>6. PassEnd' = PassEnd /\ now' <= PassEnd  BY <1>3, <3>1, <3>3, <3>4, <3>5 DEF PassEnd
    <3>7. PassEnd <= due[n] + param[n].deadline /\ PassEnd \in Nat
      <4>1. PassEnd \in Nat  BY <1>3, <3>3, <3>4 DEF PassEnd
      <4> QED  BY <1>2, <3>2, <4>1
    <3>8. ~ missed'
      <4>1. now' \in Nat  BY <1>3, <3>1, <3>4
      <4>2. ~ (now' > due[n] + param[n].deadline)  BY <3>4, <3>6, <3>7, <4>1
      <4> QED  BY <3>1, <4>2
    <3>9. \A i \in Tasks : NextDue(i)' = NextDue(i) /\ (i # n => due'[i] = due[i])
      BY <1>1, <1>3, <3>1, <3>2, <3>4 DEF NextDue
    <3> QED  BY <3>2, <3>6, <3>8, <3>9
  <2>2. CASE ~ (due[n] <= polled)
    <3>1. UNCHANGED <<now, due, missed>>  BY <2>2 DEF Visit
    <3>2. WillRun' = WillRun /\ n \notin WillRun  BY <1>1, <2>2, <3>1 DEF WillRun
    <3>3. PassEnd' = PassEnd
      <4>1. SlotCost(WillRun)' = SlotCost(WillRun')  BY <1>1, <1>3 DEF SlotCost
      <4> QED  BY <3>1, <3>2, <4>1 DEF PassEnd
    <3>4. \A i \in Tasks : NextDue(i)' = NextDue(i)  BY <1>1, <3>1, <3>2 DEF NextDue
    <3> QED  BY <1>2, <3>1, <3>2, <3>3, <3>4
  <2> QED  BY <2>1, <2>2
<1>6. \A i \in WillRun' : PassEnd' <= due'[i] + param'[i].deadline
  <2> TAKE i \in WillRun'
  <2>1. i \in WillRun /\ i \in Tasks /\ i # n  BY <1>4, <1>5
  <2> QED  BY <1>1, <1>2, <1>5, <2>1
<1>7. ASSUME NEW i \in Tasks
      PROVE  \/ PassEnd' <= NextDue(i)'
             \/ \E j \in Tasks \ {i} : PassEnd' < NextDue(i)' + param'[j].wcet /\ PassEnd' < NextDue(j)'
  BY <1>1, <1>2, <1>5, <1>7
<1> QED  BY <1>3, <1>5, <1>6, <1>7 DEF CoopInTime

(* The tasks that are due when the clock is polled, at t.                  *)
DueAt(t) == {i \in Tasks : due[i] <= t}

(* The next pass begins at t.  If no task is late every task that is due   *)
(* came due at t, and both of them fit into either's deadline; a task that *)
(* is late runs alone, and the other one comes due while it runs or later. *)
LEMMA PassFits ==
  ASSUME SchedTyped, policy = "coop", Cardinality(Tasks) <= 2, accepted, NEW t \in Nat,
         \/ /\ \A i \in Tasks : t <= due[i]
            /\ \E i \in Tasks : due[i] = t
         \/ \E i \in Tasks : \E j \in Tasks \ {i} :
              due[i] < t /\ t < due[i] + param[j].wcet /\ t < due[j]
  PROVE  LET e       == t + SlotCost(DueAt(t))
             then(i) == due[i] + IF due[i] <= t THEN param[i].period ELSE 0 IN
         /\ \A i \in DueAt(t) : e <= due[i] + param[i].deadline
         /\ \A i \in Tasks :
              \/ e <= then(i)
              \/ \E j \in Tasks \ {i} : e < then(i) + param[j].wcet /\ e < then(j)
<1> DEFINE C == SlotCost(DueAt(t))
           e == t + C
           then(i) == due[i] + IF due[i] <= t THEN param[i].period ELSE 0
           All == SlotCost(Tasks)
<1>1. TasksInv /\ due \in [Tasks -> Nat]  BY DEF SchedTyped
<1>2. DueAt(t) \in SUBSET Tasks  BY DEF DueAt
<1>3. C \in Nat /\ C <= All /\ All \in Nat  BY <1>1, <1>2, CostFacts
<1>4. \A i \in Tasks : /\ All <= param[i].deadline /\ All <= param[i].period
                       /\ param[i].wcet \in Nat \ {0} /\ param[i].deadline \in Nat
                       /\ param[i].period \in Nat /\ due[i] \in Nat
  BY <1>1, CoopTimes
<1>5. \A i \in Tasks : \A j \in Tasks \ {i} :
        Tasks = {i, j} /\ All = param[i].wcet + param[j].wcet /\ SlotCost({i}) = param[i].wcet
  BY <1>1, CostOfPair
<1>6. CASE (\A i \in Tasks : t <= due[i]) /\ \E i \in Tasks : due[i] = t
  <2>1. PICK k \in Tasks : due[k] = t  BY <1>6
  <2>2. \A i \in DueAt(t) : due[i] = t /\ i \in Tasks  BY <1>4, <1>6 DEF DueAt
  <2>3. ASSUME NEW i \in DueAt(t)  PROVE e <= due[i] + param[i].deadline
    <3> HIDE DEF C, All
    <3> QED  BY <1>3, <1>4, <2>2
  <2>4. ASSUME NEW i \in Tasks
        PROVE  \/ e <= then(i)
               \/ \E j \in Tasks \ {i} : e < then(i) + param[j].wcet /\ e < then(j)
    <3>1. CASE due[i] <= t
      <4>1. due[i] = t /\ then(i) = t + param[i].period  BY <1>4, <1>6, <3>1
      <4> HIDE DEF C, All, then
      <4> QED  BY <1>3, <1>4, <4>1
    <3>2. CASE t < due[i]
      <4>1. k \in Tasks \ {i} /\ i \in Tasks \ {k}  BY <1>4, <2>1, <3>2
      <4>2. Tasks = {k, i} /\ All = param[k].wcet + param[i].wcet /\ SlotCost({k}) = param[k].wcet
        BY <1>5, <4>1
      <4>3. DueAt(t) = {k}
        <5>1. i \notin DueAt(t) /\ k \in DueAt(t)  BY <1>4, <2>1, <3>2 DEF DueAt
        <5> QED  BY <1>2, <4>2, <5>1
      <4>4. C = param[k].wcet  BY <4>2, <4>3
      <4>5. then(i) = due[i] /\ then(k) = t + param[k].period  BY <1>4, <2>1, <3>2
      <4> HIDE DEF C, All, then
      <4>6. e < then(i) + param[k].wcet /\ e < then(k)  BY <1>4, <3>2, <4>2, <4>4, <4>5
      <4> QED  BY <4>1, <4>6
    <3> QED  BY <1>4, <3>1, <3>2
  <2> QED  BY <2>3, <2>4
<1>7. ASSUME NEW i \in Tasks, NEW j \in Tasks \ {i},
             due[i] < t, t < due[i] + param[j].wcet, t < due[j]
      PROVE  /\ \A k \in DueAt(t) : e <= due[k] + param[k].deadline
             /\ e < then(i) /\ e < then(j) + param[i].wcet
             /\ Tasks = {i, j}
  <2>1. Tasks = {i, j} /\ All = param[i].wcet + param[j].wcet /\ SlotCost({i}) = param[i].wcet
    BY <1>5
  <2>2. DueAt(t) = {i}
    <3>1. j \notin DueAt(t) /\ i \in DueAt(t)  BY <1>4, <1>7 DEF DueAt
    <3> QED  BY <1>2, <2>1, <3>1
  <2>3. C = param[i].wcet  BY <2>1, <2>2
  <2>4. then(j) = due[j] /\ then(i) = due[i] + param[i].period  BY <1>4, <1>7
  <2> HIDE DEF C, All, then
  <2>5. e <= due[i] + param[i].deadline  BY <1>4, <1>7, <2>1, <2>3
  <2>6. e < then(i) /\ e < then(j) + param[i].wcet  BY <1>4, <1>7, <2>1, <2>3, <2>4
  <2> QED  BY <2>1, <2>2, <2>5, <2>6
<1>8. ASSUME NEW i \in Tasks, NEW j \in Tasks \ {i},
             due[i] < t, t < due[i] + param[j].wcet, t < due[j], NEW k \in Tasks
      PROVE  \/ e <= then(k)
             \/ \E l \in Tasks \ {k} : e < then(k) + param[l].wcet /\ e < then(l)
  <2>1. e < then(i) /\ e < then(j) + param[i].wcet /\ Tasks = {i, j}  BY <1>7, <1>8
  <2>2. then(i) \in Nat /\ e \in Nat  BY <1>3, <1>4
  <2> HIDE DEF e, then
  <2>3. CASE k = i  BY <2>1, <2>2, <2>3
  <2>4. CASE k = j  BY <2>1, <2>4
  <2> QED  BY <2>1, <2>3, <2>4
<1>9. CASE \E i \in Tasks : \E j \in Tasks \ {i} :
             due[i] < t /\ t < due[i] + param[j].wcet /\ t < due[j]
  <2>1. /\ \A i \in DueAt(t) : e <= due[i] + param[i].deadline
        /\ \A i \in Tasks :
             \/ e <= then(i)
             \/ \E j \in Tasks \ {i} : e < then(i) + param[j].wcet /\ e < then(j)
    <3> HIDE DEF e, then
    <3> QED  BY <1>7, <1>8, <1>9
  <2> QED  BY <2>1
<1> QED  BY <1>6, <1>9

LEMMA CoopPass ==
  ASSUME SchedTyped, CoopInTime, policy = "coop", NextPass
  PROVE  CoopInTime'
<1> SUFFICES ASSUME accepted, Cardinality(Tasks) <= 2  PROVE CoopInTime'
  BY DEF CoopInTime, NextPass, Tasks
<1> DEFINE t == Max({now, Min({due[i] : i \in Tasks})})
<1>1. /\ UNCHANGED <<policy, param, access, accepted, left, due, missed>>
      /\ todo = {} /\ todo' = Tasks /\ now' = t /\ polled' = t
  BY DEF NextPass
<1>2. /\ TasksInv /\ now \in Nat /\ due \in [Tasks -> Nat] /\ Tasks' = Tasks
  BY <1>1, SchedStays DEF SchedTyped
<1>3. WillRun = {} /\ PassEnd = now /\ \A i \in Tasks : NextDue(i) = due[i]
  <2>1. WillRun = {}  BY <1>1 DEF WillRun
  <2>2. SlotCost({}) = 0  BY <1>2, CostFacts
  <2> QED  BY <1>2, <2>1, <2>2 DEF PassEnd, NextDue
<1>4. /\ ~ missed
      /\ \A i \in Tasks :
           \/ now <= due[i]
           \/ \E j \in Tasks \ {i} : now < due[i] + param[j].wcet /\ now < due[j]
  BY <1>3 DEF CoopInTime
<1>5. \A i \in Tasks : due[i] \in Nat /\ param[i].wcet \in Nat  BY <1>2, ParamFacts
<1>6. PICK first \in Tasks : /\ Min({due[i] : i \in Tasks}) = due[first]
                             /\ \A i \in Tasks : due[first] <= due[i]
  BY <1>2, <1>5, NearestFacts
<1>7. t = IF now <= due[first] THEN due[first] ELSE now  BY <1>2, <1>5, <1>6, MaxOfTwo
<1> HIDE DEF t
<1>8. t \in Nat  BY <1>2, <1>5, <1>7
<1>9. \/ /\ \A i \in Tasks : t <= due[i]
         /\ \E i \in Tasks : due[i] = t
      \/ \E i \in Tasks : \E j \in Tasks \ {i} :
           due[i] < t /\ t < due[i] + param[j].wcet /\ t < due[j]
  <2>1. CASE now <= due[first]
    <3>1. t = due[first]  BY <1>7, <2>1
    <3> QED  BY <1>6, <3>1
  <2>2. CASE ~ (now <= due[first])
    <3>1. t = now /\ due[first] < now  BY <1>2, <1>5, <1>7, <2>2
    <3>2. PICK j \in Tasks \ {first} : now < due[first] + param[j].wcet /\ now < due[j]
      BY <1>4, <2>2
    <3> QED  BY <3>1, <3>2
  <2> QED  BY <2>1, <2>2
<1> DEFINE e == t + SlotCost(DueAt(t))
           then(i) == due[i] + IF due[i] <= t THEN param[i].period ELSE 0
<1>10. /\ \A i \in DueAt(t) : e <= due[i] + param[i].deadline
       /\ \A i \in Tasks :
            \/ e <= then(i)
            \/ \E j \in Tasks \ {i} : e < then(i) + param[j].wcet /\ e < then(j)
  BY <1>8, <1>9, PassFits
<1>11. WillRun' = DueAt(t)  BY <1>1 DEF WillRun, DueAt
<1>12. PassEnd' = e
  <2>1. SlotCost(WillRun)' = SlotCost(WillRun')  BY <1>1, <1>2 DEF SlotCost
  <2> QED  BY <1>1, <1>11, <2>1 DEF PassEnd
<1>13. \A i \in Tasks : NextDue(i)' = then(i)  BY <1>1, <1>11 DEF NextDue, DueAt
<1> HIDE DEF e, then
<1>14. \A i \in WillRun' : PassEnd' <= due'[i] + param'[i].deadline  BY <1>1, <1>10, <1>11, <1>12
<1>15. ASSUME NEW i \in Tasks
       PROVE  \/ PassEnd' <= NextDue(i)'
              \/ \E j \in Tasks \ {i} : PassEnd' < NextDue(i)' + param'[j].wcet /\ PassEnd' < NextDue(j)'
  BY <1>1, <1>10, <1>12, <1>13
<1>16. ~ missed'  BY <1>1, <1>4
<1> QED  BY <1>2, <1>14, <1>15, <1>16 DEF CoopInTime

LEMMA CoopStep ==
  ASSUME SchedTyped, CoopInTime, [CheckNext]_checkVars
  PROVE  CoopInTime'
<1>0. policy' = policy  BY DEF CheckNext, RunThreads, Visit, NextPass, checkVars
<1>1. CASE policy # "coop"  BY <1>0, <1>1 DEF CoopInTime
<1>2. CASE policy = "coop"
  <2>1. CASE RunThreads  BY <1>2, <2>1 DEF RunThreads
  <2>2. CASE NextPass  BY <1>2, <2>2, CoopPass
  <2>3. ASSUME NEW i \in Tasks, Visit(i)  PROVE CoopInTime'  BY <1>2, <2>3, CoopVisit
  <2>4. CASE UNCHANGED checkVars
    <3>1. Tasks' = Tasks /\ WillRun' = WillRun  BY <2>4 DEF checkVars, Tasks, WillRun
    <3>2. PassEnd' = PassEnd
      <4>1. SlotCost(WillRun)' = SlotCost(WillRun)  BY <2>4, <3>1 DEF checkVars, SlotCost
      <4> QED  BY <2>4, <4>1 DEF checkVars, PassEnd
    <3>3. \A i : NextDue(i)' = NextDue(i)  BY <2>4, <3>1 DEF checkVars, NextDue
    <3> QED  BY <2>4, <3>1, <3>2, <3>3 DEF checkVars, CoopInTime
  <2> QED  BY <2>1, <2>2, <2>3, <2>4 DEF CheckNext
<1> QED  BY <1>1, <1>2

-----------------------------------------------------------------------------
(* The cyclic executive.  Every slot is one of the first hyperperiod.      *)
LEMMA SlotAgain ==
  ASSUME SchedTyped, policy = "cyclic", NEW t \in Nat, t % Base = 0
  PROVE  \E s \in Slots : InSlot(s) = InSlot(t)
<1> DEFINE all == {h \in 1 .. Horizon : \A i \in Tasks : IsMultiple(h, param[i].period)}
           h == Hyperperiod
<1>1. TasksInv /\ Base \in Nat \ {0} /\ \A i \in Tasks : param[i].period % Base = 0
  BY BaseFacts DEF SchedTyped
<1>2. all \in SUBSET Nat /\ all # {}
  <2>1. \E k \in 1 .. Horizon : \A i \in Tasks : k % param[i].period = 0  BY DEF SchedTyped
  <2> QED  BY <2>1 DEF IsMultiple
<1>3. h \in all
  <2>1. h = Min(all)  BY DEF Hyperperiod
  <2> HIDE DEF all, h
  <2>2. \E x \in all : \A y \in all : x <= y  BY <1>2, Least, Zenon
  <2> QED  BY <2>1, <2>2 DEF Min
<1>4. h \in Nat \ {0} /\ \A i \in Tasks : h % param[i].period = 0  BY <1>3 DEF IsMultiple
<1>5. \A i \in Tasks : param[i].period \in Nat \ {0}  BY <1>1, ParamFacts
<1>6. PICK k \in Tasks : TRUE  BY <1>1 DEF TasksInv, AreTasks
<1> HIDE DEF h
<1>7. h % Base = 0  BY <1>1, <1>4, <1>5, <1>6, Divides
<1> DEFINE s == t % h
<1>8. s \in 0 .. h - 1
  <2>1. t \in Int  OBVIOUS
  <2> QED  BY <1>4, <2>1, DivMod
<1>9. s % Base = 0
  <2>1. t \in Int  OBVIOUS
  <2> QED  BY <1>1, <1>4, <1>7, <2>1, ModMod
<1>10. \A i \in Tasks : s % param[i].period = t % param[i].period
  <2> TAKE i \in Tasks
  <2>1. t \in Int /\ param[i].period \in Nat \ {0} /\ h % param[i].period = 0  BY <1>4, <1>5
  <2> QED  BY <1>4, <2>1, ModMod
<1> HIDE DEF s
<1>11. s \in Slots  BY <1>8, <1>9 DEF Slots, IsMultiple, h
<1>12. InSlot(s) = InSlot(t)  BY <1>10 DEF InSlot, IsMultiple
<1> QED  BY <1>11, <1>12

(* The executive is at the slot of polled, those behind in the order of    *)
(* the table have run, and as long as none has missed a deadline every     *)
(* tick so far has ended where the check says.                             *)
OnTable ==
  policy = "cyclic" /\ TableIsRun =>
    /\ polled % Base = 0
    /\ \A j \in Tasks \ todo : \A k \in todo : j < k
    /\ \A i \in Tasks :
         /\ due[i] % param[i].period = 0
         /\ i \in todo => polled <= due[i] /\ due[i] < polled + param[i].period
         /\ i \notin todo => polled < due[i] /\ due[i] <= polled + param[i].period
    /\ now = polled + SlotCost(InSlot(polled) \ todo)
    /\ missed => \E s \in Slots : \E i \in InSlot(s) : Finish(i, s) > param[i].deadline
    /\ ~ missed => \A t \in 0 .. polled : \A i \in InSlot(t) :
                     t # polled \/ i \notin todo => Finish(i, t) <= param[i].deadline

LEMMA TableStart == CheckInit => OnTable
<1> SUFFICES ASSUME CheckInit, policy = "cyclic", TableIsRun  PROVE OnTable
  BY DEF OnTable
<1>1. TasksInv /\ Base \in Nat \ {0}  BY SchedStart, BaseFacts DEF SchedTyped
<1>2. /\ now = 0 /\ polled = 0 /\ missed = FALSE /\ due = [i \in Tasks |-> 0] /\ todo = Tasks
  BY DEF CheckInit
<1>3. polled % Base = 0  BY <1>1, <1>2
<1>4. now = polled + SlotCost(InSlot(polled) \ todo)
  <2>1. InSlot(polled) \ todo = {}  BY <1>2 DEF InSlot
  <2>2. SlotCost({}) = 0  BY <1>1, CostFacts
  <2> QED  BY <1>2, <2>1, <2>2
<1>5. \A i \in Tasks : due[i] = 0 /\ param[i].period \in Nat \ {0}  BY <1>1, <1>2, ParamFacts
<1>6. \A i \in Tasks :
         /\ due[i] % param[i].period = 0
         /\ polled <= due[i] /\ due[i] < polled + param[i].period
  BY <1>2, <1>5
<1>7. \A t \in 0 .. polled : t = polled  BY <1>2
<1>8. \A t : InSlot(t) \in SUBSET Tasks  BY DEF InSlot
<1> QED  BY <1>2, <1>3, <1>4, <1>6, <1>7, <1>8 DEF OnTable

(* What of the table does not change.                                      *)
LEMMA TableStays ==
  ASSUME UNCHANGED <<policy, param, access, accepted>>
  PROVE  /\ Base' = Base /\ Slots' = Slots /\ TableIsRun' = TableIsRun /\ Hyperperiod' = Hyperperiod
         /\ \A S : SlotCost(S)' = SlotCost(S) /\ InSlot(S)' = InSlot(S)
         /\ \A i, t : Finish(i, t)' = Finish(i, t)
BY DEF Base, Slots, TableIsRun, Hyperperiod, SlotCost, InSlot, Finish, IsMultiple, Tasks, Higher, Less,
       Max, Min

LEMMA TablePass ==
  ASSUME SchedTyped, OnTable, policy = "cyclic", NextPass
  PROVE  OnTable'
<1>1. /\ UNCHANGED <<policy, param, access, accepted, left, due, missed>>
      /\ todo = {} /\ todo' = Tasks /\ ~ missed
      /\ polled' = polled + Base /\ now' = Max({now, polled'})
  BY DEF NextPass
<1> SUFFICES ASSUME TableIsRun  PROVE OnTable'
  BY <1>1, TableStays DEF OnTable
<1>2. /\ polled % Base = 0
      /\ \A i \in Tasks :
         /\ due[i] % param[i].period = 0
         /\ polled < due[i] /\ due[i] <= polled + param[i].period
      /\ now = polled + SlotCost(InSlot(polled) \ todo)
      /\ \A t \in 0 .. polled : \A i \in InSlot(t) : Finish(i, t) <= param[i].deadline
  BY <1>1 DEF OnTable
<1>3. /\ TasksInv /\ now \in Nat /\ polled \in Nat /\ due \in [Tasks -> Nat]
      /\ Base \in Nat \ {0} /\ \A i \in Tasks : param[i].period % Base = 0
  BY BaseFacts DEF SchedTyped
<1>4. \A i \in Tasks : param[i].period \in Nat \ {0} /\ due[i] \in Nat  BY <1>3, ParamFacts
<1>5. polled' \in Nat /\ polled' % Base = 0
  <2>1. (polled + Base) % Base = 0  BY <1>2, <1>3, MultipleNext
  <2> QED  BY <1>1, <1>3, <2>1
<1>6. SlotCost(InSlot(polled)) <= Base /\ SlotCost(InSlot(polled)) \in Nat
  <2>1. PICK s \in Slots : InSlot(s) = InSlot(polled)  BY <1>2, <1>3, SlotAgain
  <2>2. SlotCost(InSlot(s)) <= Base  BY DEF TableIsRun
  <2>3. InSlot(polled) \in SUBSET Tasks  BY DEF InSlot
  <2> QED  BY <1>3, <2>1, <2>2, <2>3, CostFacts
<1>7. now' = polled'
  <2>1. InSlot(polled) \ todo = InSlot(polled)  BY <1>1
  <2>2. now <= polled'  BY <1>1, <1>2, <1>3, <1>6, <2>1
  <2> QED  BY <1>1, <1>3, <1>5, <2>2, MaxOfTwo
<1>8. ASSUME NEW i \in Tasks
      PROVE  polled' <= due[i] /\ due[i] < polled' + param[i].period
  <2>1. due[i] % Base = 0  BY <1>2, <1>3, <1>4, Divides
  <2>2. polled + Base <= due[i]  BY <1>2, <1>3, <1>4, <2>1, MultipleGap
  <2>3. due[i] < polled + Base + param[i].period  BY <1>2, <1>3, <1>4
  <2> QED  BY <1>1, <2>2, <2>3
<1>9. ASSUME NEW t \in 0 .. polled', NEW i \in InSlot(t), t # polled'
      PROVE  Finish(i, t) <= param[i].deadline
  <2>1. i \in Tasks /\ t % param[i].period = 0 /\ t \in Nat  BY DEF InSlot, IsMultiple
  <2>2. t % Base = 0  BY <1>3, <1>4, <2>1, Divides
  <2>3. ~ (polled < t)
    <3> SUFFICES ASSUME polled < t  PROVE FALSE
      OBVIOUS
    <3>1. polled + Base <= t  BY <1>2, <1>3, <2>1, <2>2, MultipleGap
    <3> QED  BY <1>1, <1>3, <1>5, <1>9, <2>1, <3>1
  <2>4. t \in 0 .. polled  BY <1>3, <2>1, <2>3
  <2> QED  BY <1>2, <2>4
<1>10. /\ Base' = Base /\ Slots' = Slots /\ Tasks' = Tasks
       /\ \A S : SlotCost(S)' = SlotCost(S) /\ InSlot(S)' = InSlot(S)
       /\ \A i, t : Finish(i, t)' = Finish(i, t)
  BY <1>1, TableStays, SchedStays
<1>11. now' = polled' + SlotCost(InSlot(polled) \ todo)'
  <2>1. InSlot(polled)' \in SUBSET Tasks  BY <1>10 DEF InSlot
  <2>2. InSlot(polled)' \ todo' = {}  BY <1>1, <2>1
  <2>3. SlotCost(InSlot(polled) \ todo)' = SlotCost({})
    <3>1. SlotCost(InSlot(polled) \ todo)' = SumOver([i \in Tasks' |-> param'[i].wcet], InSlot(polled)' \ todo')
      BY DEF SlotCost
    <3> QED  BY <1>1, <1>10, <2>2, <3>1 DEF SlotCost
  <2>4. SlotCost({}) = 0  BY <1>3, CostFacts
  <2> QED  BY <1>5, <1>7, <2>3, <2>4
<1>12. \A t \in 0 .. polled' : \A i \in InSlot(t)' :
         t # polled' \/ i \notin todo' => Finish(i, t)' <= param'[i].deadline
  <2> SUFFICES ASSUME NEW t \in 0 .. polled', NEW i \in InSlot(t)', t # polled' \/ i \notin todo'
               PROVE  Finish(i, t)' <= param'[i].deadline
    OBVIOUS
  <2>1. InSlot(t)' = InSlot(t) /\ Finish(i, t)' = Finish(i, t)  BY <1>10
  <2>2. i \in InSlot(t) /\ i \in Tasks  BY <2>1 DEF InSlot
  <2>3. t # polled'  BY <1>1, <2>2
  <2>4. Finish(i, t) <= param[i].deadline  BY <1>9, <2>2, <2>3
  <2> QED  BY <1>1, <2>1, <2>4
<1> QED  BY <1>1, <1>2, <1>5, <1>8, <1>10, <1>11, <1>12 DEF OnTable

LEMMA TableVisit ==
  ASSUME SchedTyped, OnTable, policy = "cyclic", NEW n \in Tasks, Visit(n)
  PROVE  OnTable'
<1>1. /\ UNCHANGED <<policy, param, access, accepted, left, polled>>
      /\ n \in todo /\ (\A j \in todo : n <= j) /\ todo' = todo \ {n} /\ ~ missed
  BY DEF Visit
<1> SUFFICES ASSUME TableIsRun  PROVE OnTable'
  BY <1>1, TableStays DEF OnTable
<1> DEFINE T == param[n].period
           c == param[n].wcet
           S == InSlot(polled)
<1>2. /\ polled % Base = 0
      /\ \A j \in Tasks \ todo : \A k \in todo : j < k
      /\ \A i \in Tasks :
         /\ due[i] % param[i].period = 0
         /\ i \in todo => polled <= due[i] /\ due[i] < polled + param[i].period
         /\ i \notin todo => polled < due[i] /\ due[i] <= polled + param[i].period
      /\ now = polled + SlotCost(S \ todo)
      /\ \A t \in 0 .. polled : \A i \in InSlot(t) :
           t # polled \/ i \notin todo => Finish(i, t) <= param[i].deadline
  BY <1>1 DEF OnTable
<1>3. /\ TasksInv /\ now \in Nat /\ polled \in Nat /\ due \in [Tasks -> Nat] /\ todo \in SUBSET Tasks
      /\ S \in SUBSET Tasks /\ \A i \in Tasks : i \in Nat
  BY PriorityOrder DEF SchedTyped, InSlot
<1>4. /\ T \in Nat \ {0} /\ c \in Nat \ {0} /\ param[n].deadline \in Nat /\ due[n] \in Nat
  BY <1>3, ParamFacts
<1>5. \A j \in Tasks : j \in Higher(n) <=> j \notin todo
  <2>1. \A j \in Tasks : j \in Higher(n) <=> j < n
    <3> TAKE j \in Tasks
    <3>1. j < n => Less(j, n)  BY DEF TableIsRun
    <3>2. n < j => Less(n, j)  BY DEF TableIsRun
    <3>3. j \in Nat /\ n \in Nat  BY <1>3
    <3>4. j = n \/ j < n \/ n < j  BY <3>3
    <3>5. ~ Less(n, n) /\ ~ (Less(n, j) /\ Less(j, n))  BY <1>3, PriorityOrder
    <3>6. ~ (j < n /\ n < j) /\ ~ (n < n)  BY <3>3
    <3> QED  BY <3>1, <3>2, <3>4, <3>5, <3>6 DEF Higher
  <2>2. \A j \in Tasks \ todo : j < n  BY <1>1, <1>2
  <2>3. \A j \in todo : ~ (j < n)
    <3> TAKE j \in todo
    <3>1. n <= j /\ j \in Nat /\ n \in Nat  BY <1>1, <1>3
    <3> QED  BY <3>1
  <2> QED  BY <2>1, <2>2, <2>3
<1>6. \A j \in Tasks \ todo' : \A k \in todo' : j < k
  <2> TAKE j \in Tasks \ todo'
  <2> TAKE k \in todo'
  <2>1. k \in todo /\ k # n /\ (j = n \/ j \in Tasks \ todo)  BY <1>1
  <2>2. n <= k /\ k \in Nat /\ n \in Nat  BY <1>1, <1>3, <2>1
  <2> QED  BY <1>2, <2>1, <2>2
<1>7. due[n] % T = 0 /\ polled <= due[n] /\ due[n] < polled + T  BY <1>1, <1>2
<1>8. n \in S <=> due[n] <= polled
  <2>1. n \in S <=> polled % T = 0  BY DEF InSlot, IsMultiple
  <2>2. ASSUME polled % T = 0  PROVE due[n] <= polled
    <3> SUFFICES ASSUME polled < due[n]  PROVE FALSE
      BY <1>3, <1>4
    <3>1. polled + T <= due[n]  BY <1>3, <1>4, <1>7, <2>2, MultipleGap
    <3> HIDE DEF T
    <3> QED  BY <1>3, <1>4, <1>7, <3>1
  <2>3. due[n] <= polled => due[n] = polled  BY <1>3, <1>4, <1>7
  <2> QED  BY <1>7, <2>1, <2>2, <2>3
<1>9. /\ Base' = Base /\ Slots' = Slots /\ Tasks' = Tasks /\ InSlot(polled)' = S
      /\ \A R : SlotCost(R)' = SlotCost(R)
      /\ \A i, t : Finish(i, t)' = Finish(i, t) /\ InSlot(t)' = InSlot(t)
  <2>1. InSlot(polled)' = InSlot(polled)  BY <1>1 DEF InSlot, Tasks, IsMultiple
  <2> QED  BY <1>1, <2>1, TableStays, SchedStays
<1>10. SlotCost(InSlot(polled) \ todo)' = SlotCost(S \ todo')
  <2>1. SlotCost(InSlot(polled) \ todo)' = SumOver([i \in Tasks' |-> param'[i].wcet], InSlot(polled)' \ todo')
    BY DEF SlotCost
  <2> QED  BY <1>1, <1>9, <2>1 DEF SlotCost
<1> DEFINE Past == \A t \in 0 .. polled : \A i \in InSlot(t) :
                     t # polled \/ i \notin todo' => Finish(i, t) <= param[i].deadline
           Times == \A i \in Tasks :
                      /\ due'[i] % param[i].period = 0
                      /\ i \in todo' => polled <= due'[i] /\ due'[i] < polled + param[i].period
                      /\ i \notin todo' => polled < due'[i] /\ due'[i] <= polled + param[i].period
<1>11. /\ Times /\ now' = polled + SlotCost(S \ todo')
       /\ missed' => n \in S /\ Finish(n, polled) > param[n].deadline
       /\ ~ missed' => Past
  <2>1. CASE due[n] <= polled
    <3>1. /\ now' = now + c /\ due' = [due EXCEPT ![n] = @ + T]
          /\ missed' = (now' > due[n] + param[n].deadline)
      BY <2>1 DEF Visit
    <3>2. n \in S /\ due[n] = polled  BY <1>3, <1>4, <1>7, <1>8, <2>1
    <3>3. S \ todo' = (S \ todo) \cup {n} /\ (S \ todo') \ {n} = S \ todo /\ n \in S \ todo'
      BY <1>1, <3>2
    <3>4. SlotCost(S \ todo') = c + SlotCost(S \ todo) /\ SlotCost(S \ todo) \in Nat
      <4>1. S \ todo' \in SUBSET Tasks /\ S \ todo \in SUBSET Tasks  BY <1>3
      <4> QED  BY <1>3, <3>3, <4>1, CostFacts
    <3>5. S \cap Higher(n) = S \ todo  BY <1>3, <1>5
    <3>6. Finish(n, polled) = SlotCost(S \ todo) + c  BY <3>5 DEF Finish
    <3>7. now' = polled + Finish(n, polled) /\ now' = polled + SlotCost(S \ todo')
          /\ Finish(n, polled) \in Nat
      BY <1>2, <1>3, <1>4, <3>1, <3>4, <3>6
    <3>8. missed' <=> Finish(n, polled) > param[n].deadline
      <4>1. now' > due[n] + param[n].deadline <=> Finish(n, polled) > param[n].deadline
        BY <1>3, <1>4, <3>2, <3>7
      <4> QED  BY <3>1, <4>1
    <3>9. Times
      <4> SUFFICES ASSUME NEW i \in Tasks
                   PROVE  /\ due'[i] % param[i].period = 0
                          /\ i \in todo' => polled <= due'[i] /\ due'[i] < polled + param[i].period
                          /\ i \notin todo' => polled < due'[i] /\ due'[i] <= polled + param[i].period
        OBVIOUS
      <4>1. CASE i # n
        <5>1. due'[i] = due[i] /\ (i \in todo' <=> i \in todo)  BY <1>1, <3>1, <4>1
        <5> QED  BY <1>2, <5>1
      <4>2. CASE i = n
        <5>1. due'[i] = due[n] + T /\ i \notin todo'  BY <1>1, <1>3, <3>1, <4>2
        <5>2. (due[n] + T) % T = 0  BY <1>4, <1>7, MultipleNext
        <5>3. polled < due[n] + T /\ due[n] + T <= polled + T  BY <1>3, <1>4, <3>2
        <5> QED  BY <4>2, <5>1, <5>2, <5>3
      <4> QED  BY <4>1, <4>2
    <3>10. ~ missed' => Past
      <4> SUFFICES ASSUME ~ missed', NEW t \in 0 .. polled, NEW i \in InSlot(t), t # polled \/ i \notin todo'
                   PROVE  Finish(i, t) <= param[i].deadline
        OBVIOUS
      <4>1. CASE t # polled \/ i \notin todo  BY <1>2, <4>1
      <4>2. CASE t = polled /\ i = n
        <5>1. ~ (Finish(n, polled) > param[n].deadline)  BY <3>8
        <5> QED  BY <1>4, <3>7, <4>2, <5>1
      <4> QED  BY <1>1, <4>1, <4>2
    <3> HIDE DEF Times, Past
    <3> QED  BY <3>2, <3>7, <3>8, <3>9, <3>10
  <2>2. CASE ~ (due[n] <= polled)
    <3>1. UNCHANGED <<now, due, missed>>  BY <2>2 DEF Visit
    <3>2. n \notin S  BY <1>8, <2>2
    <3>3. S \ todo' = S \ todo  BY <1>1, <3>2
    <3>4. Times
      <4> SUFFICES ASSUME NEW i \in Tasks
                   PROVE  /\ due'[i] % param[i].period = 0
                          /\ i \in todo' => polled <= due'[i] /\ due'[i] < polled + param[i].period
                          /\ i \notin todo' => polled < due'[i] /\ due'[i] <= polled + param[i].period
        OBVIOUS
      <4>1. CASE i # n
        <5>1. due'[i] = due[i] /\ (i \in todo' <=> i \in todo)  BY <1>1, <3>1, <4>1
        <5> QED  BY <1>2, <5>1
      <4>2. CASE i = n
        <5>1. due'[i] = due[n] /\ i \notin todo'  BY <1>1, <3>1, <4>2
        <5>2. polled < due[n] /\ due[n] <= polled + T  BY <1>3, <1>4, <1>7, <2>2
        <5> QED  BY <1>7, <4>2, <5>1, <5>2
      <4> QED  BY <4>1, <4>2
    <3>5. Past
      <4> SUFFICES ASSUME NEW t \in 0 .. polled, NEW i \in InSlot(t), t # polled \/ i \notin todo'
                   PROVE  Finish(i, t) <= param[i].deadline
        OBVIOUS
      <4>1. t # polled \/ i \notin todo  BY <1>1, <3>2
      <4> QED  BY <1>2, <4>1
    <3> QED  BY <1>1, <1>2, <3>1, <3>3, <3>4, <3>5
  <2> QED  BY <2>1, <2>2
<1>12. missed' => \E s \in Slots : \E i \in InSlot(s) : Finish(i, s) > param[i].deadline
  <2> SUFFICES ASSUME missed'  PROVE \E s \in Slots : \E i \in InSlot(s) : Finish(i, s) > param[i].deadline
    OBVIOUS
  <2>1. PICK s \in Slots : InSlot(s) = InSlot(polled)  BY <1>2, <1>3, SlotAgain
  <2>2. n \in InSlot(s) /\ Finish(n, s) = Finish(n, polled)  BY <1>11, <2>1 DEF Finish
  <2> QED  BY <1>11, <2>2
<1>13. now' = polled' + SlotCost(InSlot(polled) \ todo)'  BY <1>1, <1>10, <1>11
<1>14. missed' => \E s \in Slots' : \E i \in InSlot(s)' : Finish(i, s)' > param'[i].deadline
  BY <1>1, <1>9, <1>12
<1>15. ~ missed' => \A t \in 0 .. polled' : \A i \in InSlot(t)' :
                      t # polled' \/ i \notin todo' => Finish(i, t)' <= param'[i].deadline
  BY <1>1, <1>9, <1>11
<1>16. \A i \in Tasks' :
         /\ due'[i] % param'[i].period = 0
         /\ i \in todo' => polled' <= due'[i] /\ due'[i] < polled' + param'[i].period
         /\ i \notin todo' => polled' < due'[i] /\ due'[i] <= polled' + param'[i].period
  BY <1>1, <1>9, <1>11
<1>17. polled' % Base' = 0 /\ \A j \in Tasks' \ todo' : \A k \in todo' : j < k
  BY <1>1, <1>2, <1>6, <1>9
<1> HIDE DEF Past, Times
<1> QED  BY <1>13, <1>14, <1>15, <1>16, <1>17 DEF OnTable

LEMMA TableStep ==
  ASSUME SchedTyped, OnTable, [CheckNext]_checkVars
  PROVE  OnTable'
<1>0. policy' = policy  BY DEF CheckNext, RunThreads, Visit, NextPass, checkVars
<1>1. CASE policy # "cyclic"  BY <1>0, <1>1 DEF OnTable
<1>2. CASE policy = "cyclic"
  <2>1. CASE RunThreads  BY <1>2, <2>1 DEF RunThreads
  <2>2. CASE NextPass  BY <1>2, <2>2, TablePass
  <2>3. ASSUME NEW i \in Tasks, Visit(i)  PROVE OnTable'  BY <1>2, <2>3, TableVisit
  <2>4. CASE UNCHANGED checkVars
    <3>1. UNCHANGED <<policy, param, access, accepted, now, polled, due, todo, missed>>
      BY <2>4 DEF checkVars
    <3>2. /\ Base' = Base /\ Slots' = Slots /\ TableIsRun' = TableIsRun /\ Tasks' = Tasks
          /\ \A i, t : Finish(i, t)' = Finish(i, t) /\ InSlot(t)' = InSlot(t)
      BY <3>1, TableStays, SchedStays
    <3>3. SlotCost(InSlot(polled) \ todo)' = SlotCost(InSlot(polled) \ todo)
      BY <3>1 DEF SlotCost, InSlot, Tasks, IsMultiple
    <3> QED  BY <3>1, <3>2, <3>3 DEF OnTable
  <2> QED  BY <2>1, <2>2, <2>3, <2>4 DEF CheckNext
<1> QED  BY <1>1, <1>2

-----------------------------------------------------------------------------
ScheduleInv == ThreadInv /\ CoopInTime /\ OnTable

LEMMA ScheduleIsInvariant == CheckSpec => []ScheduleInv
<1>1. CheckInit => ScheduleInv  BY ThreadStart, CoopStart, TableStart DEF ScheduleInv
<1>2. ScheduleInv /\ [CheckNext]_checkVars => ScheduleInv'
  BY ThreadStep, CoopStep, TableStep DEF ScheduleInv, ThreadInv
<1> QED  BY <1>1, <1>2, PTL DEF CheckSpec

LEMMA FinishFacts ==
  ASSUME TasksInv, NEW i \in Tasks, NEW t
  PROVE  Finish(i, t) \in Nat
<1>1. InSlot(t) \cap Higher(i) \in SUBSET Tasks  BY DEF InSlot
<1>2. SlotCost(InSlot(t) \cap Higher(i)) \in Nat  BY <1>1, CostFacts
<1> QED  BY <1>2, ParamFacts DEF Finish

(* max_thread_blocking_rec finds the blocking of the document, for any     *)
(* number of tasks and of resources and any records of their accesses.     *)
THEOREM BlockingFound == CheckSpec => []BlockingIsLargest
<1>1. ScheduleInv => BlockingIsLargest
  <2> SUFFICES ASSUME ScheduleInv, NEW i \in Tasks
               PROVE  ThreadBlocking(Lower(i)) = Max({Length(C) : C \in Combos(Lower(i), Resources)})
    BY DEF BlockingIsLargest
  <2>1. TasksInv  BY DEF ScheduleInv, ThreadInv, SchedTyped
  <2>2. Lower(i) \in SUBSET Tasks  BY DEF Lower
  <2> QED  BY <2>1, <2>2, ThreadBlockingFacts
<1> QED  BY <1>1, ScheduleIsInvariant, PTL

(* What a check accepts meets its deadlines: any number of threads, on     *)
(* any periods and deadlines; the two runtimes of a cooperative executor;  *)
(* and a cyclic one that runs the table.                                   *)
THEOREM AcceptedIsInTime == CheckSpec => []AcceptedMeetDeadlines
<1>1. ScheduleInv => AcceptedMeetDeadlines
  <2> SUFFICES ASSUME ScheduleInv, accepted, missed,
                      policy = "coop" => Cardinality(Tasks) <= 2,
                      policy = "cyclic" => TableIsRun
               PROVE  FALSE
    BY DEF AcceptedMeetDeadlines
  <2>1. SchedTyped /\ TasksInv  BY DEF ScheduleInv, ThreadInv, SchedTyped
  <2>2. CASE policy = "thread"  BY <2>2 DEF ScheduleInv, ThreadInv, ThreadsInTime
  <2>3. CASE policy = "coop"  BY <2>3 DEF ScheduleInv, CoopInTime
  <2>4. CASE policy = "cyclic"
    <3>1. PICK s \in Slots : \E i \in InSlot(s) : Finish(i, s) > param[i].deadline
      BY <2>4 DEF ScheduleInv, OnTable
    <3>2. PICK i \in InSlot(s) : Finish(i, s) > param[i].deadline  BY <3>1
    <3>3. Finish(i, s) <= param[i].deadline  BY <2>1, <2>4 DEF SchedTyped, Accepts
    <3>4. i \in Tasks  BY DEF InSlot
    <3>5. Finish(i, s) \in Nat /\ param[i].deadline \in Nat  BY <2>1, <3>4, FinishFacts, ParamFacts
    <3> QED  BY <3>2, <3>3, <3>5
  <2> QED  BY <2>1, <2>2, <2>3, <2>4 DEF TasksInv, Policies
<1> QED  BY <1>1, ScheduleIsInvariant, PTL

(* What a check rejects misses a deadline: threads that nothing blocks, by *)
(* the end of the critical instant, and a cyclic executive that runs the   *)
(* table, by the end of the hyperperiod.                                   *)
THEOREM RejectedIsLate == CheckSpec => []RejectedMissDeadlines
<1>1. ScheduleInv => RejectedMissDeadlines
  <2> SUFFICES ASSUME ScheduleInv, ~ accepted, ~ missed,
                      \/ /\ policy = "thread"
                         /\ \A i \in Tasks : ThreadBlocking(Lower(i)) = 0 /\ now >= param[i].deadline
                      \/ policy = "cyclic" /\ TableIsRun /\ polled >= Hyperperiod
               PROVE  FALSE
    BY DEF RejectedMissDeadlines
  <2>1. SchedTyped /\ TasksInv /\ ~ Accepts  BY DEF ScheduleInv, ThreadInv, SchedTyped
  <2>2. CASE /\ policy = "thread"
             /\ \A i \in Tasks : ThreadBlocking(Lower(i)) = 0 /\ now >= param[i].deadline
    <3>1. PICK i \in Tasks : ~ (Response(i) <= param[i].deadline)  BY <2>1, <2>2 DEF Accepts
    <3>2. Response(i) \in Nat /\ param[i].deadline \in Nat \ {0} /\ now \in Nat
      BY <2>1, ResponseFacts, ParamFacts DEF SchedTyped
    <3>3. Blocking(i) = 0 /\ now >= param[i].deadline  BY <2>2 DEF Blocking
    <3>4. now > 0 /\ Response(i) > param[i].deadline  BY <3>1, <3>2, <3>3
    <3>5. now < param[i].deadline  BY <2>2, <3>3, <3>4 DEF ScheduleInv, ThreadInv, ThreadsLate
    <3> QED  BY <3>2, <3>3, <3>5
  <2>3. CASE policy = "cyclic" /\ TableIsRun /\ polled >= Hyperperiod
    <3>0. PICK t \in Slots : \E i \in InSlot(t) : ~ (Finish(i, t) <= param[i].deadline)
      BY <2>1, <2>3 DEF Accepts
    <3>1. PICK i \in InSlot(t) : ~ (Finish(i, t) <= param[i].deadline)  BY <3>0
    <3>2. t \in 0 .. Hyperperiod - 1 /\ polled \in Nat  BY <2>1 DEF Slots, SchedTyped
    <3>3. Hyperperiod \in Nat
      <4> DEFINE all == {h \in 1 .. Horizon : \A k \in Tasks : IsMultiple(h, param[k].period)}
      <4>1. all \in SUBSET Nat /\ all # {}
        <5>1. \E h \in 1 .. Horizon : \A k \in Tasks : h % param[k].period = 0
          BY <2>1, <2>3 DEF SchedTyped
        <5> QED  BY <5>1 DEF IsMultiple
      <4>2. Hyperperiod = Min(all)  BY DEF Hyperperiod
      <4> HIDE DEF all
      <4>3. \E x \in all : \A y \in all : x <= y  BY <4>1, Least, Zenon
      <4> QED  BY <4>1, <4>2, <4>3 DEF Min
    <3>4. t \in 0 .. polled /\ t # polled  BY <2>3, <3>2, <3>3
    <3>5. Finish(i, t) <= param[i].deadline  BY <2>3, <3>4 DEF ScheduleInv, OnTable
    <3> QED  BY <3>1, <3>5
  <2> QED  BY <2>2, <2>3
<1> QED  BY <1>1, ScheduleIsInvariant, PTL
=============================================================================
