--------------------------- MODULE CoopExecProofs ---------------------------
(***************************************************************************)
(* The instants of the cooperative executor, for any runtimes, periods and *)
(* deadlines, and however late a pass is.                                  *)
(***************************************************************************)
EXTENDS CoopExec, Lemmas, TLAPS

Numbers ==
  /\ polled \in Nat /\ now \in Nat
  /\ task \in Runtimes
  /\ due \in [Nodes -> Nat]
  /\ label \in [Runtimes -> Nat]
  /\ DOMAIN active = Runtimes

(* The inductive invariant: what a runtime has ticked for is behind every  *)
(* node of it, also those that were not in that tick.                      *)
IInv ==
  /\ Numbers
  /\ \A r \in Runtimes : DOMAIN active[r] # {} =>
       \A n \in Periodic(r) : due[n] > label[r]

-----------------------------------------------------------------------------
(* The earliest of some instants is one of them, and none is earlier.      *)
LEMMA MinOfNaturals ==
  ASSUME NEW S \in SUBSET Nat, S # {}
  PROVE  Min(S) \in S /\ \A y \in S : Min(S) <= y
BY Least DEF Min

LEMMA InvInit == Init => IInv
<1> SUFFICES ASSUME Init PROVE IInv
  OBVIOUS
<1>1. 0 \in Runtimes
  BY RuntimesAssumption
<1> QED  BY <1>1 DEF Init, IInv, Numbers

(* The tick of a runtime, and where it leaves all of them.                 *)
LEMMA StartTickFacts ==
  ASSUME IInv, StartTick
  PROVE  /\ label'[task] \in Nat
         /\ \E n \in Periodic(task) : due[n] = label'[task]
         /\ IInv'
<1> DEFINE instants == {due[n] : n \in Expired(task)}
           a == Min(instants)
<1>1. /\ Expired(task) # {} /\ task \in Runtimes
      /\ label' = [label EXCEPT ![task] = a]
      /\ due' = [n \in Nodes |-> IF n \in Expired(task) THEN due[n] + Period[n] ELSE due[n]]
      /\ UNCHANGED <<now, polled, task, stop>>
  BY DEF StartTick, IInv, Numbers
<1>2. \A r \in Runtimes : \A n \in Periodic(r) :
        n \in Nodes /\ due[n] \in Nat /\ Period[n] \in Nat /\ Period[n] > 0
  BY TimesAssumption DEF IInv, Numbers, Periodic, Nodes
<1>3. Expired(task) \subseteq Periodic(task)
      /\ \A n \in Periodic(task) : n \in Expired(task) <=> due[n] <= polled
  BY DEF Expired
<1>4. instants \in SUBSET Nat /\ instants # {}
  BY <1>1, <1>2, <1>3
<1>5. a \in instants /\ \A y \in instants : a <= y
  BY <1>4, MinOfNaturals
<1> HIDE DEF a
<1>6. PICK k \in Expired(task) : due[k] = a
  BY <1>5
<1>7. a \in Nat /\ a <= polled /\ polled \in Nat
  BY <1>1, <1>2, <1>3, <1>6 DEF IInv, Numbers
<1>8. label'[task] = a /\ \A r \in Runtimes \ {task} : label'[r] = label[r]
  BY <1>1 DEF IInv, Numbers
<1>9. Numbers'
  <2>1. due' \in [Nodes -> Nat]
    BY <1>1, TimesAssumption DEF IInv, Numbers
  <2>2. DOMAIN active' = Runtimes
    BY DEF StartTick, IInv, Numbers
  <2> QED  BY <1>1, <1>7, <2>1, <2>2 DEF IInv, Numbers
<1>10. ASSUME NEW r \in Runtimes, DOMAIN active'[r] # {}, NEW n \in Periodic(r)
       PROVE  due'[n] > label'[r]
  <2>1. CASE r = task
    <3>1. CASE n \in Expired(task)
      BY <1>1, <1>2, <1>5, <1>7, <1>8, <2>1, <3>1
    <3>2. CASE n \notin Expired(task)
      BY <1>1, <1>2, <1>3, <1>7, <1>8, <2>1, <3>2
    <3> QED  BY <3>1, <3>2
  <2>2. CASE r # task
    <3>1. n \notin Expired(task)
      BY <1>1, <1>3, <2>2, RuntimesAssumption DEF Periodic
    <3>2. active'[r] = active[r]
      BY <2>2 DEF StartTick, IInv, Numbers
    <3> QED  BY <1>1, <1>2, <1>8, <1>10, <2>2, <3>1, <3>2 DEF IInv
  <2> QED  BY <2>1, <2>2
<1>11. IInv'
  <2>1. \A r : Periodic(r)' = Periodic(r)
    BY DEF Periodic
  <2> QED  BY <1>9, <1>10, <2>1 DEF IInv
<1> QED  BY <1>3, <1>6, <1>7, <1>8, <1>11

LEMMA InvNext ==
  ASSUME IInv, [Next]_vars
  PROVE  IInv'
<1>1. CASE StartTick
  BY <1>1, StartTickFacts
<1>2. CASE ~ StartTick
  <2>1. UNCHANGED <<due, label, active>>
    BY <1>2 DEF Next, Executor, Poll, Return, EndTick, NothingDue, Sleep, Wake, RequestStop,
                Tick, Finished, vars
  <2>2. task' \in Runtimes
    <3>1. 0 \in Runtimes  BY RuntimesAssumption
    <3> QED
      BY <1>2, <3>1 DEF IInv, Numbers, Next, Executor, Poll, Return, EndTick, NothingDue, Sleep,
                        Wake, RequestStop, Tick, Finished, vars, NextTask
  <2>3. now' \in Nat /\ polled' \in Nat
    BY <1>2 DEF IInv, Numbers, Next, Executor, Poll, Return, EndTick, NothingDue, Sleep, Wake,
                RequestStop, Tick, Finished, vars
  <2> QED  BY <2>1, <2>2, <2>3 DEF IInv, Numbers
<1> QED  BY <1>1, <1>2

(* A runtime never ticks twice for an instant, nor for an earlier one than *)
(* before, whatever has been missed.                                       *)
THEOREM InstantsOfRuntimeIncrease == Spec => InstantsIncrease
<1>1. ASSUME IInv, StartTick
      PROVE  DOMAIN active[task] = {} \/ label'[task] > label[task]
  <2>1. PICK n \in Periodic(task) : due[n] = label'[task]
    BY <1>1, StartTickFacts
  <2>2. DOMAIN active[task] # {} => due[n] > label[task]
    BY <1>1 DEF IInv, Numbers
  <2> QED  BY <2>1, <2>2
<1> QED  BY <1>1, InvInit, InvNext, PTL DEF Spec, InstantsIncrease

-----------------------------------------------------------------------------
(* Ticks that are for one instant.                                         *)

OnInstants ==
  \A r \in Runtimes : \A n \in Periodic(r) : due[n] % Period[n] = 0

(* A node whose period divides another's is never behind it: what delays   *)
(* the one delays both.                                                    *)
ShorterFirst ==
  \A r \in Runtimes : \A n, m \in Periodic(r) :
    Period[m] % Period[n] = 0 => due[n] <= due[m]

(* The instants of the nodes that are ticked, and the one of the tick.     *)
TickOf(r, group) ==
  /\ group \subseteq Periodic(r)
  /\ \A n \in group :
       /\ InstantOf(n) \in Nat /\ InstantOf(n) % Period[n] = 0
       /\ label[r] <= InstantOf(n) /\ InstantOf(n) <= polled
  /\ \E n \in group : InstantOf(n) = label[r]
  /\ \A n, m \in group : Period[m] % Period[n] = 0 => InstantOf(n) <= InstantOf(m)

ExactInv ==
  /\ OnInstants
  /\ ShorterFirst
  /\ pc = "tick" => TickOf(task, Ticking)

LEMMA ExactInit == Init => ExactInv
<1> SUFFICES ASSUME Init  PROVE ExactInv
  OBVIOUS
<1>1. \A r \in Runtimes : \A n \in Periodic(r) :
        n \in Nodes /\ Period[n] \in Nat \ {0} /\ due[n] = 0
  BY TimesAssumption DEF Init, Periodic, Nodes
<1>2. \A p \in Nat \ {0} : 0 % p = 0
  <2> SUFFICES ASSUME NEW p \in Nat \ {0}  PROVE 0 % p = 0
    OBVIOUS
  <2>1. (p * 0) % p = 0  BY MultipleIsZero
  <2> QED  BY <2>1
<1>3. OnInstants /\ ShorterFirst  BY <1>1, <1>2 DEF OnInstants, ShorterFirst
<1> QED  BY <1>3 DEF Init, ExactInv

(* A tick takes all that has expired, and advances each by one period.     *)
LEMMA StartTickExact ==
  ASSUME IInv, ExactInv, StartTick
  PROVE  ExactInv'
<1> DEFINE group == Expired(task)
           instants == {due[n] : n \in group}
           a == Min(instants)
<1>1. /\ group # {} /\ task \in Runtimes /\ polled \in Nat
      /\ label' = [label EXCEPT ![task] = a]
      /\ due' = [n \in Nodes |-> IF n \in group THEN due[n] + Period[n] ELSE due[n]]
      /\ active' = [active EXCEPT ![task] = InOrder(group \cup Async(task))]
      /\ pc' = "tick" /\ UNCHANGED <<now, polled, task, stop>>
      /\ DOMAIN active = Runtimes /\ label \in [Runtimes -> Nat]
  BY DEF StartTick, IInv, Numbers
<1>2. \A r \in Runtimes : \A n \in Periodic(r) :
        /\ n \in Nodes /\ due[n] \in Nat /\ Period[n] \in Nat \ {0}
        /\ due[n] % Period[n] = 0
  BY TimesAssumption DEF IInv, Numbers, Periodic, Nodes, ExactInv, OnInstants
<1>3. /\ group \subseteq Periodic(task)
      /\ \A n \in Periodic(task) : n \in group <=> due[n] <= polled
      /\ \A r \in Runtimes \ {task} : \A n \in Periodic(r) : n \notin group
  BY <1>1, RuntimesAssumption DEF Expired, Periodic
<1> HIDE DEF group
<1>4. instants \in SUBSET Nat /\ instants # {}
  BY <1>1, <1>2, <1>3
<1>5. a \in instants /\ \A y \in instants : a <= y
  BY <1>4, MinOfNaturals
<1> HIDE DEF a
<1>6. a \in Nat /\ (\E k \in group : due[k] = a) /\ \A n \in group : a <= due[n]
  BY <1>4, <1>5
<1>7. ASSUME NEW r \in Runtimes, NEW n \in Periodic(r)
      PROVE  /\ due'[n] \in Nat
             /\ n \in group => due'[n] = due[n] + Period[n]
             /\ n \notin group => due'[n] = due[n]
             /\ due'[n] % Period[n] = 0
  <2>1. n \in Nodes /\ due[n] \in Nat /\ Period[n] \in Nat \ {0} /\ due[n] % Period[n] = 0
    BY <1>2
  <2>2. (due[n] + Period[n]) % Period[n] = 0  BY <2>1, MultipleNext
  <2> QED  BY <1>1, <2>1, <2>2
<1>8. OnInstants'
  <2>1. \A r : Periodic(r)' = Periodic(r)  BY DEF Periodic
  <2> QED  BY <1>7, <2>1 DEF OnInstants
<1>9. ShorterFirst'
  <2> SUFFICES ASSUME NEW r \in Runtimes, NEW n \in Periodic(r), NEW m \in Periodic(r),
                      Period[m] % Period[n] = 0
               PROVE  due'[n] <= due'[m]
    BY DEF ShorterFirst, Periodic
  <2>1. /\ due[n] \in Nat /\ Period[n] \in Nat \ {0} /\ due[n] % Period[n] = 0
        /\ due[m] \in Nat /\ Period[m] \in Nat \ {0} /\ due[m] % Period[m] = 0
    BY <1>2
  <2>2. due[n] <= due[m]  BY DEF ExactInv, ShorterFirst
  <2>3. Period[n] <= Period[m] /\ due[m] % Period[n] = 0
    <3>1. due[m] % Period[n] = 0  BY <2>1, Divides
    <3>2. 0 < Period[m] /\ 0 % Period[n] = 0
      <4>1. (Period[n] * 0) % Period[n] = 0  BY <2>1, MultipleIsZero
      <4> QED  BY <2>1, <4>1
    <3>3. 0 + Period[n] <= Period[m]  BY <2>1, <3>2, MultipleGap
    <3> QED  BY <2>1, <3>1, <3>3
  <2>4. CASE m \in group
    <3>1. r = task  BY <1>3, <2>4
    <3>2. n \in group  BY <1>1, <1>3, <2>1, <2>2, <2>4, <3>1
    <3> QED  BY <1>7, <2>1, <2>2, <2>3, <2>4, <3>2
  <2>5. CASE m \notin group /\ n \in group
    <3>1. r = task  BY <1>3, <2>5
    <3>2. due[n] < due[m]  BY <1>1, <1>3, <2>1, <2>5, <3>1
    <3>3. due[n] + Period[n] <= due[m]  BY <2>1, <2>3, <3>2, MultipleGap
    <3> QED  BY <1>7, <2>5, <3>3
  <2>6. CASE m \notin group /\ n \notin group
    BY <1>7, <2>2, <2>6
  <2> QED  BY <2>4, <2>5, <2>6
<1>10. Ticking' = group
  <2>1. DOMAIN active'[task] = group \cup Async(task)  BY <1>1 DEF InOrder
  <2>2. \A n \in Async(task) : ~ (Period[n] > 0)  BY DEF Async
  <2>3. \A n \in group : Period[n] > 0  BY <1>3 DEF Periodic
  <2> QED  BY <1>1, <2>1, <2>2, <2>3 DEF Ticking
<1>11. \A n \in group : InstantOf(n)' = due[n]
  <2> SUFFICES ASSUME NEW n \in group  PROVE due'[n] - Period[n] = due[n]
    BY DEF InstantOf
  <2> QED  BY <1>1, <1>2, <1>3, <1>7
<1>12. TickOf(task, Ticking)'
  <2>1. label'[task] = a  BY <1>1
  <2>2. \A n \in group : due[n] \in Nat /\ due[n] % Period[n] = 0 /\ a <= due[n] /\ due[n] <= polled
    BY <1>1, <1>2, <1>3, <1>6
  <2>3. \A n, m \in group : Period[m] % Period[n] = 0 => due[n] <= due[m]
    BY <1>1, <1>3 DEF ExactInv, ShorterFirst
  <2>4. Periodic(task)' = Periodic(task)  BY <1>1 DEF Periodic
  <2> QED  BY <1>1, <1>3, <1>6, <1>10, <1>11, <2>1, <2>2, <2>3, <2>4 DEF TickOf
<1> QED  BY <1>1, <1>8, <1>9, <1>12 DEF ExactInv

LEMMA ExactNext ==
  ASSUME IInv, ExactInv, [Next]_vars
  PROVE  ExactInv'
<1>1. CASE StartTick
  BY <1>1, StartTickExact
<1>2. CASE ~ StartTick
  <2>1. UNCHANGED <<due, label, active>>
    BY <1>2 DEF Next, Executor, Poll, Return, EndTick, NothingDue, Sleep, Wake, RequestStop,
                Tick, Finished, vars
  <2>2. pc' = "tick" => pc = "tick" /\ UNCHANGED <<task, polled>>
    BY <1>2 DEF Next, Executor, Poll, Return, EndTick, NothingDue, Sleep, Wake, RequestStop,
                Tick, Finished, vars, NextTask
  <2>3. OnInstants' /\ ShorterFirst'
    BY <2>1 DEF ExactInv, OnInstants, ShorterFirst, Periodic
  <2>4. ASSUME pc' = "tick"  PROVE TickOf(task, Ticking)'
    BY <2>1, <2>2, <2>4 DEF ExactInv, TickOf, Ticking, InstantOf, Periodic
  <2> QED  BY <2>3, <2>4 DEF ExactInv
<1> QED  BY <1>1, <1>2

(* Where the periods of a runtime divide each other, a pass that begins    *)
(* before the deadlines of what it ticks ticks it for one instant.         *)
THEOREM OnTimeTicksForOneInstant == Spec => []OnTimeTicksAreExact
<1>1. IInv /\ ExactInv => OnTimeTicksAreExact
  <2> SUFFICES ASSUME IInv, ExactInv, pc = "tick", Harmonic(task),
                      \A n \in Ticking : InstantOf(n) + Deadline[n] > polled,
                      NEW n \in Ticking
               PROVE  InstantOf(n) = label[task]
    BY DEF OnTimeTicksAreExact
  <2>1. TickOf(task, Ticking) /\ task \in Runtimes /\ polled \in Nat
    BY DEF ExactInv, IInv, Numbers
  <2>2. PICK k \in Ticking : InstantOf(k) = label[task]  BY <2>1 DEF TickOf
  <2>3. \A m \in Ticking :
          /\ m \in Periodic(task) /\ Period[m] \in Nat \ {0}
          /\ Deadline[m] \in Nat /\ Deadline[m] <= Period[m]
          /\ InstantOf(m) \in Nat /\ InstantOf(m) % Period[m] = 0
          /\ label[task] <= InstantOf(m) /\ InstantOf(m) <= polled
    BY <2>1, TimesAssumption DEF TickOf, Periodic, Nodes
  <2>4. CASE Period[n] <= Period[k]
    <3>1. Period[k] % Period[n] = 0  BY <2>3, <2>4 DEF Harmonic
    <3>2. InstantOf(n) <= InstantOf(k)  BY <2>1, <3>1 DEF TickOf
    <3> QED  BY <2>2, <2>3, <3>2
  <2>5. CASE Period[k] <= Period[n]
    <3>1. Period[n] % Period[k] = 0  BY <2>3, <2>5 DEF Harmonic
    <3>2. InstantOf(n) % Period[k] = 0  BY <2>3, <3>1, Divides
    <3>3. InstantOf(n) < InstantOf(k) + Period[k]  BY <2>1, <2>3
    <3>4. ~ (InstantOf(k) < InstantOf(n))
      <4>1. InstantOf(k) < InstantOf(n) => InstantOf(k) + Period[k] <= InstantOf(n)
        BY <2>3, <3>2, MultipleGap
      <4> QED  BY <2>3, <3>3, <4>1
    <3> QED  BY <2>2, <2>3, <3>4
  <2> QED  BY <2>3, <2>4, <2>5
<1> QED  BY <1>1, InvInit, InvNext, ExactInit, ExactNext, PTL DEF Spec
=============================================================================
