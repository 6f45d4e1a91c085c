-------------------------- MODULE CyclicExecProofs --------------------------
(***************************************************************************)
(* The cyclic executive implements TimeTriggered, for any runtimes,        *)
(* periods and deadlines, however late it runs and however often its table *)
(* wraps around.                                                           *)
(***************************************************************************)
EXTENDS CyclicExec, Lemmas

Periodic(r) == NodesOf[r] \cap PeriodicNodes
Async(r)    == NodesOf[r] \cap AsyncNodes

Places == {"task", "tick", "slotEnd", "asleep", "done"}

Numbers ==
  /\ now \in Nat /\ activation \in Nat /\ slot \in Nat
  /\ task \in Runtimes
  /\ pc \in Places
  /\ stop \in BOOLEAN
  /\ label \in [Runtimes -> Nat]
  /\ DOMAIN active = Runtimes

(* The loop is inside the table, and the slot it is in is the right one    *)
(* for its instant.                                                        *)
OnTheGrid ==
  /\ SlotCounts # {}
  /\ slot < SlotCount
  /\ activation % Base = 0
  /\ \A n \in PeriodicNodes : (slot * Base) % Period[n] = activation % Period[n]

(* The runtimes the pass over the current slot has seen to.                *)
Served(r) ==
  \/ pc = "task" /\ r < task
  \/ pc \in {"tick", "slotEnd"} /\ r <= task

Ticked(r) == DOMAIN active[r] # {}

(* No runtime is behind the current slot, and none is ahead of it.         *)
InStep(r) ==
  IF Served(r)
    THEN /\ \A n \in Periodic(r) : Due(r, n) > activation
         /\ Ticked(r) => label[r] <= activation
         /\ Async(r) # {} => label[r] = activation
    ELSE /\ \A n \in Periodic(r) : Due(r, n) >= activation
         /\ Ticked(r) => label[r] < activation

(* The inductive invariant.                                                *)
IInv ==
  /\ Numbers
  /\ \A r \in Runtimes : Ticked(r) => Async(r) \subseteq DOMAIN active[r]
  /\ pc # "done" =>
       /\ OnTheGrid
       /\ \A r \in Runtimes : InStep(r)
       /\ pc = "slotEnd" /\ ~stop => task + 1 \notin Runtimes
       /\ pc = "tick" => Ticked(task)

-----------------------------------------------------------------------------
(* Nodes and runtimes.                                                     *)
LEMMA NodeNumbers ==
  /\ 0 \in Runtimes /\ Runtimes \subseteq Nat
  /\ \A n \in PeriodicNodes : n \in Nodes /\ Period[n] \in Nat \ {0}
  /\ \A r \in Runtimes : NodesOf[r] = Periodic(r) \cup Async(r) /\ Periodic(r) # {}
  /\ \A n \in AsyncNodes : Period[n] = 0
<1>1. 0 \in Runtimes /\ Runtimes \subseteq Nat  BY RuntimesAssumption
<1>2. \A n \in Nodes : Period[n] \in Nat  BY TimesAssumption
<1>3. \A n \in PeriodicNodes : n \in Nodes /\ Period[n] \in Nat \ {0}
  BY <1>2 DEF PeriodicNodes
<1>4. \A r \in Runtimes : NodesOf[r] \subseteq Nodes  BY DEF Nodes
<1>5. \A n \in Nodes : n \in PeriodicNodes \/ n \in AsyncNodes
  BY <1>2 DEF PeriodicNodes, AsyncNodes
<1>6. \A r \in Runtimes : Periodic(r) # {}  BY RuntimesAssumption DEF Periodic
<1> QED  BY <1>1, <1>3, <1>4, <1>5, <1>6 DEF Periodic, Async, AsyncNodes

(* A node has one runtime.                                                 *)
LEMMA OneRuntime ==
  ASSUME NEW r \in Runtimes, NEW n \in NodesOf[r]
  PROVE  RuntimeOf(n) = r /\ \A q \in Runtimes : n \in NodesOf[q] => q = r
<1>1. \A q \in Runtimes : n \in NodesOf[q] => q = r
  <2> SUFFICES ASSUME NEW q \in Runtimes, n \in NodesOf[q], q # r  PROVE FALSE
    OBVIOUS
  <2>1. q \in Nat /\ r \in Nat  BY NodeNumbers
  <2>2. q < r \/ r < q  BY <2>1
  <2>3. n < n /\ n \in Nat  BY <2>2, RuntimesAssumption
  <2> QED  BY <2>3
<1>2. RuntimeOf(n) \in Runtimes /\ n \in NodesOf[RuntimeOf(n)]  BY DEF RuntimeOf
<1> QED  BY <1>1, <1>2

(* Every instant of a node is an instant of the base.                      *)
LEMMA BaseFacts ==
  Base \in Nat \ {0} /\ \A n \in PeriodicNodes : Period[n] % Base = 0
<1> DEFINE divisors == {d \in 1 .. Min(Periods) : \A p \in Periods : p % d = 0}
<1>1. Periods \in SUBSET Nat /\ Periods # {} /\ \A p \in Periods : p >= 1
  BY NodeNumbers DEF Periods, Periodic
<1>2. Min(Periods) \in Periods  BY <1>1, Least DEF Min
<1>3. PICK m \in Nat : m = Min(Periods) /\ m >= 1  BY <1>1, <1>2
<1>4. 1 \in divisors
  <2>1. \A p \in Nat : p % 1 = 0  OBVIOUS
  <2>2. 1 \in 1 .. m  BY <1>3
  <2> QED  BY <1>1, <1>3, <2>1, <2>2
<1>5. divisors \in SUBSET (0 .. m)  BY <1>3
<1>6. divisors # {}  BY <1>4
<1>7. Max(divisors) \in divisors
  <2>1. \E x \in divisors : \A y \in divisors : x >= y
    <3> HIDE DEF divisors
    <3> QED  BY <1>3, <1>5, <1>6, Greatest, Zenon
  <2> QED  BY <2>1 DEF Max
<1>8. Base \in divisors  BY <1>7 DEF Base
<1>9. Base \in 1 .. m /\ \A p \in Periods : p % Base = 0  BY <1>3, <1>8
<1> QED  BY <1>9, <1>3 DEF Periods

(* After the last slot every node is due again.                            *)
LEMMA SlotFacts ==
  ASSUME SlotCounts # {}
  PROVE  /\ SlotCount \in Nat \ {0}
         /\ \A n \in PeriodicNodes : (SlotCount * Base) % Period[n] = 0
<1>1. SlotCounts \in SUBSET Nat  BY BoundsAssumption DEF SlotCounts
<1>2. SlotCount \in SlotCounts  BY <1>1, Least DEF SlotCount, Min
<1>3. SlotCount \in 1 .. MaxSlots /\ \A p \in Periods : (SlotCount * Base) % p = 0
  BY <1>2 DEF SlotCounts
<1> QED  BY <1>3, BoundsAssumption DEF Periods

(* The first instant of a node after a.                                    *)
LEMMA DueAfterFacts ==
  ASSUME NEW n \in PeriodicNodes, NEW a \in Nat
  PROVE  /\ DueAfter(n, a) \in Nat /\ DueAfter(n, a) % Period[n] = 0
         /\ DueAfter(n, a) > a /\ DueAfter(n, a) <= a + Period[n]
<1>1. PICK p \in Nat \ {0} : p = Period[n]  BY NodeNumbers
<1> DEFINE k == a \div p
           s == a % p
<1>2. k \in Int /\ s \in 0 .. p - 1 /\ a = p * k + s  BY DivMod
<1>3. DueAfter(n, a) = (k + 1) * p  BY <1>1 DEF DueAfter
<1> HIDE DEF k, s
<1>4. k \in Nat
  <2>1. CASE k <= -1
    <3>1. p * k <= -p  BY <2>1, <1>2
    <3> QED  BY <3>1, <1>2
  <2> QED  BY <2>1, <1>2
<1>5. (k + 1) * p = p * (k + 1) /\ p * (k + 1) = p * k + p  BY <1>2
<1>6. (p * (k + 1)) % p = 0  BY <1>4, MultipleIsZero
<1>7. p * k \in Nat  BY <1>4
<1> QED  BY <1>1, <1>2, <1>3, <1>5, <1>6, <1>7

(* There is one instant of a node in an interval of one period.            *)
LEMMA OneInstant ==
  ASSUME NEW p \in Nat \ {0}, NEW d \in Nat, NEW e \in Nat, NEW a \in Nat,
         d % p = 0, e % p = 0, d > a, d <= a + p, e > a, e <= a + p
  PROVE  d = e
<1>1. ~ (d < e)
  <2>1. d < e => d + p <= e  BY MultipleGap
  <2> QED  BY <2>1
<1>2. ~ (e < d)
  <2>1. e < d => e + p <= d  BY MultipleGap
  <2> QED  BY <2>1
<1> QED  BY <1>1, <1>2

-----------------------------------------------------------------------------
(* The next instant of a node of a runtime.                                *)
LEMMA DueFacts ==
  ASSUME Numbers, NEW r \in Runtimes, NEW n \in Periodic(r)
  PROVE  /\ Due(r, n) \in Nat /\ Due(r, n) % Period[n] = 0
         /\ Ticked(r) => Due(r, n) > label[r] /\ Due(r, n) <= label[r] + Period[n]
         /\ ~ Ticked(r) => Due(r, n) = 0
<1>1. n \in PeriodicNodes /\ Period[n] \in Nat \ {0} /\ label[r] \in Nat
  BY NodeNumbers DEF Periodic, Numbers
<1>2. Due(r, n) = IF Ticked(r) THEN DueAfter(n, label[r]) ELSE 0
  BY <1>1 DEF Due, Ticked
<1>3. 0 % Period[n] = 0
  <2>1. (Period[n] * 0) % Period[n] = 0  BY <1>1, MultipleIsZero
  <2> QED  BY <2>1, <1>1
<1> QED  BY <1>1, <1>2, <1>3, DueAfterFacts

(* The nodes of a runtime that the slot runs are those due at its instant, *)
(* and the asynchronous ones.                                              *)
LEMMA ActiveFacts ==
  ASSUME Numbers, OnTheGrid, NEW r \in Runtimes
  PROVE  DOMAIN Active(r) =
           {n \in Periodic(r) : activation % Period[n] = 0} \cup Async(r)
<1>1. DOMAIN Active(r) = Table(slot) \cap NodesOf[r]  BY DEF Active
<1>2. \A n \in PeriodicNodes : (slot * Base) % Period[n] = activation % Period[n]
  BY DEF OnTheGrid
<1>3. Table(slot) = {n \in PeriodicNodes : activation % Period[n] = 0} \cup AsyncNodes
  BY <1>2 DEF Table
<1> QED  BY <1>1, <1>3 DEF Periodic, Async

(* What is due at the instant of the slot when a runtime's turn comes.     *)
LEMMA TurnFacts ==
  ASSUME Numbers, OnTheGrid, NEW r \in Runtimes, InStep(r), ~ Served(r), NEW n \in Periodic(r)
  PROVE  /\ activation % Period[n] = 0 =>
              Due(r, n) = activation /\ DueAfter(n, activation) = activation + Period[n]
         /\ activation % Period[n] # 0 =>
              Due(r, n) > activation /\ Due(r, n) = DueAfter(n, activation)
<1> DEFINE p == Period[n]
           d == Due(r, n)
           e == DueAfter(n, activation)
<1>1. n \in PeriodicNodes /\ p \in Nat \ {0} /\ activation \in Nat /\ label[r] \in Nat
  BY NodeNumbers DEF Periodic, Numbers
<1>2. d \in Nat /\ d % p = 0 /\ (Ticked(r) => d <= label[r] + p) /\ (~ Ticked(r) => d = 0)
  BY DueFacts
<1>3. d >= activation /\ (Ticked(r) => label[r] < activation)
  BY DEF InStep
<1>4. e \in Nat /\ e % p = 0 /\ e > activation /\ e <= activation + p
  BY <1>1, DueAfterFacts
<1> HIDE DEF p, d, e
<1>5. Ticked(r) => d < activation + p  BY <1>1, <1>2, <1>3
<1>6. ~ Ticked(r) => d = 0 /\ activation = 0  BY <1>1, <1>2, <1>3
<1>7. d < activation + p  BY <1>1, <1>5, <1>6
<1>8. ASSUME activation % p = 0  PROVE d = activation /\ e = activation + p
  <2>1. ~ (activation < d)
    <3>1. activation < d => activation + p <= d  BY <1>1, <1>2, <1>8, MultipleGap
    <3> QED  BY <3>1, <1>1, <1>2, <1>7
  <2>2. activation + p <= e  BY <1>1, <1>4, <1>8, MultipleGap
  <2> QED  BY <2>1, <2>2, <1>1, <1>2, <1>3, <1>4
<1>9. ASSUME activation % p # 0  PROVE d > activation /\ d = e
  <2>1. d # activation  BY <1>2, <1>9
  <2>2. d > activation  BY <2>1, <1>1, <1>2, <1>3
  <2>3. d <= activation + p  BY <1>1, <1>2, <1>7
  <2> QED  BY <2>2, <2>3, <1>1, <1>2, <1>4, OneInstant
<1> QED  BY <1>8, <1>9 DEF p, d, e

-----------------------------------------------------------------------------
(* The steps.                                                              *)

(* Where the tick of a runtime leaves its nodes, and those of the others.  *)
LEMMA TickFacts ==
  ASSUME IInv, StartTick
  PROVE  /\ task \in Runtimes /\ OnTheGrid /\ InStep(task) /\ ~ Served(task)
         /\ label' = [label EXCEPT ![task] = activation]
         /\ active' = [active EXCEPT ![task] = Active(task)]
         /\ DOMAIN Active(task) # {}
         /\ \A n \in Periodic(task) : Due(task, n)' = DueAfter(n, activation)
         /\ \A r \in Runtimes \ {task} :
              /\ Ticked(r)' = Ticked(r) /\ label'[r] = label[r] /\ active'[r] = active[r]
              /\ \A n \in Periodic(r) : Due(r, n)' = Due(r, n)
<1>1. /\ task \in Runtimes /\ pc = "task" /\ DOMAIN active = Runtimes /\ task' = task
      /\ label \in [Runtimes -> Nat] /\ activation \in Nat
      /\ OnTheGrid /\ InStep(task)
      /\ label' = [label EXCEPT ![task] = activation]
      /\ active' = [active EXCEPT ![task] = Active(task)]
      /\ DOMAIN Active(task) # {}
  BY DEF IInv, Numbers, StartTick
<1>2. ~ Served(task)  BY <1>1, NodeNumbers DEF Served
<1>3. /\ label'[task] = activation /\ active'[task] = Active(task)
      /\ \A r \in Runtimes \ {task} : label'[r] = label[r] /\ active'[r] = active[r]
  BY <1>1
<1>4. \A n \in Periodic(task) : Due(task, n)' = DueAfter(n, activation)
  <2> SUFFICES ASSUME NEW n \in Periodic(task)
               PROVE  Due(task, n)' = DueAfter(n, activation)
    OBVIOUS
  <2>1. Period[n] \in Nat \ {0}  BY NodeNumbers DEF Periodic
  <2>2. DOMAIN active'[task] # {}  BY <1>1, <1>3
  <2> QED  BY <2>1, <2>2, <1>1, <1>3 DEF Due, DueAfter
<1>5. \A r \in Runtimes \ {task} :
        /\ Ticked(r)' = Ticked(r)
        /\ \A n \in Periodic(r) : Due(r, n)' = Due(r, n)
  BY <1>3 DEF Ticked, Due, DueAfter
<1> QED  BY <1>1, <1>2, <1>3, <1>4, <1>5

LEMMA StartTickKeeps ==
  ASSUME IInv, StartTick
  PROVE  IInv'
<1>1. /\ pc = "task" /\ pc' = "tick"
      /\ UNCHANGED <<now, slot, activation, task, stop>>
      /\ Numbers /\ OnTheGrid /\ \A r \in Runtimes : InStep(r)
      /\ \A r \in Runtimes : Ticked(r) => Async(r) \subseteq DOMAIN active[r]
  BY DEF IInv, StartTick
<1>2. label' \in [Runtimes -> Nat] /\ label'[task] = activation
      /\ DOMAIN active' = Runtimes /\ active'[task] = Active(task)
  BY <1>1, TickFacts DEF Numbers
<1>3. Numbers'  BY <1>1, <1>2 DEF Numbers, Places
<1>4. Ticked(task)'  BY <1>1, <1>2, TickFacts DEF Ticked
<1>5. \A r \in Runtimes : Ticked(r)' => Async(r) \subseteq DOMAIN active'[r]
  <2>1. Async(task) \subseteq DOMAIN Active(task)
    BY <1>1, ActiveFacts DEF Numbers
  <2> QED  BY <1>1, <1>2, <2>1, TickFacts
<1>6. OnTheGrid'  BY <1>1 DEF OnTheGrid
<1>7. ASSUME NEW r \in Runtimes  PROVE InStep(r)'
  <2>1. r \in Nat /\ task \in Nat  BY NodeNumbers, TickFacts
  <2>2. CASE r = task
    <3>1. Served(r)'  BY <1>1, <2>1, <2>2 DEF Served
    <3>2. \A n \in Periodic(r) : Due(r, n)' > activation
      BY <1>1, <2>2, TickFacts, DueAfterFacts DEF Periodic, Numbers
    <3>3. label'[r] <= activation  BY <1>1, <1>2, <2>2 DEF Numbers
    <3> QED  BY <1>1, <1>2, <2>2, <3>1, <3>2, <3>3 DEF InStep
  <2>3. CASE r # task
    <3>1. Served(r)' = Served(r)  BY <1>1, <2>1, <2>3 DEF Served
    <3> QED  BY <1>1, <2>3, <3>1, TickFacts DEF InStep
  <2> QED  BY <2>2, <2>3
<1> QED  BY <1>1, <1>3, <1>4, <1>5, <1>6, <1>7 DEF IInv

(* The pass goes on from a runtime that has been served.                   *)
LEMMA NextTaskKeeps ==
  ASSUME IInv, EndTick \/ NothingActive
  PROVE  IInv'
<1>1. /\ pc \in {"task", "tick"} /\ NextTask
      /\ UNCHANGED <<now, slot, activation, label, active, stop>>
      /\ Numbers /\ OnTheGrid /\ \A r \in Runtimes : InStep(r)
      /\ \A r \in Runtimes : Ticked(r) => Async(r) \subseteq DOMAIN active[r]
  BY DEF IInv, EndTick, NothingActive
<1>2. Numbers'
  BY <1>1 DEF Numbers, NextTask, Places
<1>3. \A r \in Runtimes : Ticked(r)' = Ticked(r) /\ \A n : Due(r, n)' = Due(r, n)
  BY <1>1 DEF Ticked, Due, DueAfter
<1>4. OnTheGrid'  BY <1>1 DEF OnTheGrid
<1>5. ASSUME NEW r \in Runtimes  PROVE InStep(r)'
  <2>1. r \in Nat /\ task \in Nat /\ activation \in Nat /\ label[r] \in Nat
    BY <1>1, NodeNumbers DEF Numbers
  <2>2. Served(r)' <=> r <= task  BY <1>1, <2>1 DEF Served, NextTask
  <2>3. CASE ~ (r = task /\ pc = "task")
    <3>1. Served(r)' <=> Served(r)  BY <1>1, <2>1, <2>2, <2>3 DEF Served
    <3> QED  BY <1>1, <1>3, <3>1 DEF InStep
  <2>4. CASE r = task /\ pc = "task"
    <3>1. ~ Served(r)  BY <2>1, <2>4 DEF Served
    <3>2. DOMAIN Active(r) = {}  BY <2>4 DEF EndTick, NothingActive
    <3>3. Async(r) = {} /\ \A n \in Periodic(r) : activation % Period[n] # 0
      BY <1>1, <3>2, ActiveFacts
    <3>4. \A n \in Periodic(r) : Due(r, n) > activation
      BY <1>1, <3>1, <3>3, TurnFacts
    <3>5. Ticked(r) => label[r] <= activation  BY <1>1, <2>1, <3>1 DEF InStep
    <3> QED  BY <1>1, <1>3, <2>1, <2>2, <2>4, <3>3, <3>4, <3>5 DEF InStep
  <2> QED  BY <2>3, <2>4
<1>6. /\ pc' # "tick"
      /\ pc' = "slotEnd" /\ ~stop' => task' + 1 \notin Runtimes
  BY <1>1 DEF NextTask
<1> QED  BY <1>1, <1>2, <1>3, <1>4, <1>5, <1>6 DEF IInv

(* The next slot is the one of the next instant, also when the table wraps. *)
LEMMA NextSlot ==
  ASSUME Numbers, OnTheGrid, EndSlot
  PROVE  /\ OnTheGrid' /\ slot' \in Nat /\ activation' \in Nat
         /\ activation' = activation + Base
<1>1. /\ slot' = (slot + 1) % SlotCount /\ activation' = activation + Base
      /\ slot \in Nat /\ activation \in Nat
  BY DEF Numbers, EndSlot
<1>2. /\ SlotCounts # {} /\ slot < SlotCount /\ activation % Base = 0
      /\ \A n \in PeriodicNodes : (slot * Base) % Period[n] = activation % Period[n]
  BY DEF OnTheGrid
<1>3. PICK b \in Nat \ {0}, c \in Nat \ {0} :
        /\ b = Base /\ c = SlotCount
        /\ \A n \in PeriodicNodes : (c * b) % Period[n] = 0
  BY <1>2, BaseFacts, SlotFacts
<1>4. (activation + b) % b = 0 /\ activation + b \in Nat
  <2>1. activation % b = 0  BY <1>2, <1>3
  <2> QED  BY <1>1, <2>1, MultipleNext
<1>5. slot' \in Nat /\ slot' < c
      /\ (slot' = slot + 1 \/ (slot' = 0 /\ slot + 1 = c))
  <2>1. CASE slot + 1 < c
    <3>1. (slot + 1) % c = slot + 1
      <4>1. slot + 1 = c * 0 + (slot + 1) /\ slot + 1 \in 0 .. c - 1 /\ slot + 1 \in Int
        BY <1>1, <1>3, <2>1
      <4> QED  BY <4>1, ModUnique
    <3> QED  BY <3>1, <1>1, <1>3, <2>1
  <2>2. CASE slot + 1 = c
    <3>1. c % c = 0
      <4>1. (c * 1) % c = 0  BY MultipleIsZero
      <4> QED  BY <4>1
    <3> QED  BY <3>1, <1>1, <1>3, <2>2
  <2> QED  BY <2>1, <2>2, <1>1, <1>2, <1>3
<1>6. ASSUME NEW n \in PeriodicNodes
      PROVE  (slot' * b) % Period[n] = (activation + b) % Period[n]
  <2>1. PICK p \in Nat \ {0} : p = Period[n]  BY NodeNumbers
  <2>2. PICK x \in Nat, y \in Nat : x = slot * b /\ y = (slot + 1) * b /\ y = b + x
    BY <1>1, <1>3
  <2>3. x % p = activation % p  BY <1>2, <1>3, <2>1, <2>2
  <2>4. (b + (x % p)) % p = y % p
    <3>1. x \in Int /\ b \in Int  OBVIOUS
    <3>2. (b + (x % p)) % p = (b + x) % p  BY <3>1, ModPlus, Zenon
    <3> QED  BY <3>2, <2>2
  <2>5. (b + (activation % p)) % p = (b + activation) % p
    <3>1. activation \in Int /\ b \in Int  BY <1>1
    <3> QED  BY <3>1, ModPlus, Zenon
  <2>6. b + activation = activation + b  BY <1>1
  <2>7. y % p = (activation + b) % p  BY <2>3, <2>4, <2>5, <2>6
  <2>8. CASE slot' = slot + 1  BY <2>1, <2>2, <2>7, <2>8
  <2>9. CASE slot' = 0 /\ slot + 1 = c
    <3>1. y % p = 0  BY <1>3, <2>1, <2>2, <2>9
    <3>2. slot' * b = p * 0  BY <2>9
    <3>3. (p * 0) % p = 0  BY MultipleIsZero
    <3> QED  BY <2>1, <2>7, <3>1, <3>2, <3>3
  <2> QED  BY <1>5, <2>8, <2>9
<1> QED  BY <1>1, <1>2, <1>3, <1>4, <1>5, <1>6 DEF OnTheGrid

LEMMA EndSlotKeeps ==
  ASSUME IInv, EndSlot
  PROVE  IInv'
<1>1. /\ pc = "slotEnd" /\ pc' = IF stop THEN "done" ELSE "asleep"
      /\ UNCHANGED <<now, task, label, active, stop>>
      /\ Numbers /\ OnTheGrid /\ \A r \in Runtimes : InStep(r)
      /\ \A r \in Runtimes : Ticked(r) => Async(r) \subseteq DOMAIN active[r]
      /\ ~stop => task + 1 \notin Runtimes
  BY DEF IInv, EndSlot
<1>2. OnTheGrid' /\ slot' \in Nat /\ activation' \in Nat /\ activation' = activation + Base
  BY <1>1, NextSlot
<1>3. Numbers'  BY <1>1, <1>2 DEF Numbers, Places
<1>4. \A r \in Runtimes : Ticked(r)' = Ticked(r) /\ \A n : Due(r, n)' = Due(r, n)
  BY <1>1 DEF Ticked, Due, DueAfter
<1>5. ASSUME ~stop, NEW r \in Runtimes  PROVE InStep(r)'
  <2>1. Served(r)
    <3>1. r <= task
      <4>1. RuntimeCount \in Nat /\ r \in 0 .. RuntimeCount - 1 /\ task \in 0 .. RuntimeCount - 1
            /\ task + 1 \notin 0 .. RuntimeCount - 1
        BY <1>1, <1>5, RuntimesAssumption DEF Numbers
      <4> QED  BY <4>1
    <3> QED  BY <1>1, <3>1 DEF Served
  <2>2. ~ Served(r)'  BY <1>1, <1>5 DEF Served
  <2>3. activation \in Nat /\ label[r] \in Nat /\ Base \in Nat \ {0} /\ activation % Base = 0
    BY <1>1, BaseFacts DEF Numbers, OnTheGrid
  <2>4. ASSUME NEW n \in Periodic(r)  PROVE Due(r, n) >= activation'
    <3>1. Due(r, n) \in Nat /\ Due(r, n) % Period[n] = 0  BY <1>1, DueFacts
    <3>2. Period[n] \in Nat \ {0} /\ Period[n] % Base = 0
      BY NodeNumbers, BaseFacts DEF Periodic
    <3>3. Due(r, n) % Base = 0  BY <2>3, <3>1, <3>2, Divides
    <3>4. Due(r, n) > activation  BY <1>1, <2>1 DEF InStep
    <3>5. activation + Base <= Due(r, n)  BY <2>3, <3>1, <3>3, <3>4, MultipleGap
    <3> QED  BY <1>2, <2>3, <3>1, <3>5
  <2>5. Ticked(r) => label[r] < activation'
    <3>1. Ticked(r) => label[r] <= activation  BY <1>1, <2>1 DEF InStep
    <3> QED  BY <1>2, <2>3, <3>1
  <2> QED  BY <1>1, <1>4, <2>2, <2>4, <2>5 DEF InStep
<1> QED  BY <1>1, <1>2, <1>3, <1>4, <1>5 DEF IInv

LEMMA WakeKeeps ==
  ASSUME IInv, Wake
  PROVE  IInv'
<1>1. /\ pc = "asleep" /\ pc' = (IF stop THEN "done" ELSE "task") /\ task' = 0
      /\ UNCHANGED <<now, slot, activation, label, active, stop>>
      /\ Numbers /\ OnTheGrid /\ \A r \in Runtimes : InStep(r)
      /\ \A r \in Runtimes : Ticked(r) => Async(r) \subseteq DOMAIN active[r]
  BY DEF IInv, Wake
<1>2. Numbers'  BY <1>1, NodeNumbers DEF Numbers, Places
<1>3. \A r \in Runtimes : Ticked(r)' = Ticked(r) /\ \A n : Due(r, n)' = Due(r, n)
  BY <1>1 DEF Ticked, Due, DueAfter
<1>4. \A r \in Runtimes : ~ Served(r) /\ ~ Served(r)'  BY <1>1, NodeNumbers DEF Served
<1>5. \A r \in Runtimes : InStep(r)'  BY <1>1, <1>3, <1>4 DEF InStep
<1>6. OnTheGrid'  BY <1>1 DEF OnTheGrid
<1> QED  BY <1>1, <1>2, <1>3, <1>5, <1>6 DEF IInv

(* The clock moves, a stop is asked for, or nothing happens.               *)
LEMMA IdleKeeps ==
  ASSUME IInv, Tick \/ RequestStop \/ Finished \/ UNCHANGED vars
  PROVE  IInv'
<1>1. /\ UNCHANGED <<slot, activation, task, pc, label, active>>
      /\ now' \in Nat /\ stop' \in BOOLEAN /\ (stop' = stop \/ stop')
  <2>1. now \in Nat /\ stop \in BOOLEAN  BY DEF IInv, Numbers
  <2>2. CASE Tick         BY <2>1, <2>2 DEF Tick
  <2>3. CASE RequestStop  BY <2>1, <2>3 DEF RequestStop
  <2>4. CASE UNCHANGED vars  BY <2>1, <2>4 DEF vars
  <2> QED  BY <2>2, <2>3, <2>4 DEF Finished
<1>2. Numbers'  BY <1>1 DEF IInv, Numbers
<1>3. \A r \in Runtimes : Ticked(r)' = Ticked(r) /\ InStep(r)' = InStep(r)
  BY <1>1 DEF Ticked, InStep, Served, Due, DueAfter
<1>4. OnTheGrid' = OnTheGrid  BY <1>1 DEF OnTheGrid
<1>5. Ticked(task)' = Ticked(task)  BY <1>1 DEF Ticked
<1> QED  BY <1>1, <1>2, <1>3, <1>4, <1>5 DEF IInv

LEMMA InvInit == Init => IInv
<1> SUFFICES ASSUME Init  PROVE IInv
  OBVIOUS
<1>1. Numbers  BY NodeNumbers DEF Init, Numbers, Places
<1>2. \A r \in Runtimes : ~ Ticked(r)  BY DEF Init, Ticked
<1>3. ASSUME pc # "done"  PROVE OnTheGrid
  <2>1. SlotCounts # {}  BY <1>3 DEF Init
  <2>2. slot = 0 /\ activation = 0 /\ Base \in Nat \ {0} /\ SlotCount \in Nat \ {0}
    BY <2>1, BaseFacts, SlotFacts DEF Init
  <2>3. 0 % Base = 0
    <3>1. (Base * 0) % Base = 0  BY <2>2, MultipleIsZero
    <3> QED  BY <3>1, <2>2
  <2>4. slot * Base = 0  BY <2>2
  <2> QED  BY <2>1, <2>2, <2>3, <2>4 DEF OnTheGrid
<1>4. \A r \in Runtimes : InStep(r)
  <2> SUFFICES ASSUME NEW r \in Runtimes  PROVE InStep(r)
    OBVIOUS
  <2>1. ~ Served(r)  BY NodeNumbers DEF Served, Init
  <2>2. activation = 0 /\ \A n \in Periodic(r) : Due(r, n) = 0  BY <1>1, <1>2, DueFacts DEF Init
  <2> QED  BY <1>2, <2>1, <2>2 DEF InStep
<1>5. pc # "tick" /\ pc # "slotEnd"  BY DEF Init
<1> QED  BY <1>1, <1>2, <1>3, <1>4, <1>5 DEF IInv

LEMMA InvNext == IInv /\ [Next]_vars => IInv'
BY StartTickKeeps, NextTaskKeeps, EndSlotKeeps, WakeKeeps, IdleKeeps DEF Next, Executive

(* The table and the pass over it are in step with the instants, whenever  *)
(* the executive looks at them.                                            *)
THEOREM InductiveInvariant == Spec => []IInv
BY InvInit, InvNext, PTL DEF Spec

-----------------------------------------------------------------------------
(* At the end of a slot every asynchronous node has run at its instant     *)
(* (fsm.h:82), in the runtimes that have nothing else to run too.          *)
THEOREM AsyncNodesRunEveryBaseTick == Spec => []AsyncEveryBaseTick
<1>1. IInv => AsyncEveryBaseTick
  <2> SUFFICES ASSUME IInv, pc = "slotEnd", ~stop,
                      NEW r \in Runtimes, NEW n \in NodesOf[r] \cap AsyncNodes
               PROVE  label[r] = activation /\ n \in DOMAIN active[r]
    BY DEF AsyncEveryBaseTick
  <2>1. r <= task
    <3>1. RuntimeCount \in Nat /\ r \in 0 .. RuntimeCount - 1 /\ task \in 0 .. RuntimeCount - 1
          /\ task + 1 \notin 0 .. RuntimeCount - 1
      BY RuntimesAssumption DEF IInv, Numbers
    <3> QED  BY <3>1
  <2>2. InStep(r) /\ Served(r)  BY <2>1 DEF IInv, Served
  <2>3. n \in Async(r)  BY DEF Async
  <2>4. label[r] = activation  BY <2>2, <2>3 DEF InStep
  <2>5. Ticked(r)
    <3>1. PICK m \in Periodic(r) : TRUE  BY NodeNumbers
    <3>2. Due(r, m) > activation /\ activation \in Nat  BY <2>2 DEF InStep, IInv, Numbers
    <3> QED  BY <3>2, DueFacts DEF IInv
  <2> QED  BY <2>3, <2>4, <2>5 DEF IInv
<1> QED  BY <1>1, InductiveInvariant, PTL

-----------------------------------------------------------------------------
(* The refinement.                                                         *)

LEMMA AbstractNames ==
  /\ Abstract!Nodes = Nodes
  /\ \A r \in Runtimes : Abstract!Periodic(r) = Periodic(r) /\ Abstract!Async(r) = Async(r)
<1>1. Abstract!Nodes = Nodes  BY DEF Abstract!Nodes, Nodes
<1>2. \A r \in Runtimes : NodesOf[r] \subseteq Nodes  BY DEF Nodes
<1> QED  BY <1>1, <1>2
         DEF Abstract!Periodic, Abstract!Async, Periodic, Async, PeriodicNodes, AsyncNodes

(* A tick in which some periodic node is due, and one of asynchronous      *)
(* nodes alone.                                                            *)
LEMMA StartTickImplements ==
  ASSUME IInv, StartTick
  PROVE  \E r \in Runtimes : Abstract!Tick(r) \/ Abstract!AsyncTick(r)
<1> DEFINE due   == [n \in Nodes |-> Due(RuntimeOf(n), n)]
           group == [r \in Runtimes |-> DOMAIN active[r]]
           now0  == {n \in Periodic(task) : activation % Period[n] = 0}
<1>1. /\ task \in Runtimes /\ OnTheGrid /\ InStep(task) /\ ~ Served(task) /\ Numbers
      /\ label \in [Runtimes -> Nat] /\ activation \in Nat
      /\ label' = [label EXCEPT ![task] = activation]
  BY TickFacts DEF IInv, Numbers
<1>2. \A r \in Runtimes : \A n \in NodesOf[r] : n \in Nodes /\ RuntimeOf(n) = r
  BY OneRuntime DEF Nodes
<1>3. \A n \in Nodes : RuntimeOf(n) \in Runtimes /\ n \in NodesOf[RuntimeOf(n)]
  BY <1>2 DEF Nodes
<1>4. \A r \in Runtimes : \A n \in NodesOf[r] : due[n] = Due(r, n) /\ due'[n] = Due(r, n)'
  BY <1>2
<1> HIDE DEF due
<1>5. ASSUME NEW n \in Periodic(task)
      PROVE  /\ n \in NodesOf[task] /\ Period[n] \in Nat \ {0} /\ due[n] \in Nat
             /\ n \in now0 => due[n] = activation /\ due'[n] = due[n] + Period[n]
             /\ n \notin now0 => due[n] > activation /\ due'[n] = due[n]
  <2>1. n \in NodesOf[task] /\ Period[n] \in Nat \ {0}  BY <1>1, NodeNumbers DEF Periodic
  <2>2. due[n] = Due(task, n) /\ due'[n] = DueAfter(n, activation)
    <3>1. due[n] = Due(task, n) /\ due'[n] = Due(task, n)'
      <4>1. task' = task  BY DEF StartTick
      <4> QED  BY <1>1, <1>4, <2>1, <4>1
    <3> QED  BY <3>1, TickFacts
  <2>3. due[n] \in Nat  BY <1>1, <2>2, DueFacts
  <2>4. CASE activation % Period[n] = 0  BY <1>1, <2>1, <2>2, <2>3, <2>4, TurnFacts
  <2>5. CASE activation % Period[n] # 0  BY <1>1, <2>1, <2>2, <2>3, <2>5, TurnFacts
  <2> QED  BY <2>4, <2>5
<1>6. now0 \subseteq Periodic(task)  OBVIOUS
<1> HIDE DEF now0
<1>7. ASSUME NEW n \in Nodes, n \notin Periodic(task)  PROVE due'[n] = due[n]
  <2>1. CASE n \in AsyncNodes
    <3>1. Period[n] = 0  BY <2>1, NodeNumbers
    <3>2. \A r : Due(r, n) = 0 /\ Due(r, n)' = 0  BY <3>1 DEF Due
    <3> QED  BY <3>2, <1>3, <1>4
  <2>2. CASE n \notin AsyncNodes
    <3>1. PICK r \in Runtimes : n \in NodesOf[r] /\ RuntimeOf(n) = r  BY <1>3
    <3>2. n \in Periodic(r)  BY <2>2, <3>1, NodeNumbers DEF Async
    <3>3. r # task  BY <1>7, <3>2
    <3> QED  BY <1>4, <3>1, <3>2, <3>3, TickFacts
  <2> QED  BY <2>1, <2>2
<1>8. group' = [group EXCEPT ![task] = now0 \cup Async(task)]
  <2>1. DOMAIN active' = Runtimes /\ active'[task] = Active(task)  BY <1>1, TickFacts DEF Numbers
  <2>2. group'[task] = now0 \cup Async(task)  BY <1>1, <2>1, ActiveFacts DEF now0
  <2>3. \A r \in Runtimes \ {task} : group'[r] = group[r]  BY TickFacts
  <2> QED  BY <1>1, <2>2, <2>3
<1>9. CASE now0 # {}
  <2>1. PICK k \in now0 : due[k] = activation  BY <1>5, <1>6, <1>9
  <2>2. now0 = {n \in Periodic(task) : due[n] = activation}  BY <1>1, <1>5, <1>6
  <2>3. \A n \in Periodic(task) : due[n] >= activation  BY <1>1, <1>5
  <2>4. due' = [n \in Nodes |-> IF n \in now0 THEN due[n] + Period[n] ELSE due[n]]
    <3>1. \A n \in Nodes : due'[n] = IF n \in now0 THEN due[n] + Period[n] ELSE due[n]
      BY <1>5, <1>6, <1>7
    <3> QED  BY <3>1 DEF due
  <2>5. PICK r \in Runtimes : r = task  BY <1>1
  <2>6. PICK a \in {due[n] : n \in Abstract!Periodic(r)} : a = activation
    BY <1>1, <1>6, <2>1, <2>5, AbstractNames
  <2>7. Abstract!NextInstant(r, a)
    BY <1>1, <1>6, <2>1, <2>3, <2>5, <2>6, AbstractNames DEF Abstract!NextInstant, due
  <2> DEFINE here == {n \in Abstract!Periodic(r) : due[n] = a}
  <2>8. now0 = here
    BY <2>2, <2>5, <2>6, AbstractNames
  <2>9. due' = [n \in Abstract!Nodes |-> IF n \in here THEN due[n] + Period[n] ELSE due[n]]
    <3> HIDE DEF here
    <3> QED  BY <2>4, <2>8, AbstractNames
  <2>10. /\ group' = [group EXCEPT ![r] = here \cup Abstract!Async(r)]
         /\ label' = [label EXCEPT ![r] = a]
    <3> HIDE DEF here
    <3> QED  BY <1>1, <1>8, <2>5, <2>6, <2>8, AbstractNames
  <2>11. Abstract!Tick(r)
    BY <2>6, <2>7, <2>9, <2>10, Zenon DEF Abstract!Tick, due
  <2> QED  BY <2>11
<1>10. CASE now0 = {}
  <2>1. due' = due
    <3>1. \A n \in Nodes : due'[n] = due[n]  BY <1>5, <1>7, <1>10
    <3> QED  BY <3>1 DEF due
  <2>2. \A n \in Periodic(task) : due[n] > activation  BY <1>5, <1>10
  <2>3. PICK k \in Periodic(task) : due[k] > activation  BY <1>1, <2>2, NodeNumbers
  <2>4. label[task] < activation
    <3>1. Ticked(task)
      <4>1. due[k] = Due(task, k)  BY <1>1, <1>4, <1>5
      <4> QED  BY <1>1, <2>3, <4>1, DueFacts
    <3> QED  BY <1>1, <3>1 DEF InStep
  <2>5. activation \in label[task] + 1 .. due[k] - 1  BY <1>1, <1>5, <2>3, <2>4
  <2>6. k \in Abstract!Periodic(task) /\ \A m \in Abstract!Periodic(task) : activation < due[m]
    BY <1>1, <1>5, <2>2, AbstractNames
  <2>7. group' = [group EXCEPT ![task] = Abstract!Async(task)]
    BY <1>1, <1>8, <1>10, AbstractNames, ZenonT(40)
  <2>8. PICK r \in Runtimes : r = task  BY <1>1
  <2>9. Abstract!AsyncTick(r)
    BY <1>1, <2>1, <2>5, <2>6, <2>7, <2>8 DEF Abstract!AsyncTick, due
  <2> QED  BY <2>9
<1> QED  BY <1>9, <1>10

(* The table and the loop tick each runtime for each of its instants, in   *)
(* order, with the nodes due at that instant and no others.                *)
THEOREM TableIsTimeTriggered == Spec => ImplementsTimeTriggered
<1> DEFINE due   == [n \in Nodes |-> Due(RuntimeOf(n), n)]
           group == [r \in Runtimes |-> DOMAIN active[r]]
<1>1. Init => Abstract!Init
  <2> SUFFICES ASSUME Init  PROVE Abstract!Init
    OBVIOUS
  <2>1. label = [r \in Runtimes |-> 0] /\ \A r \in Runtimes : DOMAIN active[r] = {}
    BY DEF Init
  <2>2. group = [r \in Runtimes |-> {}]  BY <2>1
  <2>3. \A n \in Nodes : RuntimeOf(n) \in Runtimes  BY OneRuntime DEF Nodes
  <2>4. due = [n \in Nodes |-> 0]  BY <2>1, <2>3 DEF Due
  <2> QED  BY <2>1, <2>2, <2>4, AbstractNames DEF Abstract!Init
<1>2. IInv /\ [Next]_vars => [Abstract!Next]_<<due, label, group>>
  <2> SUFFICES ASSUME IInv, [Next]_vars  PROVE [Abstract!Next]_<<due, label, group>>
    OBVIOUS
  <2>1. CASE StartTick
    <3>1. Abstract!Next  BY <2>1, StartTickImplements DEF Abstract!Next
    <3> QED  BY <3>1
  <2>2. CASE ~ StartTick
    <3>1. UNCHANGED <<active, label>>
      BY <2>2 DEF Next, Executive, EndTick, NothingActive, EndSlot, Wake, RequestStop, Tick,
                  Finished, vars
    <3>2. \A r, n : Due(r, n)' = Due(r, n)  BY <3>1 DEF Due, DueAfter
    <3>3. UNCHANGED <<due, label, group>>  BY <3>1, <3>2
    <3> QED  BY <3>3
  <2> QED  BY <2>1, <2>2
<1> QED  BY <1>1, <1>2, InductiveInvariant, PTL DEF Spec, Abstract!Spec, ImplementsTimeTriggered
=============================================================================
