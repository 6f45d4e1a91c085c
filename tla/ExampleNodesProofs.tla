------------------------- MODULE ExampleNodesProofs -------------------------
(***************************************************************************)
(* Theorems of ExampleNodes.  First what the callbacks of the four         *)
(* versions do to their node: what an evaluation chooses in each mode of   *)
(* each kind of node (`After`, `Ends`, `Blinks`), and what its actions     *)
(* then leave (`Effect`); then the invariant, which is about one version   *)
(* at a time, but for the modes, which all versions share unless a timer   *)
(* ends them; then one lemma per action; then the properties.              *)
(***************************************************************************)
EXTENDS ExampleNodes, Lemmas, SequenceTheorems

(* The actions that were queued, one after the other: none, one or two.    *)
LEMMA DoneInTurn ==
  ASSUME NEW v, NEW d, NEW t
  PROVE  /\ d.todo = <<>> => DoAll(v, d, t) = [d EXCEPT !.todo = <<>>]
         /\ \A a : d.todo = <<a>> => DoAll(v, d, t) = [Do(v, d, a, t) EXCEPT !.todo = <<>>]
         /\ \A a, b : d.todo = <<a, b>> =>
              DoAll(v, d, t) = [Do(v, Do(v, d, a, t), b, t) EXCEPT !.todo = <<>>]
<1> DEFINE todo    == d.todo
           Then(x, a) == Do(v, x, a, t)
           Counts(g) == g = [i \in 0 .. Len(todo) |-> IF i = 0 THEN d ELSE Then(g[i - 1], todo[i])]
           done    == CHOOSE g : Counts(g)
           explicit == [i \in 0 .. Len(todo) |->
                          IF i = 0 THEN d
                          ELSE IF i = 1 THEN Then(d, todo[1])
                          ELSE Then(Then(d, todo[1]), todo[2])]
           result(x) == [x EXCEPT !.todo = <<>>]
<1>1. DoAll(v, d, t) = result(done[Len(todo)])  BY DEF DoAll
<1> HIDE DEF Then, todo, result
<1>2. ASSUME Len(todo) \in 0 .. 2
      PROVE  done[Len(todo)] = explicit[Len(todo)]
  <2>1. ASSUME NEW i \in 0 .. Len(todo)
        PROVE  explicit[i] = IF i = 0 THEN d ELSE Then(explicit[i - 1], todo[i])
    <3>1. i = 0 \/ i = 1 \/ i = 2
      <4>1. \A n \in 0 .. 2 : \A j \in 0 .. n : j = 0 \/ j = 1 \/ j = 2  OBVIOUS
      <4> QED  BY <1>2, <4>1
    <3>2. CASE i = 0  BY <3>2
    <3>3. CASE i = 1  BY <1>2, <3>3
    <3>4. CASE i = 2
      <4>1. i - 1 = 1 /\ 1 \in 0 .. Len(todo) /\ 2 \in 0 .. Len(todo)  BY <1>2, <3>4
      <4>2. explicit[1] = Then(d, todo[1])  BY <4>1
      <4>3. explicit[2] = Then(Then(d, todo[1]), todo[2])  BY <4>1
      <4> HIDE DEF explicit
      <4> QED  BY <3>4, <4>1, <4>2, <4>3
    <3> QED  BY <3>1, <3>2, <3>3, <3>4
  <2>2. explicit = [i \in 0 .. Len(todo) |-> explicit[i]]  OBVIOUS
  <2>3. Counts(explicit)
    <3> HIDE DEF explicit
    <3> QED  BY <2>1, <2>2
  <2>4. Counts(done)
    <3> HIDE DEF Counts, explicit
    <3> QED  BY <2>3 DEF done
  <2> HIDE DEF done
  <2>5. done[0] = d /\ \A i \in 1 .. Len(todo) : done[i] = Then(done[i - 1], todo[i])
    <3>1. \A i \in 0 .. Len(todo) : done[i] = IF i = 0 THEN d ELSE Then(done[i - 1], todo[i])
      BY <2>4
    <3>2. 0 \in 0 .. Len(todo) /\ \A i \in 1 .. Len(todo) : i \in 0 .. Len(todo) /\ i # 0
      BY <1>2
    <3> QED  BY <3>1, <3>2
  <2>6. CASE Len(todo) = 0  BY <2>5, <2>6
  <2>7. CASE Len(todo) = 1
    <3>1. done[1] = Then(d, todo[1])  BY <2>5, <2>7
    <3> QED  BY <2>7, <3>1
  <2>8. CASE Len(todo) = 2
    <3>1. done[1] = Then(d, todo[1]) /\ done[2] = Then(done[1], todo[2])  BY <2>5, <2>8
    <3> QED  BY <2>8, <3>1
  <2> QED  BY <1>2, <2>6, <2>7, <2>8
<1> HIDE DEF done
<1>3. ASSUME todo = <<>>  PROVE DoAll(v, d, t) = result(d)
  <2>1. Len(todo) = 0  BY <1>3
  <2>2. explicit[0] = d  BY <2>1
  <2> QED  BY <1>1, <1>2, <2>1, <2>2
<1>4. ASSUME NEW a, todo = <<a>>  PROVE DoAll(v, d, t) = result(Then(d, a))
  <2>1. Len(todo) = 1 /\ todo[1] = a  BY <1>4
  <2>2. explicit[1] = Then(d, a)  BY <2>1
  <2> QED  BY <1>1, <1>2, <2>1, <2>2
<1>5. ASSUME NEW a, NEW b, todo = <<a, b>>
      PROVE  DoAll(v, d, t) = result(Then(Then(d, a), b))
  <2>1. Len(todo) = 2 /\ todo[1] = a /\ todo[2] = b  BY <1>5
  <2>2. explicit[2] = Then(Then(d, a), b)  BY <2>1
  <2> QED  BY <1>1, <1>2, <2>1, <2>2
<1> QED  BY <1>3, <1>4, <1>5 DEF Then, todo, result

-----------------------------------------------------------------------------
(* What an evaluation leaves.                                              *)
Chosen(d, next, todo) == [d EXCEPT !.next = next, !.todo = todo]

Outcome(k, v, d) == Step!Evaluate(<<k, v>>, d, [n \in {<<k, v>>} |-> d.at])

Does(k, v, t) == Table[<<k, v>>][t].does

LEMMA Queued ==
  ASSUME NEW k, NEW v, NEW d, NEW e, e = Outcome(k, v, d)
  PROVE  /\ e.fired = <<>> => Evaluated(k, v, d) = Chosen(d, e.next, <<>>)
         /\ \A t : e.fired = <<t>> => Evaluated(k, v, d) = Chosen(d, e.next, <<Does(k, v, t)>>)
         /\ \A t, u : e.fired = <<t, u>> =>
              Evaluated(k, v, d) = Chosen(d, e.next, <<Does(k, v, t), Does(k, v, u)>>)
<1> DEFINE fired == e.fired
           todo  == [i \in DOMAIN fired |-> Does(k, v, fired[i])]
<1>1. Evaluated(k, v, d) = Chosen(d, e.next, todo)  BY DEF Evaluated, Chosen, Outcome, Does
<1> HIDE DEF fired
<1>2. ASSUME fired = <<>>  PROVE todo = <<>>
  <2>1. DOMAIN fired = {}  BY <1>2
  <2> QED  BY <2>1
<1>3. ASSUME NEW t, fired = <<t>>  PROVE todo = <<Does(k, v, t)>>  BY <1>3
<1>4. ASSUME NEW t, NEW u, fired = <<t, u>>  PROVE todo = <<Does(k, v, t), Does(k, v, u)>>  BY <1>4
<1> HIDE DEF todo
<1> QED  BY <1>1, <1>2, <1>3, <1>4 DEF fired

(* The state machines: the first transition that applies, and its action.  *)
Applies(k, v, d, t) == MachineTable[k][t].from = d.at /\ Guard(<<k, v>>, t, d, d)

AppliesFirst(k, v, d, t) ==
  /\ t \in DOMAIN MachineTable[k] /\ Applies(k, v, d, t)
  /\ \A u \in DOMAIN MachineTable[k] : Applies(k, v, d, u) => t <= u

LEMMA MachineFires ==
  ASSUME NEW k \in Kinds, NEW v \in Machines, NEW d, NEW t, AppliesFirst(k, v, d, t),
         DOMAIN MachineTable[k] \in SUBSET Int
  PROVE  Evaluated(k, v, d) = Chosen(d, MachineTable[k][t].to, <<MachineTable[k][t].does>>)
<1> DEFINE view     == [n \in {<<k, v>>} |-> d.at]
           eligible == Step!Eligible(<<k, v>>, d, view)
           first    == CHOOSE x \in eligible : \A y \in eligible : x <= y
           e        == Outcome(k, v, d)
<1>1. <<k, v>> \in Kinds \X Machines /\ <<k, v>>[1] = k /\ <<k, v>>[2] = v
      /\ <<k, v>> \in Kinds \X Versions
  BY DEF Versions
<1>2. Table[<<k, v>>] = MachineTable[k] /\ view[<<k, v>>] = d.at  BY <1>1 DEF Table
<1>3. \A x : Guard(<<k, v>>, x, d, view) <=> Guard(<<k, v>>, x, d, d)  BY DEF Guard
<1>4. eligible = {x \in DOMAIN MachineTable[k] :
                    MachineTable[k][x].from = d.at /\ Guard(<<k, v>>, x, d, d)}
  BY <1>2, <1>3 DEF Step!Eligible
<1>5. t \in eligible /\ \A u \in eligible : t <= u /\ u \in Int
  BY <1>4 DEF AppliesFirst, Applies
<1>6. first = t
  <2> HIDE DEF eligible
  <2>1. first \in eligible /\ \A y \in eligible : first <= y  BY <1>5
  <2>2. first <= t /\ t <= first /\ first \in Int /\ t \in Int  BY <1>5, <2>1
  <2> QED  BY <2>2
<1>7. e = [next |-> MachineTable[k][t].to, fired |-> <<t>>]
  <2>1. e = Step!MachineEvaluate(<<k, v>>, d, view)  BY <1>1 DEF Outcome, Step!Evaluate
  <2>2. eligible # {}  BY <1>5
  <2>3. e = [next |-> Table[<<k, v>>][first].to, fired |-> <<first>>]
    BY <2>1, <2>2 DEF Step!MachineEvaluate, Step!Evaluation
  <2> HIDE DEF first, e
  <2> QED  BY <1>2, <1>6, <2>3
<1> HIDE DEF e
<1>8. Evaluated(k, v, d) = Chosen(d, e.next, <<Does(k, v, t)>>)
  <2>1. e = Outcome(k, v, d)  BY DEF e
  <2> QED  BY <1>7, <2>1, Queued
<1> QED  BY <1>2, <1>7, <1>8 DEF Does

LEMMA MachineStays ==
  ASSUME NEW k \in Kinds, NEW v \in Machines, NEW d,
         \A u \in DOMAIN MachineTable[k] : ~ Applies(k, v, d, u)
  PROVE  Evaluated(k, v, d) = Chosen(d, d.at, <<>>)
<1> DEFINE view     == [n \in {<<k, v>>} |-> d.at]
           eligible == Step!Eligible(<<k, v>>, d, view)
           e        == Outcome(k, v, d)
<1>1. <<k, v>> \in Kinds \X Machines /\ <<k, v>>[1] = k /\ <<k, v>>[2] = v
      /\ <<k, v>> \in Kinds \X Versions
  BY DEF Versions
<1>2. Table[<<k, v>>] = MachineTable[k] /\ view[<<k, v>>] = d.at  BY <1>1 DEF Table
<1>3. \A x : Guard(<<k, v>>, x, d, view) <=> Guard(<<k, v>>, x, d, d)  BY DEF Guard
<1>4. eligible = {}  BY <1>2, <1>3 DEF Step!Eligible, Applies
<1>5. e = [next |-> d.at, fired |-> <<>>]
  <2>1. e = Step!MachineEvaluate(<<k, v>>, d, view)  BY <1>1 DEF Outcome, Step!Evaluate
  <2> QED  BY <1>2, <1>4, <2>1 DEF Step!MachineEvaluate, Step!Evaluation
<1> HIDE DEF e
<1>6. Evaluated(k, v, d) = Chosen(d, e.next, <<>>)
  <2>1. e = Outcome(k, v, d)  BY DEF e
  <2> QED  BY <1>5, <2>1, Queued
<1> QED  BY <1>5, <1>6

(* The three tables, entry by entry.                                       *)
LEMMA LightMoves ==
  /\ DOMAIN MachineTable["light"] = {1, 2}
  /\ MachineTable["light"][1] = Move("off", "on", "pressed", "light_on")
  /\ MachineTable["light"][2] = Move("on", "off", "pressed", "light_off")
<1>1. MachineTable["light"] = LightMachine  BY DEF MachineTable
<1> QED  BY <1>1 DEF LightMachine

LEMMA AutoMoves ==
  /\ DOMAIN MachineTable["auto"] = {1, 2, 3}
  /\ MachineTable["auto"][1] = Move("off", "on", "pressed", "auto_on")
  /\ MachineTable["auto"][2] = Move("on", "on", "pressed", "auto_on")
  /\ MachineTable["auto"][3] = Move("on", "off", "elapsed", "auto_off")
<1>1. MachineTable["auto"] = AutoMachine  BY DEF MachineTable
<1> QED  BY <1>1 DEF AutoMachine

LEMMA BlinkMoves ==
  /\ DOMAIN MachineTable["blink"] = {1, 2, 3, 4, 5}
  /\ MachineTable["blink"][1] = Move("off", "x1", "pressed", "enter_x1")
  /\ MachineTable["blink"][2] = Move("x1", "x2", "pressed", "enter_x2")
  /\ MachineTable["blink"][3] = Move("x1", "x1", "due", "toggle")
  /\ MachineTable["blink"][4] = Move("x2", "off", "pressed", "enter_off")
  /\ MachineTable["blink"][5] = Move("x2", "x2", "due", "toggle")
<1>1. MachineTable["blink"] = BlinkMachine  BY DEF MachineTable
<1> QED  BY <1>1 DEF BlinkMachine

Modes(k) == IF k = "blink" THEN {"off", "x1", "x2"} ELSE {"off", "on"}

LEMMA GuardOf ==
  ASSUME NEW k \in Kinds, NEW v \in Machines, NEW t, NEW d, NEW from, NEW to, NEW guard, NEW does,
         MachineTable[k][t] = Move(from, to, guard, does)
  PROVE  /\ guard = "pressed" => (Guard(<<k, v>>, t, d, d) <=> d.latched)
         /\ guard = "elapsed" => (Guard(<<k, v>>, t, d, d) <=> Elapsed(v, d))
         /\ guard = "due"     => (Guard(<<k, v>>, t, d, d) <=> ToggleDue(v, d))
<1>1. <<k, v>>[1] = k /\ <<k, v>>[2] = v  OBVIOUS
<1>2. MachineTable[k][t].guard = guard  BY DEF Move
<1> QED  BY <1>1, <1>2 DEF Guard

(* What each machine chooses.                                              *)
LEMMA LightChooses ==
  ASSUME NEW v \in Machines, NEW d, d.at \in Modes("light"), d.latched \in BOOLEAN
  PROVE  LET o == Evaluated("light", v, d) IN
         /\ d.latched /\ d.at = "off" => o = Chosen(d, "on", <<"light_on">>)
         /\ d.latched /\ d.at = "on" => o = Chosen(d, "off", <<"light_off">>)
         /\ ~ d.latched => o = Chosen(d, d.at, <<>>)
<1> DEFINE k == "light"
           T == MachineTable[k]
<1>1. k \in Kinds /\ DOMAIN T \in SUBSET Int  BY LightMoves DEF Kinds
<1>2. /\ T[1].from = "off" /\ T[1].to = "on" /\ T[1].does = "light_on"
      /\ T[2].from = "on" /\ T[2].to = "off" /\ T[2].does = "light_off"
  BY LightMoves DEF Move
<1>3. /\ Guard(<<k, v>>, 1, d, d) <=> d.latched
      /\ Guard(<<k, v>>, 2, d, d) <=> d.latched
  BY <1>1, LightMoves, GuardOf
<1>4. d.at \in {"off", "on"} /\ d.latched \in BOOLEAN  BY DEF Modes
<1>5. DOMAIN T = {1, 2}  BY LightMoves
<1> HIDE DEF T
<1>6. CASE d.latched /\ d.at = "off"
  <2>1. AppliesFirst(k, v, d, 1)
    BY <1>1, <1>2, <1>3, <1>5, <1>6 DEF AppliesFirst, Applies, T
  <2>2. Evaluated(k, v, d) = Chosen(d, T[1].to, <<T[1].does>>)  BY <1>1, <2>1, MachineFires DEF T
  <2> QED  BY <1>2, <1>6, <2>2
<1>7. CASE d.latched /\ d.at = "on"
  <2>1. AppliesFirst(k, v, d, 2)
    BY <1>1, <1>2, <1>3, <1>5, <1>7 DEF AppliesFirst, Applies, T
  <2>2. Evaluated(k, v, d) = Chosen(d, T[2].to, <<T[2].does>>)  BY <1>1, <2>1, MachineFires DEF T
  <2> QED  BY <1>2, <1>7, <2>2
<1>8. CASE ~ d.latched
  <2>1. \A u \in DOMAIN MachineTable[k] : ~ Applies(k, v, d, u)
    BY <1>1, <1>2, <1>3, <1>5, <1>8 DEF Applies, T
  <2>2. Evaluated(k, v, d) = Chosen(d, d.at, <<>>)  BY <1>1, <2>1, MachineStays
  <2> QED  BY <1>8, <2>2
<1> QED  BY <1>4, <1>6, <1>7, <1>8

LEMMA AutoChooses ==
  ASSUME NEW v \in Machines, NEW d, d.at \in Modes("auto"), d.latched \in BOOLEAN
  PROVE  LET o == Evaluated("auto", v, d) IN
         /\ d.latched /\ d.at = "off" => o = Chosen(d, "on", <<"auto_on">>)
         /\ d.latched /\ d.at = "on" => o = Chosen(d, "on", <<"auto_on">>)
         /\ ~ d.latched /\ d.at = "on" /\ Elapsed(v, d) => o = Chosen(d, "off", <<"auto_off">>)
         /\ ~ d.latched /\ ~ (d.at = "on" /\ Elapsed(v, d)) => o = Chosen(d, d.at, <<>>)
<1> DEFINE k == "auto"
           T == MachineTable[k]
<1>1. k \in Kinds /\ DOMAIN T \in SUBSET Int  BY AutoMoves DEF Kinds
<1>2. /\ T[1].from = "off" /\ T[1].to = "on" /\ T[1].does = "auto_on"
      /\ T[2].from = "on" /\ T[2].to = "on" /\ T[2].does = "auto_on"
      /\ T[3].from = "on" /\ T[3].to = "off" /\ T[3].does = "auto_off"
  BY AutoMoves DEF Move
<1>3. /\ Guard(<<k, v>>, 1, d, d) <=> d.latched
      /\ Guard(<<k, v>>, 2, d, d) <=> d.latched
      /\ Guard(<<k, v>>, 3, d, d) <=> Elapsed(v, d)
  BY <1>1, AutoMoves, GuardOf
<1>4. d.at \in {"off", "on"} /\ d.latched \in BOOLEAN  BY DEF Modes
<1>5. DOMAIN T = {1, 2, 3}  BY AutoMoves
<1> HIDE DEF T
<1>6. CASE d.latched /\ d.at = "off"
  <2>1. AppliesFirst(k, v, d, 1)
    BY <1>1, <1>2, <1>3, <1>5, <1>6 DEF AppliesFirst, Applies, T
  <2>2. Evaluated(k, v, d) = Chosen(d, T[1].to, <<T[1].does>>)  BY <1>1, <2>1, MachineFires DEF T
  <2> QED  BY <1>2, <1>6, <2>2
<1>7. CASE d.latched /\ d.at = "on"
  <2>1. AppliesFirst(k, v, d, 2)
    BY <1>1, <1>2, <1>3, <1>5, <1>7 DEF AppliesFirst, Applies, T
  <2>2. Evaluated(k, v, d) = Chosen(d, T[2].to, <<T[2].does>>)  BY <1>1, <2>1, MachineFires DEF T
  <2> QED  BY <1>2, <1>7, <2>2
<1>8. CASE ~ d.latched /\ d.at = "on" /\ Elapsed(v, d)
  <2>1. AppliesFirst(k, v, d, 3)
    BY <1>1, <1>2, <1>3, <1>5, <1>8 DEF AppliesFirst, Applies, T
  <2>2. Evaluated(k, v, d) = Chosen(d, T[3].to, <<T[3].does>>)  BY <1>1, <2>1, MachineFires DEF T
  <2> QED  BY <1>2, <1>8, <2>2
<1>9. CASE ~ d.latched /\ ~ (d.at = "on" /\ Elapsed(v, d))
  <2>1. \A u \in DOMAIN MachineTable[k] : ~ Applies(k, v, d, u)
    BY <1>1, <1>2, <1>3, <1>5, <1>9 DEF Applies, T
  <2>2. Evaluated(k, v, d) = Chosen(d, d.at, <<>>)  BY <1>1, <2>1, MachineStays
  <2> QED  BY <1>9, <2>2
<1> QED  BY <1>4, <1>6, <1>7, <1>8, <1>9

LEMMA BlinkChooses ==
  ASSUME NEW v \in Machines, NEW d, d.at \in Modes("blink"), d.latched \in BOOLEAN
  PROVE  LET o == Evaluated("blink", v, d) IN
         /\ d.latched /\ d.at = "off" => o = Chosen(d, "x1", <<"enter_x1">>)
         /\ d.latched /\ d.at = "x1" => o = Chosen(d, "x2", <<"enter_x2">>)
         /\ d.latched /\ d.at = "x2" => o = Chosen(d, "off", <<"enter_off">>)
         /\ ~ d.latched /\ d.at = "x1" /\ ToggleDue(v, d) => o = Chosen(d, "x1", <<"toggle">>)
         /\ ~ d.latched /\ d.at = "x2" /\ ToggleDue(v, d) => o = Chosen(d, "x2", <<"toggle">>)
         /\ ~ d.latched /\ (d.at = "off" \/ ~ ToggleDue(v, d)) => o = Chosen(d, d.at, <<>>)
<1> DEFINE k == "blink"
           T == MachineTable[k]
<1>1. k \in Kinds /\ DOMAIN T \in SUBSET Int  BY BlinkMoves DEF Kinds
<1>2. /\ T[1].from = "off" /\ T[1].to = "x1" /\ T[1].does = "enter_x1"
      /\ T[2].from = "x1" /\ T[2].to = "x2" /\ T[2].does = "enter_x2"
      /\ T[3].from = "x1" /\ T[3].to = "x1" /\ T[3].does = "toggle"
      /\ T[4].from = "x2" /\ T[4].to = "off" /\ T[4].does = "enter_off"
      /\ T[5].from = "x2" /\ T[5].to = "x2" /\ T[5].does = "toggle"
  BY BlinkMoves DEF Move
<1>3. /\ Guard(<<k, v>>, 1, d, d) <=> d.latched
      /\ Guard(<<k, v>>, 2, d, d) <=> d.latched
      /\ Guard(<<k, v>>, 3, d, d) <=> ToggleDue(v, d)
      /\ Guard(<<k, v>>, 4, d, d) <=> d.latched
      /\ Guard(<<k, v>>, 5, d, d) <=> ToggleDue(v, d)
  BY <1>1, BlinkMoves, GuardOf
<1>4. d.at \in {"off", "x1", "x2"} /\ d.latched \in BOOLEAN  BY DEF Modes
<1>5. DOMAIN T = {1, 2, 3, 4, 5}  BY BlinkMoves
<1> HIDE DEF T
<1>6. CASE d.latched /\ d.at = "off"
  <2>1. AppliesFirst(k, v, d, 1)
    BY <1>1, <1>2, <1>3, <1>5, <1>6 DEF AppliesFirst, Applies, T
  <2>2. Evaluated(k, v, d) = Chosen(d, T[1].to, <<T[1].does>>)  BY <1>1, <2>1, MachineFires DEF T
  <2> QED  BY <1>2, <1>6, <2>2
<1>7. CASE d.latched /\ d.at = "x1"
  <2>1. AppliesFirst(k, v, d, 2)
    BY <1>1, <1>2, <1>3, <1>5, <1>7 DEF AppliesFirst, Applies, T
  <2>2. Evaluated(k, v, d) = Chosen(d, T[2].to, <<T[2].does>>)  BY <1>1, <2>1, MachineFires DEF T
  <2> QED  BY <1>2, <1>7, <2>2
<1>8. CASE d.latched /\ d.at = "x2"
  <2>1. AppliesFirst(k, v, d, 4)
    BY <1>1, <1>2, <1>3, <1>5, <1>8 DEF AppliesFirst, Applies, T
  <2>2. Evaluated(k, v, d) = Chosen(d, T[4].to, <<T[4].does>>)  BY <1>1, <2>1, MachineFires DEF T
  <2> QED  BY <1>2, <1>8, <2>2
<1>9. CASE ~ d.latched /\ d.at = "x1" /\ ToggleDue(v, d)
  <2>1. AppliesFirst(k, v, d, 3)
    BY <1>1, <1>2, <1>3, <1>5, <1>9 DEF AppliesFirst, Applies, T
  <2>2. Evaluated(k, v, d) = Chosen(d, T[3].to, <<T[3].does>>)  BY <1>1, <2>1, MachineFires DEF T
  <2> QED  BY <1>2, <1>9, <2>2
<1>10. CASE ~ d.latched /\ d.at = "x2" /\ ToggleDue(v, d)
  <2>1. AppliesFirst(k, v, d, 5)
    BY <1>1, <1>2, <1>3, <1>5, <1>10 DEF AppliesFirst, Applies, T
  <2>2. Evaluated(k, v, d) = Chosen(d, T[5].to, <<T[5].does>>)  BY <1>1, <2>1, MachineFires DEF T
  <2> QED  BY <1>2, <1>10, <2>2
<1>11. CASE ~ d.latched /\ (d.at = "off" \/ ~ ToggleDue(v, d))
  <2>1. \A u \in DOMAIN MachineTable[k] : ~ Applies(k, v, d, u)
    BY <1>1, <1>2, <1>3, <1>5, <1>11 DEF Applies, T
  <2>2. Evaluated(k, v, d) = Chosen(d, d.at, <<>>)  BY <1>1, <2>1, MachineStays
  <2> QED  BY <1>11, <2>2
<1> QED  BY <1>4, <1>6, <1>7, <1>8, <1>9, <1>10, <1>11

-----------------------------------------------------------------------------
(* The nets.  What t transitions leave, and their markings: one place of   *)
(* the modes is marked, and request and due may be.                        *)
AfterOne(k, v, d, e, t) ==
  IF Step!Enabled(e.next, NetTable[k][t]) /\ Guard(<<k, v>>, t, d, d)
    THEN Step!Evaluation(Step!Apply(e.next, NetTable[k][t]), Append(e.fired, t))
    ELSE e

Opening(d) == Step!Evaluation(d.at, <<>>)

(* The longest of the tables has five transitions.                         *)
LEMMA NetInTurn ==
  ASSUME NEW k \in Kinds, NEW v \in Nets, NEW d, NEW N \in 0 .. 5, N = Len(NetTable[k])
  PROVE  \E f : /\ f[0] = Opening(d)
                /\ \A t \in 1 .. N : f[t] = AfterOne(k, v, d, f[t - 1], t)
                /\ Outcome(k, v, d) = f[N]
<1> DEFINE view == [n \in {<<k, v>>} |-> d.at]
           o    == Opening(d)
           To(e, t) == AfterOne(k, v, d, e, t)
           Counts(f) == f = [t \in 0 .. N |-> IF t = 0 THEN o ELSE To(f[t - 1], t)]
           done == CHOOSE f : Counts(f)
<1>1. /\ <<k, v>> \notin Kinds \X Machines /\ <<k, v>>[1] = k /\ <<k, v>>[2] = v
      /\ <<k, v>> \in Kinds \X Versions
  BY DEF Versions, Machines, Nets
<1>2. Table[<<k, v>>] = NetTable[k] /\ view[<<k, v>>] = d.at
  <2>1. v \notin Machines  BY DEF Machines, Nets
  <2> QED  BY <1>1, <2>1 DEF Table
<1>3. Outcome(k, v, d) = Step!NetEvaluate(<<k, v>>, d, view)
  BY <1>1 DEF Outcome, Step!Evaluate
<1>4. \A t : Guard(<<k, v>>, t, d, view) <=> Guard(<<k, v>>, t, d, d)  BY DEF Guard
<1>5. Outcome(k, v, d) = done[N]
  BY <1>2, <1>3, <1>4, ZenonT(30) DEF Step!NetEvaluate, AfterOne, Opening
<1>6. N \in 0 .. 5  OBVIOUS
<1> HIDE DEF o, To
<1> DEFINE e1 == To(o, 1)
           e2 == To(e1, 2)
           e3 == To(e2, 3)
           e4 == To(e3, 4)
           e5 == To(e4, 5)
           explicit == [t \in 0 .. N |-> IF t = 0 THEN o ELSE IF t = 1 THEN e1 ELSE IF t = 2 THEN e2
                                         ELSE IF t = 3 THEN e3 ELSE IF t = 4 THEN e4 ELSE e5]
<1>7. ASSUME NEW t \in 0 .. N
      PROVE  explicit[t] = IF t = 0 THEN o ELSE To(explicit[t - 1], t)
  <2>1. t = 0 \/ t = 1 \/ t = 2 \/ t = 3 \/ t = 4 \/ t = 5
    <3>1. \A n \in 0 .. 5 : \A j \in 0 .. n : j = 0 \/ j = 1 \/ j = 2 \/ j = 3 \/ j = 4 \/ j = 5
      OBVIOUS
    <3> QED  BY <1>6, <3>1
  <2>2. t # 0 => t - 1 \in 0 .. N
    <3>1. N \in Nat  BY <1>6
    <3> QED  BY <3>1
  <2> HIDE DEF e1, e2, e3, e4, e5
  <2>3. CASE t = 0  BY <2>3
  <2>4. CASE t = 1  BY <2>2, <2>4 DEF e1
  <2>5. CASE t = 2  BY <2>2, <2>5 DEF e2
  <2>6. CASE t = 3  BY <2>2, <2>6 DEF e3
  <2>7. CASE t = 4  BY <2>2, <2>7 DEF e4
  <2>8. CASE t = 5  BY <2>2, <2>8 DEF e5
  <2> QED  BY <2>1, <2>3, <2>4, <2>5, <2>6, <2>7, <2>8
<1>8. explicit = [t \in 0 .. N |-> explicit[t]]  OBVIOUS
<1>9. Counts(explicit)
  <2> HIDE DEF explicit
  <2> QED  BY <1>7, <1>8
<1>10. Counts(done)
  <2> HIDE DEF Counts, explicit
  <2> QED  BY <1>9 DEF done
<1> HIDE DEF done, explicit
<1>11. \A t \in 0 .. N : done[t] = IF t = 0 THEN o ELSE To(done[t - 1], t)  BY <1>10
<1>12. 0 \in 0 .. N /\ \A t \in 1 .. N : t \in 0 .. N /\ t # 0  BY <1>6
<1>13. done[0] = o /\ \A t \in 1 .. N : done[t] = To(done[t - 1], t)  BY <1>11, <1>12
<1> QED  BY <1>5, <1>13 DEF o, To

Places(k) == DOMAIN Marking(k)

Marked(k, mode, request, due) ==
  [p \in Places(k) |->
     IF p = "request" THEN request ELSE IF p = "due" THEN due ELSE IF p = mode THEN 1 ELSE 0]

Count(b) == IF b THEN 1 ELSE 0

LEMMA SameSum == ASSUME NEW f, NEW S PROVE Step!SumOver(f, S) = SumOver(f, S)
BY DEF Step!SumOver, SumOver, Step!MapThenSumSet, MapThenSumSet, Step!MapThenFoldSet,
       MapThenFoldSet

(* The weight of an arc list at a place, for lists of one and two arcs.    *)
LEMMA WeightOfOne ==
  ASSUME NEW a, NEW p
  PROVE  Step!WeightAt(Arcs(<<a>>), p) = Count(a = p)
<1> DEFINE arcs == Arcs(<<a>>)
           f    == [i \in DOMAIN arcs |-> arcs[i].weight]
           S    == {i \in DOMAIN arcs : arcs[i].place = p}
<1>1. DOMAIN arcs = {1} /\ arcs[1].weight = 1 /\ arcs[1].place = a  BY DEF Arcs
<1>2. Step!WeightAt(arcs, p) = SumOver(f, S)  BY SameSum DEF Step!WeightAt
<1> SUFFICES Step!WeightAt(arcs, p) = Count(a = p)
  OBVIOUS
<1> HIDE DEF arcs
<1>3. f[1] = 1 /\ S = IF a = p THEN {1} ELSE {}  BY <1>1
<1> HIDE DEF f, S
<1>4. IsFiniteSet(S) /\ \A i \in S : f[i] \in Int
  <2>1. IsFiniteSet({1}) /\ IsFiniteSet({})  BY FS_Singleton, FS_EmptySet
  <2>2. IsFiniteSet(S)  BY <1>3, <2>1
  <2>3. \A i \in S : i = 1  BY <1>3
  <2> QED  BY <1>3, <2>2, <2>3
<1>5. SumOver(f, {}) = 0 /\ \A i \in S : SumOver(f, S) = f[i] + SumOver(f, S \ {i})
  BY <1>4, SumFacts
<1>6. CASE a = p
  <2>1. 1 \in S /\ S \ {1} = {}  BY <1>3, <1>6
  <2>2. SumOver(f, S) = 1 + 0  BY <1>3, <1>5, <2>1
  <2> QED  BY <1>2, <1>6, <2>2 DEF Count
<1>7. CASE a # p  BY <1>2, <1>3, <1>5, <1>7 DEF Count
<1> QED  BY <1>6, <1>7

LEMMA WeightOfTwo ==
  ASSUME NEW a, NEW b, NEW p
  PROVE  Step!WeightAt(Arcs(<<a, b>>), p) = Count(a = p) + Count(b = p)
<1> DEFINE arcs == Arcs(<<a, b>>)
           f    == [i \in DOMAIN arcs |-> arcs[i].weight]
           S    == {i \in DOMAIN arcs : arcs[i].place = p}
<1>1. /\ DOMAIN arcs = {1, 2} /\ arcs[1].weight = 1 /\ arcs[2].weight = 1
      /\ arcs[1].place = a /\ arcs[2].place = b
  BY DEF Arcs
<1>2. Step!WeightAt(arcs, p) = SumOver(f, S)  BY SameSum DEF Step!WeightAt
<1> SUFFICES Step!WeightAt(arcs, p) = Count(a = p) + Count(b = p)
  OBVIOUS
<1> HIDE DEF arcs
<1>3. /\ f[1] = 1 /\ f[2] = 1 /\ S \in SUBSET {1, 2}
      /\ 1 \in S <=> a = p
      /\ 2 \in S <=> b = p
  BY <1>1
<1> HIDE DEF f, S
<1>4. \A T \in SUBSET {1, 2} :
        /\ SumOver(f, {}) = 0
        /\ \A i \in T : SumOver(f, T) = 1 + SumOver(f, T \ {i})
  <2> SUFFICES ASSUME NEW T \in SUBSET {1, 2}
               PROVE  /\ SumOver(f, {}) = 0
                      /\ \A i \in T : SumOver(f, T) = 1 + SumOver(f, T \ {i})
    OBVIOUS
  <2>1. IsFiniteSet({1, 2})
    <3>1. IsFiniteSet(1 .. 2)
      <4>1. 1 \in Int /\ 2 \in Int  OBVIOUS
      <4> QED  BY <4>1, FS_Interval
    <3>2. 1 .. 2 = {1, 2}  OBVIOUS
    <3> QED  BY <3>1, <3>2
  <2>2. IsFiniteSet(T)  BY <2>1, FS_Subset
  <2>3. \A i \in T : f[i] \in Int /\ f[i] = 1  BY <1>3
  <2>4. SumOver(f, {}) = 0 /\ \A i \in T : SumOver(f, T) = f[i] + SumOver(f, T \ {i})
    BY <2>2, <2>3, SumFacts
  <2> QED  BY <2>3, <2>4
<1>5. SumOver(f, {}) = 0 /\ SumOver(f, {1}) = 1 /\ SumOver(f, {2}) = 1
  <2>1. {1} \ {1} = {} /\ {2} \ {2} = {}  OBVIOUS
  <2>2. SumOver(f, {1}) = 1 + SumOver(f, {1} \ {1})  BY <1>4
  <2>3. SumOver(f, {2}) = 1 + SumOver(f, {2} \ {2})  BY <1>4
  <2> QED  BY <1>4, <2>1, <2>2, <2>3
<1>6. SumOver(f, {1, 2}) = 2
  <2>1. {1, 2} \ {1} = {2}  OBVIOUS
  <2>2. SumOver(f, {1, 2}) = 1 + SumOver(f, {1, 2} \ {1})  BY <1>4
  <2> QED  BY <1>5, <2>1, <2>2
<1>7. CASE a = p /\ b = p
  <2>1. S = {1, 2}  BY <1>3, <1>7
  <2> QED  BY <1>2, <1>6, <1>7, <2>1 DEF Count
<1>8. CASE a = p /\ b # p
  <2>1. S = {1}  BY <1>3, <1>8
  <2> QED  BY <1>2, <1>5, <1>8, <2>1 DEF Count
<1>9. CASE a # p /\ b = p
  <2>1. S = {2}  BY <1>3, <1>9
  <2> QED  BY <1>2, <1>5, <1>9, <2>1 DEF Count
<1>10. CASE a # p /\ b # p
  <2>1. S = {}  BY <1>3, <1>10
  <2> QED  BY <1>2, <1>5, <1>10, <2>1 DEF Count
<1> QED  BY <1>7, <1>8, <1>9, <1>10

(* One transition of a net on a marking of that form.                      *)
LEMMA PlacesAre ==
  ASSUME NEW k \in Kinds
  PROVE  /\ Places(k) = Modes(k) \cup {"request"} \cup (IF k = "light" THEN {} ELSE {"due"})
         /\ "request" \notin Modes(k) /\ "due" \notin Modes(k)
<1>1. Places("light") = {"off", "on", "request"} /\ Places("auto") = {"off", "on", "request", "due"}
      /\ Places("blink") = {"off", "x1", "x2", "request", "due"}
  BY DEF Places, Marking
<1> QED  BY <1>1 DEF Kinds, Modes

Bit == {0, 1}

(* The entry of a net's table: out of a and s, into b.                     *)
Entry(k, t, a, s, b, does) == NetTable[k][t] = Fire(<<a, s>>, <<b>>, does)

LEMMA FireOnMarked ==
  ASSUME NEW k, NEW v, NEW d, NEW e, NEW t, NEW does, NEW a, NEW b, NEW s,
         NEW mode, NEW request, NEW due,
         k \in Kinds, v \in Nets, a \in Modes(k), b \in Modes(k),
         s \in {"request", "due"}, s \in Places(k), Entry(k, t, a, s, b, does),
         mode \in Modes(k), request \in Bit, due \in Bit,
         e.next = Marked(k, mode, request, due)
  PROVE  /\ s = "request" /\ mode = a /\ request = 1 =>
              AfterOne(k, v, d, e, t) = Step!Evaluation(Marked(k, b, 0, due), Append(e.fired, t))
         /\ s = "due" /\ mode = a /\ due = 1 =>
              AfterOne(k, v, d, e, t) = Step!Evaluation(Marked(k, b, request, 0), Append(e.fired, t))
         /\ s = "request" /\ ~ (mode = a /\ request = 1) => AfterOne(k, v, d, e, t) = e
         /\ s = "due" /\ ~ (mode = a /\ due = 1) => AfterOne(k, v, d, e, t) = e
<1>a. request \in {0, 1} /\ due \in {0, 1}  BY DEF Bit
<1> DEFINE m  == Marked(k, mode, request, due)
           tr == NetTable[k][t]
<1>1. tr.consume = Arcs(<<a, s>>) /\ tr.produce = Arcs(<<b>>)  BY DEF Entry, Fire
<1>2. Guard(<<k, v>>, t, d, d)
  <2>1. <<k, v>>[2] = v /\ v \notin Machines  BY DEF Nets, Machines
  <2> QED  BY <2>1 DEF Guard
<1>3. /\ DOMAIN Arcs(<<a, s>>) = {1, 2} /\ Arcs(<<a, s>>)[1] = [place |-> a, weight |-> 1]
      /\ Arcs(<<a, s>>)[2] = [place |-> s, weight |-> 1]
      /\ DOMAIN Arcs(<<b>>) = {1} /\ Arcs(<<b>>)[1] = [place |-> b, weight |-> 1]
  BY DEF Arcs
<1>4. /\ DOMAIN m = Places(k) /\ a \in Places(k) /\ b \in Places(k) /\ s \in Places(k)
      /\ a \notin {"request", "due"} /\ b \notin {"request", "due"} /\ mode \notin {"request", "due"}
  BY PlacesAre DEF Marked
<1>5. m[a] = Count(mode = a) /\ m[s] = (IF s = "request" THEN request ELSE due)
  BY <1>4 DEF Marked, Count
<1>6. Step!Enabled(m, tr) <=>
        mode = a /\ (s = "request" => request = 1) /\ (s = "due" => due = 1)
  <2>1. Step!ValidArcs(m, tr.consume) /\ Step!ValidArcs(m, tr.produce)
    BY <1>1, <1>3, <1>4 DEF Step!ValidArcs
  <2>2. Step!Enabled(m, tr) <=> m[a] >= 1 /\ m[s] >= 1
    BY <1>1, <1>3, <2>1 DEF Step!Enabled
  <2> HIDE DEF m
  <2> QED  BY <1>a, <1>5, <2>2 DEF Count
<1> DEFINE request1 == IF s = "request" THEN 0 ELSE request
           due1     == IF s = "due" THEN 0 ELSE due
<1>7. ASSUME mode = a, s = "request" => request = 1, s = "due" => due = 1
      PROVE  Step!Apply(m, tr) = Marked(k, b, request1, due1)
  <2>1. Step!Apply(m, tr) =
          [p \in Places(k) |-> m[p] - (Count(a = p) + Count(s = p)) + Count(b = p)]
    BY <1>1, <1>4, WeightOfOne, WeightOfTwo DEF Step!Apply
  <2> DEFINE after(p) == IF p = "request" THEN request1 ELSE IF p = "due" THEN due1
                         ELSE IF p = b THEN 1 ELSE 0
  <2>2. ASSUME NEW p \in Places(k)
        PROVE  m[p] - (Count(a = p) + Count(s = p)) + Count(b = p) = after(p)
    <3>1. m[p] = IF p = "request" THEN request ELSE IF p = "due" THEN due
                 ELSE IF p = mode THEN 1 ELSE 0
      BY DEF Marked
    <3> HIDE DEF m
    <3> QED  BY <1>a, <1>4, <1>7, <3>1 DEF Count
  <2>3. Marked(k, b, request1, due1) = [p \in Places(k) |-> after(p)]  BY DEF Marked
  <2> HIDE DEF m, after
  <2>4. Step!Apply(m, tr) = [p \in Places(k) |-> after(p)]  BY <2>1, <2>2, ZenonT(30)
  <2> QED  BY <2>3, <2>4
<1> HIDE DEF m, tr
<1>8. AfterOne(k, v, d, e, t) = IF Step!Enabled(m, tr)
        THEN Step!Evaluation(Step!Apply(m, tr), Append(e.fired, t)) ELSE e
  BY <1>2 DEF AfterOne, m, tr
<1> QED  BY <1>6, <1>7, <1>8

(* An evaluation under way: the marking, and what has fired.               *)
Under(k, mode, request, due, fired) ==
  Step!Evaluation(Marked(k, mode, request, due), fired)

Then(fired, t) == Append(fired, t)

RequestTurns(k, v, d, t, a, b) ==
  \A e, fired, mode, request, due :
    /\ mode \in Modes(k) /\ request \in Bit /\ due \in Bit
    /\ e = Under(k, mode, request, due, fired)
    => /\ mode = a /\ request = 1 => AfterOne(k, v, d, e, t) = Under(k, b, 0, due, Then(fired, t))
       /\ mode # a \/ request = 0 => AfterOne(k, v, d, e, t) = Under(k, mode, request, due, fired)

DueTurns(k, v, d, t, a, b) ==
  \A e, fired, mode, request, due :
    /\ mode \in Modes(k) /\ request \in Bit /\ due \in Bit
    /\ e = Under(k, mode, request, due, fired)
    => /\ mode = a /\ due = 1 => AfterOne(k, v, d, e, t) = Under(k, b, request, 0, Then(fired, t))
       /\ mode # a \/ due = 0 => AfterOne(k, v, d, e, t) = Under(k, mode, request, due, fired)

LEMMA RequestFires ==
  ASSUME NEW k \in Kinds, NEW v \in Nets, NEW d, NEW t, NEW does,
         NEW a \in Modes(k), NEW b \in Modes(k),
         Entry(k, t, a, "request", b, does)
  PROVE  RequestTurns(k, v, d, t, a, b)
<1> SUFFICES ASSUME NEW e, NEW mode \in Modes(k), NEW request \in Bit, NEW due \in Bit, NEW fired,
                    e = Under(k, mode, request, due, fired)
             PROVE  /\ mode = a /\ request = 1 => AfterOne(k, v, d, e, t) = Under(k, b, 0, due, Then(fired, t))
                    /\ mode # a \/ request = 0 =>
                         AfterOne(k, v, d, e, t) = Under(k, mode, request, due, fired)
  BY DEF RequestTurns
<1> DEFINE n == AfterOne(k, v, d, e, t)
<1>1. e.next = Marked(k, mode, request, due) /\ e.fired = fired
  BY DEF Under, Step!Evaluation
<1>2. "request" \in Places(k) /\ "request" \in {"request", "due"}  BY PlacesAre
<1>3. /\ mode = a /\ request = 1 => n = Step!Evaluation(Marked(k, b, 0, due), Append(e.fired, t))
      /\ mode # a \/ request = 0 => n = e
  <2> HIDE DEF n
  <2>1. /\ mode = a /\ request = 1 => n = Step!Evaluation(Marked(k, b, 0, due), Append(e.fired, t))
        /\ ~ (mode = a /\ request = 1) => n = e
    <3>1. CASE mode = a /\ request = 1  BY <1>2, <3>1, <1>1, FireOnMarked DEF n
    <3>2. CASE ~ (mode = a /\ request = 1)
      <4>1. AfterOne(k, v, d, e, t) = e  BY <1>1, <1>2, <3>2, FireOnMarked
      <4> QED  BY <3>2, <4>1 DEF n
    <3> QED  BY <3>1, <3>2
  <2>2. request \in {0, 1} /\ due \in {0, 1}  BY DEF Bit
  <2> QED  BY <2>1, <2>2
<1>4. Under(k, b, 0, due, Then(fired, t)) = Step!Evaluation(Marked(k, b, 0, due), Append(fired, t))
  BY DEF Under, Then
<1> QED  BY <1>1, <1>3, <1>4

LEMMA DueFires ==
  ASSUME NEW k \in Kinds, NEW v \in Nets, NEW d, NEW t, NEW does,
         NEW a \in Modes(k), NEW b \in Modes(k), k # "light",
         Entry(k, t, a, "due", b, does)
  PROVE  DueTurns(k, v, d, t, a, b)
<1> SUFFICES ASSUME NEW e, NEW mode \in Modes(k), NEW request \in Bit, NEW due \in Bit, NEW fired,
                    e = Under(k, mode, request, due, fired)
             PROVE  /\ mode = a /\ due = 1 => AfterOne(k, v, d, e, t) = Under(k, b, request, 0, Then(fired, t))
                    /\ mode # a \/ due = 0 =>
                         AfterOne(k, v, d, e, t) = Under(k, mode, request, due, fired)
  BY DEF DueTurns
<1> DEFINE n == AfterOne(k, v, d, e, t)
<1>1. e.next = Marked(k, mode, request, due) /\ e.fired = fired
  BY DEF Under, Step!Evaluation
<1>2. "due" \in Places(k) /\ "due" \in {"request", "due"}  BY PlacesAre
<1>3. /\ mode = a /\ due = 1 => n = Step!Evaluation(Marked(k, b, request, 0), Append(e.fired, t))
      /\ mode # a \/ due = 0 => n = e
  <2> HIDE DEF n
  <2>1. /\ mode = a /\ due = 1 => n = Step!Evaluation(Marked(k, b, request, 0), Append(e.fired, t))
        /\ ~ (mode = a /\ due = 1) => n = e
    <3>1. CASE mode = a /\ due = 1  BY <1>2, <3>1, <1>1, FireOnMarked DEF n
    <3>2. CASE ~ (mode = a /\ due = 1)
      <4>1. AfterOne(k, v, d, e, t) = e  BY <1>1, <1>2, <3>2, FireOnMarked
      <4> QED  BY <3>2, <4>1 DEF n
    <3> QED  BY <3>1, <3>2
  <2>2. request \in {0, 1} /\ due \in {0, 1}  BY DEF Bit
  <2> QED  BY <2>1, <2>2
<1>4. Under(k, b, request, 0, Then(fired, t)) = Step!Evaluation(Marked(k, b, request, 0), Append(fired, t))
  BY DEF Under, Then
<1> QED  BY <1>1, <1>3, <1>4

LEMMA AppendTwo ==
  ASSUME NEW t \in Nat, NEW u \in Nat
  PROVE  Append(<<>>, t) = <<t>> /\ Append(<<t>>, u) = <<t, u>>
<1> DEFINE s == Append(<<t>>, u)
           w == <<t, u>>
<1>1. <<t>> \in Seq(Nat) /\ Len(<<t>>) = 1 /\ <<t>>[1] = t  OBVIOUS
<1>2. s \in Seq(Nat) /\ Len(s) = 2 /\ s[1] = t /\ s[2] = u
  <2>1. s \in Seq(Nat) /\ Len(s) = 1 + 1 /\ (\A i \in 1 .. 1 : s[i] = <<t>>[i]) /\ s[1 + 1] = u
    BY <1>1, AppendProperties
  <2> HIDE DEF s
  <2> QED  BY <1>1, <2>1
<1>3. w \in Seq(Nat) /\ Len(w) = 2 /\ w[1] = t /\ w[2] = u  OBVIOUS
<1> HIDE DEF s, w
<1>4. Len(s) = Len(w) /\ \A i \in 1 .. Len(s) : s[i] = w[i]  BY <1>2, <1>3
<1>5. s = w  BY <1>2, <1>3, <1>4, SeqEqual
<1> QED  BY <1>5 DEF s, w

(* What a net fires, for each of the three.                                *)
LEMMA LightFires ==
  ASSUME NEW v \in Nets, NEW d, NEW mode \in Modes("light"), NEW request \in Bit,
         d.at = Marked("light", mode, request, 0)
  PROVE  LET o == Outcome("light", v, d) IN
         /\ request = 0 => o = Under("light", mode, 0, 0, <<>>)
         /\ request = 1 /\ mode = "off" => o = Under("light", "on", 0, 0, <<1>>)
         /\ request = 1 /\ mode = "on" => o = Under("light", "off", 0, 0, <<2>>)
<1> DEFINE k == "light"
<1>1. /\ k \in Kinds /\ Modes(k) = {"off", "on"} /\ 0 \in Bit /\ 1 \in Bit /\ (\A x \in Bit : x = 0 \/ x = 1)
      /\ Then(<<>>, 1) = <<1>> /\ Then(<<>>, 2) = <<2>>
  BY AppendTwo DEF Kinds, Modes, Bit, Then
<1>2. /\ Len(NetTable[k]) = 2
      /\ Entry(k, 1, "off", "request", "on", "none")
      /\ Entry(k, 2, "on", "request", "off", "none")
  <2>1. NetTable[k] = LightNet  BY DEF NetTable
  <2> QED  BY <2>1 DEF LightNet, Entry
<1>3. RequestTurns(k, v, d, 1, "off", "on") /\ RequestTurns(k, v, d, 2, "on", "off")
  BY <1>1, <1>2, RequestFires
<1>4. PICK f : /\ f[0] = Opening(d)
               /\ \A t \in 1 .. 2 : f[t] = AfterOne(k, v, d, f[t - 1], t)
               /\ Outcome(k, v, d) = f[2]
  BY <1>1, <1>2, NetInTurn
<1> DEFINE e0 == f[0]
           e1 == f[1]
           e2 == f[2]
<1>5. e0 = Under(k, mode, request, 0, <<>>)  BY <1>4 DEF Opening, Under
<1>6. e1 = AfterOne(k, v, d, e0, 1) /\ e2 = AfterOne(k, v, d, e1, 2)  BY <1>4
<1>a. Outcome(k, v, d) = e2  BY <1>4
<1> HIDE DEF e0, e1, e2
<1>7. CASE request = 0
  <2>1. e1 = Under(k, mode, 0, 0, <<>>)  BY <1>1, <1>3, <1>5, <1>6, <1>7 DEF RequestTurns
  <2>2. e2 = Under(k, mode, 0, 0, <<>>)  BY <1>1, <1>3, <1>6, <2>1 DEF RequestTurns
  <2> QED  BY <1>a, <1>7, <2>2
<1>8. CASE request = 1 /\ mode = "off"
  <2>1. e1 = Under(k, "on", 0, 0, <<1>>)  BY <1>1, <1>3, <1>5, <1>6, <1>8 DEF RequestTurns
  <2>2. e2 = Under(k, "on", 0, 0, <<1>>)  BY <1>1, <1>3, <1>6, <2>1 DEF RequestTurns
  <2> QED  BY <1>a, <1>8, <2>2
<1>9. CASE request = 1 /\ mode = "on"
  <2>1. e1 = Under(k, "on", 1, 0, <<>>)  BY <1>1, <1>3, <1>5, <1>6, <1>9 DEF RequestTurns
  <2>2. e2 = Under(k, "off", 0, 0, <<2>>)  BY <1>1, <1>3, <1>6, <2>1 DEF RequestTurns
  <2> QED  BY <1>a, <1>9, <2>2
<1> QED  BY <1>1, <1>7, <1>8, <1>9

LEMMA AutoFires ==
  ASSUME NEW v \in Nets, NEW d, NEW mode \in Modes("auto"), NEW request \in Bit, NEW due \in Bit,
         mode = "off" => due = 0,
         d.at = Marked("auto", mode, request, due)
  PROVE  LET o == Outcome("auto", v, d) IN
         /\ request = 0 /\ due = 0 => o = Under("auto", mode, 0, 0, <<>>)
         /\ request = 0 /\ due = 1 => o = Under("auto", "off", 0, 0, <<3>>)
         /\ request = 1 /\ mode = "off" => o = Under("auto", "on", 0, 0, <<1>>)
         /\ request = 1 /\ mode = "on" /\ due = 0 => o = Under("auto", "on", 0, 0, <<2>>)
         /\ request = 1 /\ mode = "on" /\ due = 1 => o = Under("auto", "off", 0, 0, <<2, 3>>)
<1> DEFINE k == "auto"
<1>1. /\ k \in Kinds /\ k # "light" /\ Modes(k) = {"off", "on"} /\ 0 \in Bit /\ 1 \in Bit /\ (\A x \in Bit : x = 0 \/ x = 1)
      /\ Then(<<>>, 1) = <<1>> /\ Then(<<>>, 2) = <<2>> /\ Then(<<>>, 3) = <<3>>
      /\ Then(<<2>>, 3) = <<2, 3>>
  BY AppendTwo DEF Then, Kinds, Modes, Bit
<1>2. /\ Len(NetTable[k]) = 3
      /\ Entry(k, 1, "off", "request", "on", "start_timer")
      /\ Entry(k, 2, "on", "request", "on", "start_timer")
      /\ Entry(k, 3, "on", "due", "off", "none")
  <2>1. NetTable[k] = AutoNet  BY DEF NetTable
  <2> QED  BY <2>1 DEF AutoNet, Entry
<1>3. RequestTurns(k, v, d, 1, "off", "on") /\ RequestTurns(k, v, d, 2, "on", "on")
  BY <1>1, <1>2, RequestFires
<1>4. DueTurns(k, v, d, 3, "on", "off")  BY <1>1, <1>2, DueFires
<1>5. PICK f : /\ f[0] = Opening(d)
               /\ \A t \in 1 .. 3 : f[t] = AfterOne(k, v, d, f[t - 1], t)
               /\ Outcome(k, v, d) = f[3]
  BY <1>1, <1>2, NetInTurn
<1> DEFINE e0 == f[0]
           e1 == f[1]
           e2 == f[2]
           e3 == f[3]
<1>6. e0 = Under(k, mode, request, due, <<>>)  BY <1>5 DEF Opening, Under
<1>7. e1 = AfterOne(k, v, d, e0, 1) /\ e2 = AfterOne(k, v, d, e1, 2)
      /\ e3 = AfterOne(k, v, d, e2, 3)
  BY <1>5
<1>a. Outcome(k, v, d) = e3  BY <1>5
<1> HIDE DEF e0, e1, e2, e3
<1>8. ASSUME NEW m \in Modes(k), NEW u \in Bit, NEW fired, e2 = Under(k, m, 0, u, fired)
      PROVE  /\ m = "on" /\ u = 1 => e3 = Under(k, "off", 0, 0, Then(fired, 3))
             /\ m = "off" \/ u = 0 => e3 = Under(k, m, 0, u, fired)
  BY <1>1, <1>4, <1>7, <1>8 DEF DueTurns
<1>9. CASE request = 0
  <2>1. e1 = Under(k, mode, 0, due, <<>>)  BY <1>1, <1>3, <1>6, <1>7, <1>9 DEF RequestTurns
  <2>2. e2 = Under(k, mode, 0, due, <<>>)  BY <1>1, <1>3, <1>7, <2>1 DEF RequestTurns
  <2>3. /\ mode = "on" /\ due = 1 => e3 = Under(k, "off", 0, 0, Then(<<>>, 3))
        /\ mode = "off" \/ due = 0 => e3 = Under(k, mode, 0, due, <<>>)
    BY <1>8, <2>2
  <2>4. (mode = "on" \/ mode = "off") /\ (due = 1 \/ due = 0)  BY <1>1
  <2> QED  BY <1>1, <1>a, <1>9, <2>3, <2>4
<1>10. CASE request = 1 /\ mode = "off"
  <2>1. e1 = Under(k, "on", 0, 0, <<1>>)  BY <1>1, <1>3, <1>6, <1>7, <1>10 DEF RequestTurns
  <2>2. e2 = Under(k, "on", 0, 0, <<1>>)  BY <1>1, <1>3, <1>7, <2>1 DEF RequestTurns
  <2>3. e3 = Under(k, "on", 0, 0, <<1>>)  BY <1>1, <1>8, <2>2
  <2> QED  BY <1>a, <1>10, <2>3
<1>11. CASE request = 1 /\ mode = "on"
  <2>1. e1 = Under(k, "on", 1, due, <<>>)  BY <1>1, <1>3, <1>6, <1>7, <1>11 DEF RequestTurns
  <2>2. e2 = Under(k, "on", 0, due, <<2>>)  BY <1>1, <1>3, <1>7, <2>1 DEF RequestTurns
  <2>3. /\ due = 1 => e3 = Under(k, "off", 0, 0, Then(<<2>>, 3))
        /\ due = 0 => e3 = Under(k, "on", 0, due, <<2>>)
    BY <1>1, <1>8, <2>2
  <2> QED  BY <1>1, <1>a, <1>11, <2>3
<1> QED  BY <1>1, <1>9, <1>10, <1>11

LEMMA BlinkFires ==
  ASSUME NEW v \in Nets, NEW d, NEW mode \in Modes("blink"), NEW request \in Bit, NEW due \in Bit,
         mode = "off" => due = 0,
         d.at = Marked("blink", mode, request, due)
  PROVE  LET o == Outcome("blink", v, d) IN
         /\ request = 0 /\ due = 0 => o = Under("blink", mode, 0, 0, <<>>)
         /\ request = 0 /\ due = 1 /\ mode = "x1" => o = Under("blink", "x1", 0, 0, <<4>>)
         /\ request = 0 /\ due = 1 /\ mode = "x2" => o = Under("blink", "x2", 0, 0, <<5>>)
         /\ request = 1 /\ mode = "off" => o = Under("blink", "x1", 0, 0, <<1>>)
         /\ request = 1 /\ mode = "x1" /\ due = 0 => o = Under("blink", "x2", 0, 0, <<2>>)
         /\ request = 1 /\ mode = "x1" /\ due = 1 => o = Under("blink", "x2", 0, 0, <<2, 5>>)
         /\ request = 1 /\ mode = "x2" => o = Under("blink", "off", 0, due, <<3>>)
<1> DEFINE k == "blink"
<1>1. /\ k \in Kinds /\ k # "light" /\ Modes(k) = {"off", "x1", "x2"} /\ 0 \in Bit /\ 1 \in Bit /\ (\A x \in Bit : x = 0 \/ x = 1)
      /\ Then(<<>>, 1) = <<1>> /\ Then(<<>>, 2) = <<2>> /\ Then(<<>>, 3) = <<3>>
  BY AppendTwo DEF Kinds, Modes, Bit, Then
<1>2. /\ Len(NetTable[k]) = 5
      /\ Entry(k, 1, "off", "request", "x1", "enter_x1")
      /\ Entry(k, 2, "x1", "request", "x2", "enter_x2")
      /\ Entry(k, 3, "x2", "request", "off", "enter_off")
      /\ Entry(k, 4, "x1", "due", "x1", "toggle")
      /\ Entry(k, 5, "x2", "due", "x2", "toggle")
  <2>1. NetTable[k] = BlinkNet  BY DEF NetTable
  <2> QED  BY <2>1 DEF BlinkNet, Entry
<1>t1. RequestTurns(k, v, d, 1, "off", "x1")  BY <1>1, <1>2, RequestFires
<1>t2. RequestTurns(k, v, d, 2, "x1", "x2")   BY <1>1, <1>2, RequestFires
<1>t3. RequestTurns(k, v, d, 3, "x2", "off")  BY <1>1, <1>2, RequestFires
<1>t4. DueTurns(k, v, d, 4, "x1", "x1")       BY <1>1, <1>2, DueFires
<1>t5. DueTurns(k, v, d, 5, "x2", "x2")       BY <1>1, <1>2, DueFires
<1>5. PICK f : /\ f[0] = Opening(d)
               /\ \A t \in 1 .. 5 : f[t] = AfterOne(k, v, d, f[t - 1], t)
               /\ Outcome(k, v, d) = f[5]
  BY <1>1, <1>2, NetInTurn
<1> DEFINE e0 == f[0]
           e1 == f[1]
           e2 == f[2]
           e3 == f[3]
           e4 == f[4]
           e5 == f[5]
<1>6. e0 = Under(k, mode, request, due, <<>>)  BY <1>5 DEF Opening, Under
<1>e1. e1 = AfterOne(k, v, d, e0, 1)  BY <1>5
<1>e2. e2 = AfterOne(k, v, d, e1, 2)  BY <1>5
<1>e3. e3 = AfterOne(k, v, d, e2, 3)  BY <1>5
<1>e4. e4 = AfterOne(k, v, d, e3, 4)  BY <1>5
<1>e5. e5 = AfterOne(k, v, d, e4, 5)  BY <1>5
<1>a. Outcome(k, v, d) = e5  BY <1>5
<1> HIDE DEF e0, e1, e2, e3, e4, e5
<1>8. ASSUME NEW m \in Modes(k), NEW u \in Bit, NEW fired, e3 = Under(k, m, 0, u, fired)
      PROVE  /\ m = "x1" /\ u = 1 => e5 = Under(k, m, 0, 0, Then(fired, 4))
             /\ m = "x2" /\ u = 1 => e5 = Under(k, m, 0, 0, Then(fired, 5))
             /\ m = "off" \/ u = 0 => e5 = Under(k, m, 0, u, fired)
  <2>1. CASE u = 0
    <3>1. e4 = Under(k, m, 0, u, fired)  BY <1>1, <1>t4, <1>e4, <1>8, <2>1 DEF DueTurns
    <3>2. e5 = Under(k, m, 0, u, fired)  BY <1>1, <1>t5, <1>e5, <2>1, <3>1 DEF DueTurns
    <3> QED  BY <2>1, <3>2
  <2>2. CASE u = 1 /\ m = "off"
    <3>1. e4 = Under(k, m, 0, u, fired)  BY <1>1, <1>t4, <1>e4, <1>8, <2>2 DEF DueTurns
    <3>2. e5 = Under(k, m, 0, u, fired)  BY <1>1, <1>t5, <1>e5, <2>2, <3>1 DEF DueTurns
    <3> QED  BY <2>2, <3>2
  <2>3. CASE u = 1 /\ m = "x1"
    <3>1. e4 = Under(k, "x1", 0, 0, Then(fired, 4))  BY <1>1, <1>t4, <1>e4, <1>8, <2>3 DEF DueTurns
    <3>2. e5 = Under(k, "x1", 0, 0, Then(fired, 4))  BY <1>1, <1>t5, <1>e5, <3>1 DEF DueTurns
    <3> QED  BY <2>3, <3>2
  <2>4. CASE u = 1 /\ m = "x2"
    <3>1. e4 = Under(k, m, 0, u, fired)  BY <1>1, <1>t4, <1>e4, <1>8, <2>4 DEF DueTurns
    <3>2. e5 = Under(k, "x2", 0, 0, Then(fired, 5))
      BY <1>1, <1>t5, <1>e5, <2>4, <3>1 DEF DueTurns
    <3> QED  BY <2>4, <3>2
  <2> QED  BY <1>1, <2>1, <2>2, <2>3, <2>4
<1>9. CASE request = 0
  <2>1. e1 = Under(k, mode, 0, due, <<>>)  BY <1>1, <1>t1, <1>6, <1>e1, <1>9 DEF RequestTurns
  <2>2. e2 = Under(k, mode, 0, due, <<>>)  BY <1>1, <1>t2, <1>e2, <2>1 DEF RequestTurns
  <2>3. e3 = Under(k, mode, 0, due, <<>>)  BY <1>1, <1>t3, <1>e3, <2>2 DEF RequestTurns
  <2>4. /\ mode = "x1" /\ due = 1 => e5 = Under(k, mode, 0, 0, Then(<<>>, 4))
        /\ mode = "x2" /\ due = 1 => e5 = Under(k, mode, 0, 0, Then(<<>>, 5))
        /\ mode = "off" \/ due = 0 => e5 = Under(k, mode, 0, due, <<>>)
    BY <1>1, <1>8, <2>3
  <2>5. Then(<<>>, 4) = <<4>> /\ Then(<<>>, 5) = <<5>>  BY AppendTwo DEF Then
  <2> QED  BY <1>1, <1>a, <1>9, <2>4, <2>5
<1>10. CASE request = 1 /\ mode = "off"
  <2>1. e1 = Under(k, "x1", 0, 0, <<1>>)  BY <1>1, <1>t1, <1>6, <1>e1, <1>10 DEF RequestTurns
  <2>2. e2 = Under(k, "x1", 0, 0, <<1>>)  BY <1>1, <1>t2, <1>e2, <2>1 DEF RequestTurns
  <2>3. e3 = Under(k, "x1", 0, 0, <<1>>)  BY <1>1, <1>t3, <1>e3, <2>2 DEF RequestTurns
  <2>4. e5 = Under(k, "x1", 0, 0, <<1>>)
    <3>1. CASE 0 = 1  BY <3>1
    <3> QED  BY <1>1, <1>8, <2>3
  <2> QED  BY <1>a, <1>10, <2>4
<1>11. CASE request = 1 /\ mode = "x1"
  <2>1. e1 = Under(k, "x1", 1, due, <<>>)  BY <1>1, <1>t1, <1>6, <1>e1, <1>11 DEF RequestTurns
  <2>2. e2 = Under(k, "x2", 0, due, <<2>>)  BY <1>1, <1>t2, <1>e2, <2>1 DEF RequestTurns
  <2>3. e3 = Under(k, "x2", 0, due, <<2>>)  BY <1>1, <1>t3, <1>e3, <2>2 DEF RequestTurns
  <2>4. e5 = IF due = 1 THEN Under(k, "x2", 0, 0, Then(<<2>>, 5)) ELSE Under(k, "x2", 0, due, <<2>>)
    BY <1>1, <1>8, <2>3
  <2>5. Then(<<2>>, 5) = <<2, 5>>  BY AppendTwo DEF Then
  <2> QED  BY <1>a, <1>11, <2>4, <2>5
<1>12. CASE request = 1 /\ mode = "x2"
  <2>1. e1 = Under(k, "x2", 1, due, <<>>)  BY <1>1, <1>t1, <1>6, <1>e1, <1>12 DEF RequestTurns
  <2>2. e2 = Under(k, "x2", 1, due, <<>>)  BY <1>1, <1>t2, <1>e2, <2>1 DEF RequestTurns
  <2>3. e3 = Under(k, "off", 0, due, <<3>>)  BY <1>1, <1>t3, <1>e3, <2>2 DEF RequestTurns
  <2>4. e5 = Under(k, "off", 0, due, <<3>>)  BY <1>1, <1>8, <2>3
  <2> QED  BY <1>a, <1>12, <2>4
<1> QED  BY <1>1, <1>9, <1>10, <1>11, <1>12

(* What each net chooses.                                                  *)
LEMMA Firings ==
  ASSUME NEW k, NEW mode, NEW request, NEW due, NEW fired
  PROVE  /\ Under(k, mode, request, due, fired).next = Marked(k, mode, request, due)
         /\ Under(k, mode, request, due, fired).fired = fired
BY DEF Under, Step!Evaluation

LEMMA NetTables ==
  ASSUME NEW v \in Nets
  PROVE  /\ Does("light", v, 1) = "none" /\ Does("light", v, 2) = "none"
         /\ Does("auto", v, 1) = "start_timer" /\ Does("auto", v, 2) = "start_timer"
         /\ Does("auto", v, 3) = "none"
         /\ Does("blink", v, 1) = "enter_x1" /\ Does("blink", v, 2) = "enter_x2"
         /\ Does("blink", v, 3) = "enter_off"
         /\ Does("blink", v, 4) = "toggle" /\ Does("blink", v, 5) = "toggle"
<1>1. v \notin Machines /\ v \in Versions  BY DEF Nets, Machines, Versions
<1>2. ASSUME NEW k \in Kinds, NEW t  PROVE Does(k, v, t) = NetTable[k][t].does
  <2>1. <<k, v>> \in Kinds \X Versions /\ <<k, v>>[1] = k /\ <<k, v>>[2] = v  BY <1>1
  <2> QED  BY <1>1, <2>1 DEF Does, Table
<1>3. NetTable["light"] = LightNet /\ NetTable["auto"] = AutoNet /\ NetTable["blink"] = BlinkNet
  BY DEF NetTable
<1>4. "light" \in Kinds /\ "auto" \in Kinds /\ "blink" \in Kinds  BY DEF Kinds
<1>5. LightNet[1].does = "none" /\ LightNet[2].does = "none"  BY DEF LightNet, Fire
<1>6. AutoNet[1].does = "start_timer" /\ AutoNet[2].does = "start_timer" /\ AutoNet[3].does = "none"
  BY DEF AutoNet, Fire
<1>7. /\ BlinkNet[1].does = "enter_x1" /\ BlinkNet[2].does = "enter_x2" /\ BlinkNet[3].does = "enter_off"
      /\ BlinkNet[4].does = "toggle" /\ BlinkNet[5].does = "toggle"
  BY DEF BlinkNet, Fire
<1> QED  BY <1>2, <1>3, <1>4, <1>5, <1>6, <1>7

LEMMA LightNetChooses ==
  ASSUME NEW v \in Nets, NEW d, NEW mode \in Modes("light"), NEW request \in Bit,
         d.at = Marked("light", mode, request, 0)
  PROVE  LET o == Evaluated("light", v, d) IN
         /\ request = 0 => o = Chosen(d, Marked("light", mode, 0, 0), <<>>)
         /\ request = 1 /\ mode = "off" => o = Chosen(d, Marked("light", "on", 0, 0), <<"none">>)
         /\ request = 1 /\ mode = "on" => o = Chosen(d, Marked("light", "off", 0, 0), <<"none">>)
<1> DEFINE k == "light"
           e == Outcome(k, v, d)
<1>1. /\ request = 0 => e = Under(k, mode, 0, 0, <<>>)
      /\ request = 1 /\ mode = "off" => e = Under(k, "on", 0, 0, <<1>>)
      /\ request = 1 /\ mode = "on" => e = Under(k, "off", 0, 0, <<2>>)
  BY LightFires
<1>2. /\ e.fired = <<>> => Evaluated(k, v, d) = Chosen(d, e.next, <<>>)
      /\ \A t : e.fired = <<t>> => Evaluated(k, v, d) = Chosen(d, e.next, <<Does(k, v, t)>>)
      /\ \A t, u : e.fired = <<t, u>> =>
           Evaluated(k, v, d) = Chosen(d, e.next, <<Does(k, v, t), Does(k, v, u)>>)
  BY Queued
<1> HIDE DEF e
<1>3. CASE request = 0
  <2>1. e.fired = <<>> /\ e.next = Marked(k, mode, 0, 0)  BY <1>1, <1>3, Firings
  <2> QED  BY <1>2, <1>3, <2>1, NetTables
<1>4. CASE request = 1 /\ mode = "off"
  <2>1. e.fired = <<1>> /\ e.next = Marked(k, "on", 0, 0)  BY <1>1, <1>4, Firings
  <2> QED  BY <1>2, <1>4, <2>1, NetTables
<1>5. CASE request = 1 /\ mode = "on"
  <2>1. e.fired = <<2>> /\ e.next = Marked(k, "off", 0, 0)  BY <1>1, <1>5, Firings
  <2> QED  BY <1>2, <1>5, <2>1, NetTables
<1> QED  BY <1>3, <1>4, <1>5

LEMMA AutoNetChooses ==
  ASSUME NEW v \in Nets, NEW d, NEW mode \in Modes("auto"), NEW request \in Bit, NEW due \in Bit,
         mode = "off" => due = 0, d.at = Marked("auto", mode, request, due)
  PROVE  LET o == Evaluated("auto", v, d) IN
         /\ request = 0 /\ due = 0 => o = Chosen(d, Marked("auto", mode, 0, 0), <<>>)
         /\ request = 0 /\ due = 1 => o = Chosen(d, Marked("auto", "off", 0, 0), <<"none">>)
         /\ request = 1 /\ mode = "off" => o = Chosen(d, Marked("auto", "on", 0, 0), <<"start_timer">>)
         /\ request = 1 /\ mode = "on" /\ due = 0 => o = Chosen(d, Marked("auto", "on", 0, 0), <<"start_timer">>)
         /\ request = 1 /\ mode = "on" /\ due = 1 => o = Chosen(d, Marked("auto", "off", 0, 0), <<"start_timer", "none">>)
<1> DEFINE k == "auto"
           e == Outcome(k, v, d)
<1>1. /\ request = 0 /\ due = 0 => e = Under(k, mode, 0, 0, <<>>)
      /\ request = 0 /\ due = 1 => e = Under(k, "off", 0, 0, <<3>>)
      /\ request = 1 /\ mode = "off" => e = Under(k, "on", 0, 0, <<1>>)
      /\ request = 1 /\ mode = "on" /\ due = 0 => e = Under(k, "on", 0, 0, <<2>>)
      /\ request = 1 /\ mode = "on" /\ due = 1 => e = Under(k, "off", 0, 0, <<2, 3>>)
  BY AutoFires
<1>2. /\ e.fired = <<>> => Evaluated(k, v, d) = Chosen(d, e.next, <<>>)
      /\ \A t : e.fired = <<t>> => Evaluated(k, v, d) = Chosen(d, e.next, <<Does(k, v, t)>>)
      /\ \A t, u : e.fired = <<t, u>> =>
           Evaluated(k, v, d) = Chosen(d, e.next, <<Does(k, v, t), Does(k, v, u)>>)
  BY Queued
<1> HIDE DEF e
<1>3. CASE request = 0 /\ due = 0
  <2>1. e.fired = <<>> /\ e.next = Marked(k, mode, 0, 0)  BY <1>1, <1>3, Firings
  <2> QED  BY <1>2, <1>3, <2>1, NetTables
<1>4. CASE request = 0 /\ due = 1
  <2>1. e.fired = <<3>> /\ e.next = Marked(k, "off", 0, 0)  BY <1>1, <1>4, Firings
  <2> QED  BY <1>2, <1>4, <2>1, NetTables
<1>5. CASE request = 1 /\ mode = "off"
  <2>1. e.fired = <<1>> /\ e.next = Marked(k, "on", 0, 0)  BY <1>1, <1>5, Firings
  <2> QED  BY <1>2, <1>5, <2>1, NetTables
<1>6. CASE request = 1 /\ mode = "on" /\ due = 0
  <2>1. e.fired = <<2>> /\ e.next = Marked(k, "on", 0, 0)  BY <1>1, <1>6, Firings
  <2> QED  BY <1>2, <1>6, <2>1, NetTables
<1>7. CASE request = 1 /\ mode = "on" /\ due = 1
  <2>1. e.fired = <<2, 3>> /\ e.next = Marked(k, "off", 0, 0)  BY <1>1, <1>7, Firings
  <2> QED  BY <1>2, <1>7, <2>1, NetTables
<1> QED  BY <1>3, <1>4, <1>5, <1>6, <1>7

LEMMA BlinkNetChooses ==
  ASSUME NEW v \in Nets, NEW d, NEW mode \in Modes("blink"), NEW request \in Bit, NEW due \in Bit,
         mode = "off" => due = 0, d.at = Marked("blink", mode, request, due)
  PROVE  LET o == Evaluated("blink", v, d) IN
         /\ request = 0 /\ due = 0 => o = Chosen(d, Marked("blink", mode, 0, 0), <<>>)
         /\ request = 0 /\ due = 1 /\ mode = "x1" => o = Chosen(d, Marked("blink", "x1", 0, 0), <<"toggle">>)
         /\ request = 0 /\ due = 1 /\ mode = "x2" => o = Chosen(d, Marked("blink", "x2", 0, 0), <<"toggle">>)
         /\ request = 1 /\ mode = "off" => o = Chosen(d, Marked("blink", "x1", 0, 0), <<"enter_x1">>)
         /\ request = 1 /\ mode = "x1" /\ due = 0 => o = Chosen(d, Marked("blink", "x2", 0, 0), <<"enter_x2">>)
         /\ request = 1 /\ mode = "x1" /\ due = 1 => o = Chosen(d, Marked("blink", "x2", 0, 0), <<"enter_x2", "toggle">>)
         /\ request = 1 /\ mode = "x2" => o = Chosen(d, Marked("blink", "off", 0, due), <<"enter_off">>)
<1> DEFINE k == "blink"
           e == Outcome(k, v, d)
<1>1. /\ request = 0 /\ due = 0 => e = Under(k, mode, 0, 0, <<>>)
      /\ request = 0 /\ due = 1 /\ mode = "x1" => e = Under(k, "x1", 0, 0, <<4>>)
      /\ request = 0 /\ due = 1 /\ mode = "x2" => e = Under(k, "x2", 0, 0, <<5>>)
      /\ request = 1 /\ mode = "off" => e = Under(k, "x1", 0, 0, <<1>>)
      /\ request = 1 /\ mode = "x1" /\ due = 0 => e = Under(k, "x2", 0, 0, <<2>>)
      /\ request = 1 /\ mode = "x1" /\ due = 1 => e = Under(k, "x2", 0, 0, <<2, 5>>)
      /\ request = 1 /\ mode = "x2" => e = Under(k, "off", 0, due, <<3>>)
  BY BlinkFires
<1>2. /\ e.fired = <<>> => Evaluated(k, v, d) = Chosen(d, e.next, <<>>)
      /\ \A t : e.fired = <<t>> => Evaluated(k, v, d) = Chosen(d, e.next, <<Does(k, v, t)>>)
      /\ \A t, u : e.fired = <<t, u>> =>
           Evaluated(k, v, d) = Chosen(d, e.next, <<Does(k, v, t), Does(k, v, u)>>)
  BY Queued
<1> HIDE DEF e
<1>3. CASE request = 0 /\ due = 0
  <2>1. e.fired = <<>> /\ e.next = Marked(k, mode, 0, 0)  BY <1>1, <1>3, Firings
  <2> QED  BY <1>2, <1>3, <2>1, NetTables
<1>4. CASE request = 0 /\ due = 1 /\ mode = "x1"
  <2>1. e.fired = <<4>> /\ e.next = Marked(k, "x1", 0, 0)  BY <1>1, <1>4, Firings
  <2> QED  BY <1>2, <1>4, <2>1, NetTables
<1>5. CASE request = 0 /\ due = 1 /\ mode = "x2"
  <2>1. e.fired = <<5>> /\ e.next = Marked(k, "x2", 0, 0)  BY <1>1, <1>5, Firings
  <2> QED  BY <1>2, <1>5, <2>1, NetTables
<1>6. CASE request = 1 /\ mode = "off"
  <2>1. e.fired = <<1>> /\ e.next = Marked(k, "x1", 0, 0)  BY <1>1, <1>6, Firings
  <2> QED  BY <1>2, <1>6, <2>1, NetTables
<1>7. CASE request = 1 /\ mode = "x1" /\ due = 0
  <2>1. e.fired = <<2>> /\ e.next = Marked(k, "x2", 0, 0)  BY <1>1, <1>7, Firings
  <2> QED  BY <1>2, <1>7, <2>1, NetTables
<1>8. CASE request = 1 /\ mode = "x1" /\ due = 1
  <2>1. e.fired = <<2, 5>> /\ e.next = Marked(k, "x2", 0, 0)  BY <1>1, <1>8, Firings
  <2> QED  BY <1>2, <1>8, <2>1, NetTables
<1>9. CASE request = 1 /\ mode = "x2"
  <2>1. e.fired = <<3>> /\ e.next = Marked(k, "off", 0, due)  BY <1>1, <1>9, Firings
  <2> QED  BY <1>2, <1>9, <2>1, NetTables
<1> QED  BY <1>3, <1>4, <1>5, <1>6, <1>7, <1>8, <1>9

-----------------------------------------------------------------------------
(***************************************************************************)
(* The inductive invariant.  Of version v it says, with m for its mode, n  *)
(* for the mode it goes to in the commit, and due for a net's signal place *)
(* what its state, its queue and its timer are in each phase of a tick.    *)
(***************************************************************************)
L == node["fsm"].latched

(* A press has been latched, and its actions have not been done yet.       *)
Pressed == phase \in {"evaluate", "commit", "act"} /\ L

SharedInv ==
  /\ kind \in Kinds /\ setting \in Nat \ {0}
  /\ phase \in {"idle", "evaluate", "commit", "act", "dump"}
  /\ clock \in Nat /\ began \in Nat /\ began <= clock
  /\ late \in BOOLEAN
  /\ lamp \in [Versions -> BOOLEAN] /\ raced \in [Versions -> BOOLEAN]
  /\ since \in [Versions -> [from : Nat, to : Nat, span : Nat, lit : BOOLEAN]]
  /\ \A v \in Versions : since[v].from <= clock
  /\ event["net"] \in BOOLEAN /\ event = [v \in Versions |-> event["net"]]

PressInv ==
  /\ phase # "idle" /\ (L \/ late) => event["net"]
  /\ phase = "idle" /\ late => L \/ event["net"]

(* The state of version v in mode m, with r requests and due as u says.    *)
State(v, m, r, u) == IF v \in Machines THEN m ELSE Marked(kind, m, r, u)

States == Modes(kind) \cup {Marked(kind, m, r, u) : m \in Modes(kind), r \in Bit, u \in Bit}

Actions == {"none", "light_on", "light_off", "auto_on", "auto_off", "start_timer",
            "enter_x1", "enter_x2", "enter_off", "toggle"}

Queues == {<<>>} \cup {<<a>> : a \in Actions} \cup {<<a, b>> : a \in Actions, b \in Actions}

Data ==
  [at : States, next : States, todo : Queues, out : BOOLEAN, alarm : Int,
   armed : BOOLEAN, now : Int, latched : BOOLEAN, consumed : BOOLEAN]

(* What version v, on its way to mode x, has queued.                       *)
LightPlan(v, x, todo) ==
  todo = IF ~ L THEN <<>>
         ELSE IF v \in Nets THEN <<"none">>
         ELSE IF x = "on" THEN <<"light_on">> ELSE <<"light_off">>

AutoPlan(v, x, todo) ==
  IF v \in Machines
    THEN IF L THEN x = "on" /\ todo = <<"auto_on">>
         ELSE todo = <<>> \/ (x = "off" /\ todo = <<"auto_off">>)
    ELSE IF L THEN \/ x = "on" /\ todo = <<"start_timer">>
                   \/ x = "off" /\ raced[v] /\ todo = <<"start_timer", "none">>
         ELSE todo = <<>> \/ (x = "off" /\ todo = <<"none">>)

Entering(x) == CASE x = "x1" -> "enter_x1" [] x = "x2" -> "enter_x2" [] x = "off" -> "enter_off"

BlinkPlan(v, x, todo) ==
  IF L THEN \/ todo = <<Entering(x)>> /\ (x = "off" \/ ~ raced[v])
            \/ v \in Nets /\ x = "x2" /\ raced[v] /\ todo = <<"enter_x2", "toggle">>
       ELSE todo = <<>> \/ (x # "off" /\ todo = <<"toggle">>)

Plan(v, x, todo) ==
  /\ kind = "light" => LightPlan(v, x, todo)
  /\ kind = "auto" => AutoPlan(v, x, todo)
  /\ kind = "blink" => BlinkPlan(v, x, todo)

StateInv(v, m, n, due) ==
  LET d == node[v] IN
  /\ d \in Data
  /\ d.latched = L
  /\ d.at = State(v, m, IF L /\ phase \in {"evaluate", "commit"} THEN 1 ELSE 0, due)
  /\ (v \in Machines \/ kind = "light") => due = 0
  /\ phase = "evaluate" /\ m = "off" => due = 0
  /\ phase = "evaluate" /\ L /\ v \in Nets /\ kind # "light" => (raced[v] <=> due = 1)
  /\ phase = "commit" => \E u \in Bit : d.next = State(v, n, 0, u) /\ (kind = "light" => u = 0)
  /\ phase \in {"idle", "evaluate", "dump"} => d.todo = <<>>
  /\ phase = "commit" => Plan(v, n, d.todo)
  /\ phase = "act" => Plan(v, m, d.todo)
  /\ phase = "commit" /\ d.todo = <<>> => n = m
  /\ kind # "light" => d.now = Now(v, began)
  /\ v \in Machines /\ phase \in {"evaluate", "commit", "act"} => ~ d.consumed
  /\ v \in Machines /\ phase = "dump" => (d.consumed <=> L)
  /\ phase = "idle" => (lamp[v] <=> Level(kind, v, d))

LightInv(v, m) ==
  v \in Machines /\ ~ (phase = "act" /\ L) => (node[v].out <=> m = "on")

(* The timer of an auto light was set by an event that since tells of.     *)
Running(v) ==
  \E t \in since[v].from .. since[v].to :
    node[v].alarm = Now(v, t) + Span(v, since[v].span)

(* The light is to stay on in this tick, as far as the tick knows.         *)
StaysOn(m, n, due) ==
  CASE phase = "evaluate" -> m = "on" /\ due = 0
    [] phase = "commit"   -> n = "on"
    [] OTHER              -> m = "on"

AutoInv(v, m, n, due) ==
  LET d == node[v] IN
  /\ v \in Machines =>
       /\ phase # "act" => (d.out <=> m = "on")
       /\ phase = "act" /\ d.todo = <<>> => (d.out <=> m = "on")
  /\ v = "pyfsm" /\ Pressed =>
       /\ phase # "act" /\ m = "off" => ~ d.armed
       /\ d.armed => \E t \in began .. clock : d.alarm = Now(v, t) + Span(v, setting)
  /\ ~ Pressed =>
       IF StaysOn(m, n, due)
         THEN /\ Running(v) /\ d.armed
              /\ (phase # "evaluate" \/ v \in Nets) => began < OffBy(v)
         ELSE raced[v] \/ began >= OffFrom(v)

(* The blinking lamp has toggled k - 1 times since it was set going, or    *)
(* once more if a toggle was due that came all the same.                   *)
OnSchedule(v, m, k) ==
  LET d    == node[v]
      half == HalfPeriod(v, setting, m = "x2")
      from == Now(v, since[v].from)
  IN  /\ d.alarm = from + k * half
      /\ d.out <=> (since[v].lit <=> (k - 1) % 2 = 0)
      /\ from + (k - 1) * half <= Now(v, clock) \/ (raced[v] /\ k = 2)
      /\ IF Toggles(v) THEN d.now >= d.alarm \/ (raced[v] /\ k = 1)
                       ELSE raced[v] => k >= 2

BlinkInv(v, m, n) ==
  /\ phase = "commit" /\ ~ L => n = m
  /\ Pressed /\ v \in Machines => ~ raced[v]
  /\ ~ Pressed /\ m # "off" /\ (v = "fsm" => m = "x1") =>
       \E k \in Nat \ {0} : OnSchedule(v, m, k)

KindInv(v, m, n, due) ==
  /\ kind = "light" => LightInv(v, m)
  /\ kind = "auto" => AutoInv(v, m, n, due)
  /\ kind = "blink" => BlinkInv(v, m, n)

(* All versions share the mode, unless a timer ends it.                    *)
VersionInv(v, mode, next) ==
  \E m \in Modes(kind), n \in Modes(kind), due \in Bit :
    /\ StateInv(v, m, n, due)
    /\ KindInv(v, m, n, due)
    /\ kind # "auto" => m = mode /\ n = next

Inv ==
  /\ SharedInv
  /\ PressInv
  /\ \E mode \in Modes(kind), next \in Modes(kind) : \A v \in Versions : VersionInv(v, mode, next)

LEMMA MarkedFacts ==
  ASSUME NEW k \in Kinds, NEW mode \in Modes(k), NEW request \in Bit, NEW due \in Bit
  PROVE  LET at == Marked(k, mode, request, due) IN
         /\ at.off > 0 <=> mode = "off"
         /\ k # "blink" => (at.on > 0 <=> mode = "on")
         /\ k = "blink" => (at.x1 > 0 <=> mode = "x1") /\ (at.x2 > 0 <=> mode = "x2")
         /\ k = "blink" => mode \in {"off", "x1", "x2"}
         /\ k # "blink" => mode \in {"off", "on"}
         /\ at.request = request
         /\ k # "light" => at.due = due
<1>1. /\ "off" \in Places(k) /\ "request" \in Places(k)
      /\ k # "blink" => "on" \in Places(k)
      /\ k = "blink" => "x1" \in Places(k) /\ "x2" \in Places(k)
      /\ k # "light" => "due" \in Places(k)
      /\ mode # "request" /\ mode # "due"
  BY PlacesAre DEF Modes
<1>2. \A p \in Places(k) : Marked(k, mode, request, due)[p] =
        IF p = "request" THEN request ELSE IF p = "due" THEN due ELSE IF p = mode THEN 1 ELSE 0
  BY DEF Marked
<1> DEFINE at == Marked(k, mode, request, due)
<1> HIDE DEF at
<1>3. /\ at.off = IF mode = "off" THEN 1 ELSE 0
      /\ k # "blink" => at.on = IF mode = "on" THEN 1 ELSE 0
      /\ k = "blink" => at.x1 = IF mode = "x1" THEN 1 ELSE 0
      /\ k = "blink" => at.x2 = IF mode = "x2" THEN 1 ELSE 0
      /\ at.request = request
      /\ k # "light" => at.due = due
  BY <1>1, <1>2 DEF at
<1>4. (k = "blink" => mode \in {"off", "x1", "x2"}) /\ (k # "blink" => mode \in {"off", "on"})
  BY DEF Modes
<1> QED  BY <1>3, <1>4 DEF at

(* A latch changes the marking of request and of due, and no other place.  *)
LEMMA MarkedChanges ==
  ASSUME NEW k \in Kinds, NEW mode \in Modes(k), NEW request \in Bit, NEW due \in Bit, NEW new \in Bit
  PROVE  /\ [Marked(k, mode, request, due) EXCEPT !.request = new] = Marked(k, mode, new, due)
         /\ [Marked(k, mode, request, due) EXCEPT !.due = new] = Marked(k, mode, request, new)
<1>1. "request" \in Places(k) /\ mode # "request" /\ mode # "due"  BY PlacesAre DEF Modes
<1> QED  BY <1>1 DEF Marked

LEMMA VersionFacts ==
  /\ Versions = {"fsm", "pyfsm", "net", "pynet"}
  /\ Machines = {"fsm", "pyfsm"} /\ Nets = {"net", "pynet"}
BY DEF Versions, Machines, Nets

LEMMA HalfPeriodFacts ==
  ASSUME NEW v, NEW hz \in Nat \ {0}, NEW fast \in BOOLEAN
  PROVE  HalfPeriod(v, hz, fast) \in Nat \ {0}
<1> DEFINE by == IF fast THEN 2 * hz ELSE hz
<1>1. by \in Nat \ {0}  OBVIOUS
<1> HIDE DEF by
<1>2. ASSUME NEW n \in Nat PROVE n \div by \in Nat  BY <1>1
<1>3. 500000 \div by \in Nat /\ 500 \div by \in Nat  BY <1>2, SMT
<1> QED  BY <1>3, SMT DEF HalfPeriod, by, Us

(* Milliseconds are whole ones; nanoseconds are exact.                     *)
LEMMA NowFacts ==
  ASSUME NEW v, NEW t \in Nat
  PROVE  /\ Now(v, t) \in Nat
         /\ v = "fsm" => Now(v, t) = t
         /\ v # "fsm" => Ms * Now(v, t) <= t /\ t <= Ms * Now(v, t) + (Ms - 1)
<1> DEFINE q == t \div Ms
           r == t % Ms
<1>1. Ms \in Nat \ {0}  BY SMT DEF Ms
<1>2. q \in Int /\ r \in 0 .. Ms - 1 /\ t = Ms * q + r  BY <1>1, DivMod
<1>3. Now(v, t) = IF v = "fsm" THEN t ELSE q  BY DEF Now
<1>4. q \in Nat
  <2>1. ASSUME NEW p \in Nat \ {0} PROVE t \div p \in Nat  OBVIOUS
  <2> QED  BY <1>1, <2>1 DEF q
<1> HIDE DEF q, r
<1>5. Ms * q \in Int /\ Ms * q <= t /\ t <= Ms * q + (Ms - 1)  BY <1>1, <1>2, SMT
<1> QED  BY <1>2, <1>3, <1>4, <1>5

LEMMA NowGrows ==
  ASSUME NEW v, NEW a \in Nat, NEW b \in Nat, a <= b
  PROVE  Now(v, a) <= Now(v, b)
<1> DEFINE x == Now(v, a)
           y == Now(v, b)
<1>1. /\ x \in Nat /\ y \in Nat
      /\ v = "fsm" => x = a /\ y = b
      /\ v # "fsm" => Ms * x <= a /\ b <= Ms * y + (Ms - 1)
  BY NowFacts
<1> HIDE DEF x, y
<1>2. v # "fsm" => x <= y  BY <1>1, SMT DEF Ms
<1> QED  BY <1>1, <1>2 DEF x, y

LEMMA SpanFacts ==
  ASSUME NEW v, NEW s \in Nat
  PROVE  Span(v, s) \in Nat /\ (v = "fsm" => Span(v, s) = s * Ms) /\ (v # "fsm" => Span(v, s) = s)
BY SMT DEF Span, Ms

(* What a reading at b says of a timer that was set at t: for a version    *)
(* that counts milliseconds it may be over almost one early.               *)
LEMMA TimerFacts ==
  ASSUME NEW v, NEW b \in Nat, NEW t \in Nat, NEW s \in Nat
  PROVE  /\ Now(v, b) < Now(v, t) + Span(v, s) => b < t + s * Ms
         /\ Now(v, b) >= Now(v, t) + Span(v, s) =>
              b >= t + s * Ms - (IF v = "fsm" THEN 0 ELSE Ms - 1)
<1> DEFINE x == Now(v, b)
           y == Now(v, t)
           z == Span(v, s)
<1>1. /\ x \in Nat /\ y \in Nat /\ z \in Nat
      /\ v = "fsm" => x = b /\ y = t /\ z = s * Ms
      /\ v # "fsm" => /\ Ms * x <= b /\ b <= Ms * x + (Ms - 1)
                      /\ Ms * y <= t /\ t <= Ms * y + (Ms - 1)
                      /\ z = s
  BY NowFacts, SpanFacts
<1> HIDE DEF x, y, z
<1>2. v = "fsm" => /\ x < y + z => b < t + s * Ms
                   /\ x >= y + z => b >= t + s * Ms
  BY <1>1, SMT DEF Ms
<1>3. v # "fsm" => /\ x < y + z => b < t + s * Ms
                   /\ x >= y + z => b >= t + s * Ms - (Ms - 1)
  BY <1>1, SMT DEF Ms
<1> QED
  <2>1. /\ x < y + z => b < t + s * Ms
        /\ x >= y + z => b >= t + s * Ms - (IF v = "fsm" THEN 0 ELSE Ms - 1)
    <3>1. s * Ms \in Int  BY SMT DEF Ms
    <3> QED  BY <1>2, <1>3, <3>1
  <2> QED  BY <2>1 DEF x, y, z

(* The toggles in a queue of none, one or two actions.                     *)
LEMMA QueueFacts ==
  /\ ~ Contains(<<>>, "toggle")
  /\ \A a : Contains(<<a>>, "toggle") <=> a = "toggle"
  /\ \A a : Contains(<<a, "toggle">>, "toggle")
<1>1. 1 .. 0 = {} /\ 1 .. 1 = {1} /\ 1 .. 2 = {1, 2}  OBVIOUS
<1>2. ~ Contains(<<>>, "toggle")  BY <1>1 DEF Contains
<1>3. \A a : Contains(<<a>>, "toggle") <=> a = "toggle"  BY <1>1 DEF Contains
<1>4. ASSUME NEW a PROVE Contains(<<a, "toggle">>, "toggle")
  <2>1. Len(<<a, "toggle">>) = 2 /\ <<a, "toggle">>[2] = "toggle"  OBVIOUS
  <2> QED  BY <1>1, <2>1 DEF Contains
<1> QED  BY <1>2, <1>3, <1>4

(* A version is off as its mode says, whatever its other places hold.      *)
LEMMA StateFacts ==
  ASSUME NEW v \in Versions, kind \in Kinds, NEW m \in Modes(kind), NEW r \in Bit, NEW u \in Bit,
         NEW at, at = State(v, m, r, u)
  PROVE  /\ at \in States
         /\ IsOff(v, at) <=> m = "off"
         /\ kind = "blink" => \A d : d.at = at => (IsFast(v, d) <=> m = "x2")
         /\ v \in Machines => at = m
         /\ v \in Nets => /\ at = Marked(kind, m, r, u)
                          /\ kind # "light" => at.due = u
                          /\ kind # "blink" => (at.on > 0 <=> m = "on")
<1>1. v \in Machines <=> v \notin Nets  BY VersionFacts
<1>2. CASE v \in Machines  BY <1>1, <1>2 DEF State, States, IsOff, IsFast
<1>3. CASE v \in Nets
  <2> DEFINE mark == Marked(kind, m, r, u)
  <2>1. at = mark  BY <1>1, <1>3 DEF State
  <2>2. /\ mark.off > 0 <=> m = "off"
        /\ kind # "blink" => (mark.on > 0 <=> m = "on")
        /\ kind = "blink" => (mark.x2 > 0 <=> m = "x2")
        /\ kind # "light" => mark.due = u
    BY MarkedFacts
  <2>3. mark \in States  BY DEF States
  <2> HIDE DEF mark
  <2>4. \A d : d.at = at /\ kind = "blink" => (IsFast(v, d) <=> m = "x2")
    BY <1>3, <2>1, <2>2 DEF IsFast
  <2>5. IsOff(v, at) <=> m = "off"  BY <1>3, <2>1, <2>2 DEF IsOff
  <2> QED  BY <1>1, <1>3, <2>1, <2>2, <2>3, <2>4, <2>5 DEF mark
<1> QED  BY <1>1, <1>2, <1>3
-----------------------------------------------------------------------------
(* The types of what a version's invariant is about.                       *)
LEMMA VersionTypes ==
  ASSUME SharedInv, NEW v \in Versions, NEW m \in Modes(kind), NEW n, NEW due \in Bit,
         StateInv(v, m, n, due)
  PROVE  LET d == node[v] IN
         /\ d \in Data /\ d.out \in BOOLEAN /\ d.armed \in BOOLEAN /\ d.alarm \in Int /\ d.now \in Int
         /\ L \in BOOLEAN /\ d.latched = L /\ raced[v] \in BOOLEAN
         /\ since[v].from \in Nat /\ since[v].to \in Nat /\ since[v].span \in Nat
         /\ since[v].lit \in BOOLEAN /\ since[v].from <= clock
         /\ Pressed \in BOOLEAN /\ Toggles(v) \in BOOLEAN
BY DEF SharedInv, StateInv, Data, Pressed, Toggles

LEMMA InitHolds == Init => Inv
<1> SUFFICES ASSUME Init PROVE Inv
  OBVIOUS
<1>1. kind \in Kinds /\ setting \in Nat \ {0}
  <2>1. setting \in IF kind = "auto" THEN Timeouts ELSE Rates  BY DEF Init
  <2> QED  BY <2>1, SettingsAssumption DEF Init
<1>2. \A v \in Versions : /\ since[v] = [from |-> 0, to |-> 0, span |-> 0, lit |-> FALSE]
                          /\ raced[v] = FALSE /\ lamp[v] = FALSE /\ event[v] = FALSE
  BY DEF Init
<1>3. "off" \in Modes(kind) /\ 0 \in Bit  BY DEF Modes, Bit
<1>4. Marking(kind) = Marked(kind, "off", 0, 0)
  BY <1>1 DEF Marking, Marked, Places, Kinds
<1>5. \A v \in Versions :
        LET at == State(v, "off", 0, 0) IN
        node[v] = [at |-> at, next |-> at, todo |-> <<>>, out |-> FALSE, alarm |-> 0, armed |-> FALSE,
                   now |-> 0, latched |-> FALSE, consumed |-> FALSE]
  BY <1>4 DEF Init, Fresh, State
<1>6. SharedInv
  <2>1. since \in [Versions -> [from : Nat, to : Nat, span : Nat, lit : BOOLEAN]]
        /\ lamp \in [Versions -> BOOLEAN] /\ raced \in [Versions -> BOOLEAN]
    BY DEF Init
  <2>2. event = [v \in Versions |-> event["net"]] /\ event["net"] \in BOOLEAN
    BY VersionFacts DEF Init
  <2>3. clock = 0 /\ began = 0 /\ late = FALSE /\ phase = "idle"  BY DEF Init
  <2>4. \A v \in Versions : since[v].from <= clock  BY <1>2, <2>3
  <2>5. clock \in Nat /\ began \in Nat /\ began <= clock  BY <2>3
  <2>7. late \in BOOLEAN  BY <2>3
  <2>6. phase \in {"idle", "evaluate", "commit", "act", "dump"}  BY <2>3
  <2> QED  BY <1>1, <2>1, <2>2, <2>4, <2>5, <2>6, <2>7 DEF SharedInv
<1>7. PressInv /\ phase = "idle" /\ ~ Pressed  BY DEF Init, PressInv, Pressed
<1>8. ASSUME NEW v \in Versions PROVE VersionInv(v, "off", "off")
  <2> DEFINE d  == node[v]
             at == State(v, "off", 0, 0)
  <2>1. /\ d = [at |-> at, next |-> at, todo |-> <<>>, out |-> FALSE, alarm |-> 0, armed |-> FALSE,
                now |-> 0, latched |-> FALSE, consumed |-> FALSE]
        /\ since[v] = [from |-> 0, to |-> 0, span |-> 0, lit |-> FALSE]
        /\ raced[v] = FALSE /\ lamp[v] = FALSE
    BY <1>2, <1>5
  <2>2. at \in States /\ (v \in Nets => (kind # "blink" => ~ (at.on > 0)))
    BY <1>1, <1>3, StateFacts
  <2> HIDE DEF d, at
  <2>3. d \in Data
    <3>1. <<>> \in Queues  BY DEF Queues
    <3> QED  BY <2>1, <2>2, <3>1 DEF Data
  <2>4. L = FALSE /\ d.latched = FALSE
    <3>1. node["fsm"].latched = FALSE  BY <1>5, VersionFacts
    <3> QED  BY <2>1, <3>1 DEF L
  <2>5. Now(v, 0) = 0  BY NowFacts, SMT DEF Ms
  <2>6. Level(kind, v, d) = FALSE  BY <2>1, <2>2 DEF Level
  <2>7. clock = 0 /\ began = 0  BY DEF Init
  <2>8. StateInv(v, "off", "off", 0)
    <3>1. d.at = at /\ d.todo = <<>> /\ d.now = Now(v, began)  BY <2>1, <2>5, <2>7
    <3>2. lamp[v] <=> Level(kind, v, d)  BY <2>1, <2>6
    <3>3. node[v] \in Data /\ node[v].latched = L /\ node[v].at = State(v, "off", 0, 0)
          /\ node[v].todo = <<>> /\ node[v].now = Now(v, began) /\ (lamp[v] <=> Level(kind, v, node[v]))
      BY <2>3, <2>4, <3>1, <3>2 DEF d, at
    <3> QED  BY <1>7, <3>3 DEF StateInv
  <2>9. LightInv(v, "off")  BY <2>1 DEF LightInv, d
  <2>10. AutoInv(v, "off", "off", 0)
    <3>1. began >= OffFrom(v)
      <4>1. 0 * Ms = 0 /\ Ms - 1 >= 0 /\ Ms \in Nat  BY SMT DEF Ms
      <4> QED  BY <2>1, <2>7, <4>1 DEF OffFrom
    <3>2. v = "pyfsm" => ~ Pressed  BY <1>7
    <3> QED  BY <1>7, <2>1, <3>1, <3>2 DEF AutoInv, StaysOn, d
  <2>11. BlinkInv(v, "off", "off")  BY <1>7 DEF BlinkInv
  <2> QED  BY <1>3, <2>8, <2>9, <2>10, <2>11 DEF VersionInv, KindInv
<1> QED  BY <1>3, <1>6, <1>7, <1>8 DEF Inv

(* What the invariant of a version does not read may change.               *)
LEMMA Untouched ==
  ASSUME UNCHANGED <<kind, setting, phase, clock, began, node, lamp, raced, since>>,
         NEW v \in Versions, NEW mode, NEW next, VersionInv(v, mode, next)
  PROVE  VersionInv(v, mode, next)'
<1>1. PICK m \in Modes(kind), n \in Modes(kind), due \in Bit :
        StateInv(v, m, n, due) /\ KindInv(v, m, n, due) /\ (kind # "auto" => m = mode /\ n = next)
  BY DEF VersionInv
<1>2. L' = L /\ Pressed' = Pressed  BY DEF L, Pressed
<1>3. StateInv(v, m, n, due)'
  <2>1. Data' = Data  BY DEF Data, States
  <2>2. \A todo : Plan(v, n, todo)' <=> Plan(v, n, todo)
    BY <1>2 DEF Plan, LightPlan, AutoPlan, BlinkPlan
  <2>3. \A todo : Plan(v, m, todo)' <=> Plan(v, m, todo)
    BY <1>2 DEF Plan, LightPlan, AutoPlan, BlinkPlan
  <2>4. \A x, r, u : State(v, x, r, u)' = State(v, x, r, u)  BY DEF State
  <2> QED  BY <1>1, <1>2, <2>1, <2>2, <2>3, <2>4 DEF StateInv
<1>4. KindInv(v, m, n, due)'
  <2>1. Toggles(v)' <=> Toggles(v)  BY DEF Toggles
  <2>2. Running(v)' <=> Running(v)  BY DEF Running
  <2>3. \A k : OnSchedule(v, m, k)' <=> OnSchedule(v, m, k)  BY <2>1 DEF OnSchedule
  <2>4. OffBy(v)' = OffBy(v) /\ OffFrom(v)' = OffFrom(v)  BY DEF OffBy, OffFrom
  <2>5. LightInv(v, m)' <=> LightInv(v, m)  BY <1>2 DEF LightInv
  <2>6. AutoInv(v, m, n, due)' <=> AutoInv(v, m, n, due)
    BY <1>2, <2>2, <2>4 DEF AutoInv, StaysOn
  <2>7. BlinkInv(v, m, n)' <=> BlinkInv(v, m, n)  BY <1>2, <2>3 DEF BlinkInv
  <2> QED  BY <1>1, <2>5, <2>6, <2>7 DEF KindInv
<1> QED  BY <1>1, <1>3, <1>4 DEF VersionInv

LEMMA PressKeeps == Inv /\ Press => Inv'
<1> SUFFICES ASSUME Inv, Press PROVE Inv'
  OBVIOUS
<1>1. UNCHANGED <<kind, setting, phase, clock, began, node, lamp, raced, since>>
  BY DEF Press, timeVars
<1>2. PICK mode \in Modes(kind), next \in Modes(kind) : \A v \in Versions : VersionInv(v, mode, next)
  BY DEF Inv
<1>3. \A v \in Versions : VersionInv(v, mode, next)'  BY <1>1, <1>2, Untouched
<1>4. event' = [v \in Versions |-> TRUE] /\ event'["net"] = TRUE /\ late' \in BOOLEAN
  BY VersionFacts DEF Press, Inv, SharedInv
<1>5. SharedInv'
  <2>1. event' = [v \in Versions |-> event'["net"]] /\ event'["net"] \in BOOLEAN  BY <1>4
  <2> QED  BY <1>1, <1>4, <2>1 DEF Inv, SharedInv
<1>6. PressInv'  BY <1>4 DEF PressInv
<1> QED  BY <1>1, <1>2, <1>3, <1>5, <1>6 DEF Inv

LEMMA StutterKeeps == Inv /\ UNCHANGED vars => Inv'
<1> SUFFICES ASSUME Inv, UNCHANGED vars PROVE Inv'
  OBVIOUS
<1>1. /\ UNCHANGED <<kind, setting, phase, clock, began, node, lamp, raced, since>>
      /\ UNCHANGED <<event, late>>
  BY DEF vars, timeVars, nodeVars
<1>2. PICK mode \in Modes(kind), next \in Modes(kind) : \A v \in Versions : VersionInv(v, mode, next)
  BY DEF Inv
<1>3. \A v \in Versions : VersionInv(v, mode, next)'  BY <1>1, <1>2, Untouched
<1>4. SharedInv' /\ PressInv'  BY <1>1 DEF Inv, SharedInv, PressInv, L
<1> QED  BY <1>1, <1>2, <1>3, <1>4 DEF Inv

LEMMA CommitKeeps == Inv /\ Commit => Inv'
<1> SUFFICES ASSUME Inv, Commit PROVE Inv'
  OBVIOUS
<1>1. PICK mode \in Modes(kind), next \in Modes(kind) : \A v \in Versions : VersionInv(v, mode, next)
  BY DEF Inv
<1>2. /\ UNCHANGED <<kind, setting, clock, began, event, lamp, late, raced, since>>
      /\ phase = "commit" /\ phase' = "act"
  BY DEF Commit, timeVars
<1>3. \A v \in Versions : node'[v] = [node[v] EXCEPT !.at = node[v].next]  BY DEF Commit
<1>4. SharedInv  BY DEF Inv
<1>5. L' = L
  <2>1. node["fsm"] \in Data /\ node'["fsm"] = [node["fsm"] EXCEPT !.at = node["fsm"].next]
    BY <1>1, <1>3, VersionFacts DEF VersionInv, StateInv
  <2> QED  BY <2>1 DEF L, Data
<1>6. SharedInv' /\ PressInv'
  <2>1. SharedInv'  BY <1>2, <1>4 DEF SharedInv
  <2>2. PressInv'  BY <1>2, <1>5 DEF Inv, PressInv
  <2> QED  BY <2>1, <2>2
<1>7. ASSUME NEW v \in Versions PROVE VersionInv(v, next, next)'
  <2>1. PICK m \in Modes(kind), n \in Modes(kind), due \in Bit :
          StateInv(v, m, n, due) /\ KindInv(v, m, n, due) /\ (kind # "auto" => m = mode /\ n = next)
    BY <1>1 DEF VersionInv
  <2>d. PICK d : d = node[v]  OBVIOUS
  <2>e. PICK e : e = node'[v]  OBVIOUS
  <2>2. d \in Data /\ e = [d EXCEPT !.at = d.next]  BY <1>3, <2>d, <2>e, <2>1 DEF StateInv
  <2>3. PICK u \in Bit : d.next = State(v, n, 0, u) /\ (kind = "light" => u = 0)
    BY <1>2, <2>d, <2>1 DEF StateInv
  <2>4. PICK w \in Bit :
          /\ State(v, n, 0, u) = State(v, n, 0, w)
          /\ (v \in Machines \/ kind = "light") => w = 0
    BY <2>3 DEF State, Bit
  <2>5. State(v, n, 0, u) \in States /\ Data' = Data /\ State(v, n, 0, w)' = State(v, n, 0, w)
    <3>1. 0 \in Bit  BY DEF Bit
    <3>2. State(v, n, 0, u) \in States  BY <1>4, <2>3, <3>1, StateFacts DEF SharedInv
    <3> QED  BY <1>2, <3>2 DEF Data, States, State
  <2>6. /\ e \in Data /\ e.at = d.next /\ e.next = d.next /\ e.todo = d.todo /\ e.out = d.out
        /\ e.alarm = d.alarm /\ e.armed = d.armed /\ e.now = d.now /\ e.latched = d.latched
        /\ e.consumed = d.consumed
    BY <2>2, <2>3, <2>5 DEF Data
  <2>7. StateInv(v, n, n, w)'
    <3>1. Plan(v, n, d.todo) /\ d.latched = L /\ (kind # "light" => d.now = Now(v, began))
          /\ (v \in Machines => ~ d.consumed)
      BY <1>2, <2>d, <2>1 DEF StateInv
    <3>2. Plan(v, n, e.todo)'
      <4>1. \A todo : Plan(v, n, todo)' <=> Plan(v, n, todo)
        BY <1>2, <1>5 DEF Plan, LightPlan, AutoPlan, BlinkPlan
      <4> QED  BY <2>6, <3>1, <4>1
    <3>3. Plan(v, n, node[v].todo)'  BY <2>e, <3>2
    <3>4. /\ node'[v] \in Data' /\ node'[v].latched = L' /\ node'[v].at = State(v, n, 0, w)'
          /\ kind' # "light" => node'[v].now = Now(v, began')
          /\ v \in Machines => ~ node'[v].consumed
          /\ (v \in Machines \/ kind' = "light") => w = 0
      <4>0. e \in Data /\ e.at = State(v, n, 0, w)  BY <2>3, <2>4, <2>6
      <4>1. e \in Data' /\ e.at = State(v, n, 0, w)'  BY <2>5, <4>0
      <4>2. node'[v].latched = L'  BY <1>5, <2>e, <2>6, <3>1
      <4>3. (v \in Machines => ~ node'[v].consumed) /\ (kind' # "light" => node'[v].now = Now(v, began'))
        BY <1>2, <2>e, <2>6, <3>1
      <4> QED  BY <1>2, <2>e, <2>4, <4>1, <4>2, <4>3
    <3> QED  BY <1>2, <3>3, <3>4 DEF StateInv
  <2>8. Pressed' = Pressed /\ (Pressed <=> L)  BY <1>2, <1>5 DEF Pressed
  <2>9. d.todo = <<>> => n = m  BY <1>2, <2>d, <2>1 DEF StateInv
  <2>10. ASSUME kind = "light" PROVE KindInv(v, n, n, w)'
    <3>1. LightPlan(v, n, d.todo)  BY <1>2, <2>d, <2>1, <2>10 DEF StateInv, Plan
    <3>2. ~ L => n = m  BY <2>9, <3>1 DEF LightPlan
    <3>3. LightInv(v, n)'  BY <1>2, <2>d, <2>e, <1>5, <2>1, <2>6, <2>10, <3>2 DEF KindInv, LightInv
    <3> QED  BY <1>2, <2>10, <3>3 DEF KindInv
  <2>11. ASSUME kind = "auto" PROVE KindInv(v, n, n, w)'
    <3>1. AutoInv(v, m, n, due)  BY <2>1, <2>11 DEF KindInv
    <3>2. StaysOn(n, n, w)' = StaysOn(m, n, due)  BY <1>2 DEF StaysOn
    <3>3. Running(v)' <=> Running(v)  BY <1>2, <2>d, <2>e, <2>6 DEF Running
    <3>4. OffBy(v)' = OffBy(v) /\ OffFrom(v)' = OffFrom(v)  BY <1>2 DEF OffBy, OffFrom
    <3>5. AutoInv(v, n, n, w)'
      <4>1. v \in Machines => (e.todo = <<>> => (e.out <=> n = "on"))
        BY <1>2, <2>d, <2>6, <2>9, <3>1 DEF AutoInv
      <4>2. v = "pyfsm" /\ Pressed => (e.armed => \E t \in began .. clock : e.alarm = Now(v, t) + Span(v, setting))
        BY <2>d, <2>6, <3>1 DEF AutoInv
      <4>3. ~ Pressed => IF StaysOn(m, n, due) THEN Running(v) /\ e.armed /\ began < OffBy(v)
                         ELSE raced[v] \/ began >= OffFrom(v)
        BY <1>2, <2>d, <2>6, <3>1 DEF AutoInv
      <4>4. e.alarm = d.alarm /\ e.out = d.out /\ phase' = "act"  BY <1>2, <2>6
      <4>5. ~ Pressed' => (IF StaysOn(m, n, due) THEN Running(v)' /\ e.armed /\ began' < OffBy(v)'
                         ELSE raced'[v] \/ began' >= OffFrom(v)')
        BY <1>2, <2>8, <3>3, <3>4, <4>3
      <4>6. v = "pyfsm" /\ Pressed' => (e.armed => \E t \in began' .. clock' : e.alarm = Now(v, t) + Span(v, setting'))
        BY <1>2, <2>8, <4>2
      <4>7. AutoInv(v, m, n, due) /\ e = node'[v] /\ d = node[v]  BY <2>d, <2>e, <3>1
      <4> QED  BY <1>2, <2>8, <3>2, <4>1, <4>7, <4>4, <4>5, <4>6 DEF AutoInv
    <3> QED  BY <1>2, <2>11, <3>5 DEF KindInv
  <2>12. ASSUME kind = "blink" PROVE KindInv(v, n, n, w)'
    <3>1. BlinkInv(v, m, n)  BY <2>1, <2>12 DEF KindInv
    <3>2. ~ L => n = m  BY <1>2, <3>1 DEF BlinkInv
    <3>3. Toggles(v)' <=> Toggles(v)  BY <1>2, <2>d, <2>e, <2>6 DEF Toggles
    <3>4. \A k : OnSchedule(v, m, k)' <=> OnSchedule(v, m, k)  BY <1>2, <2>d, <2>e, <2>6, <3>3 DEF OnSchedule
    <3>5. BlinkInv(v, n, n)'  BY <1>2, <2>8, <3>1, <3>2, <3>4 DEF BlinkInv
    <3> QED  BY <1>2, <2>12, <3>5 DEF KindInv
  <2>13. KindInv(v, n, n, w)'  BY <1>4, <2>10, <2>11, <2>12 DEF SharedInv, Kinds
  <2>14. kind' # "auto" => n = next  BY <1>2, <2>1
  <2>15. Modes(kind') = Modes(kind)  BY <1>2
  <2> QED  BY <2>4, <2>7, <2>13, <2>14, <2>15 DEF VersionInv
<1> QED  BY <1>1, <1>2, <1>6, <1>7 DEF Inv

LEMMA DumpKeeps == Inv /\ Dump => Inv'
<1> SUFFICES ASSUME Inv, Dump PROVE Inv'
  OBVIOUS
<1>1. PICK mode \in Modes(kind), next \in Modes(kind) : \A v \in Versions : VersionInv(v, mode, next)
  BY DEF Inv
<1>2. /\ UNCHANGED <<kind, setting, clock, began, node, late, raced, since>>
      /\ phase = "dump" /\ phase' = "idle"
      /\ lamp' = [v \in Versions |-> Level(kind, v, node[v])]
      /\ event' = [v \in Versions |-> event[v] /\ ~ Clears(v, node[v])]
  BY DEF Dump, timeVars
<1>3. SharedInv  BY DEF Inv
<1>4. \A v \in Versions : /\ node[v] \in Data /\ node[v].latched = L
                          /\ v \in Machines => (node[v].consumed <=> L)
  BY <1>1, <1>2 DEF VersionInv, StateInv
<1>5. L' = L /\ L \in BOOLEAN /\ Pressed' = Pressed /\ ~ Pressed
  BY <1>2, <1>4, VersionFacts DEF L, Pressed, Data
<1>6. \A v \in Versions : event'[v] = (event["net"] /\ ~ L)
  <2>1. \A v \in Versions : Clears(v, node[v]) <=> L  BY <1>4, <1>5, VersionFacts DEF Clears
  <2>2. \A v \in Versions : event[v] = event["net"]  BY <1>3 DEF SharedInv
  <2>3. \A v \in Versions : event'[v] = (event[v] /\ ~ Clears(v, node[v]))  BY <1>2
  <2> QED  BY <2>1, <2>2, <2>3
<1>7. \A v \in Versions : lamp'[v] = Level(kind, v, node[v]) /\ Level(kind, v, node[v]) \in BOOLEAN
  <2>1. ASSUME NEW v \in Versions PROVE Level(kind, v, node[v]) \in BOOLEAN
    <3>1. node[v].out \in BOOLEAN /\ (node[v].at.on > 0) \in BOOLEAN  BY <1>4, <2>1 DEF Data
    <3> QED  BY <3>1 DEF Level
  <2> QED  BY <1>2, <2>1
<1>8. SharedInv'
  <2>1. lamp' \in [Versions -> BOOLEAN]  BY <1>2, <1>7
  <2>2. event' = [v \in Versions |-> event'["net"]] /\ event'["net"] \in BOOLEAN
    <3>1. event' = [v \in Versions |-> event'[v]]  BY <1>2
    <3>2. \A v \in Versions : event'[v] = event'["net"]  BY <1>6, VersionFacts
    <3>3. event'["net"] \in BOOLEAN  BY <1>6, VersionFacts
    <3> QED  BY <3>1, <3>2, <3>3
  <2> QED  BY <1>2, <1>3, <2>1, <2>2 DEF SharedInv
<1>9. PressInv'  BY <1>2, <1>5, <1>6, VersionFacts DEF Inv, PressInv
<1>10. ASSUME NEW v \in Versions PROVE VersionInv(v, mode, next)'
  <2>1. PICK m \in Modes(kind), n \in Modes(kind), due \in Bit :
          StateInv(v, m, n, due) /\ KindInv(v, m, n, due) /\ (kind # "auto" => m = mode /\ n = next)
    BY <1>1 DEF VersionInv
  <2>2. StateInv(v, m, n, due)'
    <3>1. Data' = Data /\ \A x, r, u : State(v, x, r, u)' = State(v, x, r, u)
      BY <1>2 DEF Data, States, State
    <3>2. lamp'[v] <=> Level(kind', v, node'[v])  BY <1>2, <1>7
    <3> QED  BY <1>2, <1>5, <2>1, <3>1, <3>2 DEF StateInv
  <2>3. LightInv(v, m) => LightInv(v, m)'  BY <1>2 DEF LightInv
  <2>4. AutoInv(v, m, n, due) => AutoInv(v, m, n, due)'
    <3>1. StaysOn(m, n, due)' = StaysOn(m, n, due)  BY <1>2 DEF StaysOn
    <3>2. Running(v)' <=> Running(v)  BY <1>2 DEF Running
    <3>3. OffBy(v)' = OffBy(v) /\ OffFrom(v)' = OffFrom(v)  BY <1>2 DEF OffBy, OffFrom
    <3> QED  BY <1>2, <1>5, <3>1, <3>2, <3>3 DEF AutoInv
  <2>5. BlinkInv(v, m, n) => BlinkInv(v, m, n)'
    <3>1. ~ Toggles(v)' /\ ~ Toggles(v)  BY <1>2 DEF Toggles
    <3>2. \A k : OnSchedule(v, m, k)' <=> OnSchedule(v, m, k)  BY <1>2, <3>1 DEF OnSchedule
    <3> QED  BY <1>2, <1>5, <3>2 DEF BlinkInv
  <2>6. KindInv(v, m, n, due)'  BY <1>2, <2>1, <2>3, <2>4, <2>5 DEF KindInv
  <2> QED  BY <1>2, <2>1, <2>2, <2>6 DEF VersionInv
<1> QED  BY <1>1, <1>2, <1>8, <1>9, <1>10 DEF Inv
-----------------------------------------------------------------------------
(* What a latch at t does to a machine, and to a net.                      *)
LEMMA MachineLatches ==
  ASSUME NEW v \in Machines, NEW d \in Data, NEW t \in Nat, NEW l, l = LatchOf(kind, v, d, t),
         event[v] \in BOOLEAN, kind \in Kinds, setting \in Nat
  PROVE  /\ l \in Data /\ l.at = d.at /\ l.todo = d.todo /\ l.out = d.out /\ ~ l.consumed
         /\ l.latched = event[v]
         /\ kind # "light" => l.now = Now(v, t)
         /\ kind # "auto" => l.alarm = d.alarm
         /\ kind = "auto" =>
              /\ l.alarm = IF event[v] THEN Now(v, t) + Span(v, setting) ELSE d.alarm
              /\ v = "fsm" => l.armed = d.armed
              /\ v = "pyfsm" => (l.armed <=> d.out /\ (event[v] \/ d.armed))
<1>1. v \notin Nets /\ (v = "fsm" \/ v = "pyfsm")  BY DEF Machines, Nets
<1>2. PICK now : now = Now(v, t)  OBVIOUS
<1>3. PICK alarm : alarm = IF event[v] THEN Now(v, t) + Span(v, setting) ELSE d.alarm  OBVIOUS
<1>4. now \in Int /\ alarm \in Int
  <2>1. Now(v, t) \in Nat /\ Span(v, setting) \in Nat /\ d.alarm \in Int
    BY NowFacts, SpanFacts DEF Data
  <2> QED  BY <1>2, <1>3, <2>1
<1>5. CASE kind # "auto"
  <2>1. l = [d EXCEPT !.latched = event[v], !.consumed = FALSE,
                      !.now = IF kind = "light" THEN @ ELSE now]
    BY <1>1, <1>2, <1>5 DEF LatchOf, MachineLatch
  <2> QED  BY <1>2, <1>4, <1>5, <2>1 DEF Data
<1>6. CASE kind = "auto"
  <2>1. PICK a : a = [d EXCEPT !.latched = event[v], !.consumed = FALSE, !.now = now]  OBVIOUS
  <2>2. a = MachineLatch("auto", v, d, t)  BY <1>2, <2>1 DEF MachineLatch
  <2>3. /\ a \in Data /\ a.at = d.at /\ a.todo = d.todo /\ a.out = d.out /\ a.armed = d.armed
        /\ a.latched = event[v] /\ a.consumed = FALSE /\ a.now = now /\ a.alarm = d.alarm
    BY <1>4, <2>1 DEF Data
  <2>4. PICK b : b = [a EXCEPT !.alarm = alarm]  OBVIOUS
  <2>5. b = AutoMachineLatch(v, d, t)  BY <1>3, <2>2, <2>3, <2>4 DEF AutoMachineLatch
  <2>6. /\ b \in Data /\ b.at = d.at /\ b.todo = d.todo /\ b.out = d.out /\ b.armed = d.armed
        /\ b.latched = event[v] /\ b.consumed = FALSE /\ b.now = now /\ b.alarm = alarm
    BY <1>4, <2>3, <2>4 DEF Data
  <2>7. CASE v = "fsm"
    <3>1. l = b  BY <1>1, <1>6, <2>5, <2>7 DEF LatchOf
    <3> QED  BY <1>2, <1>3, <1>6, <2>6, <2>7, <3>1
  <2>8. CASE v = "pyfsm"
    <3>1. l = [b EXCEPT !.armed = d.out /\ (event[v] \/ @)]
      BY <1>1, <1>6, <2>5, <2>8 DEF LatchOf, PyAutoLatch
    <3>2. d.out \in BOOLEAN /\ d.armed \in BOOLEAN /\ b.armed = d.armed  BY <2>6 DEF Data
    <3>3. PICK armed \in BOOLEAN : armed = (d.out /\ (event[v] \/ d.armed))  OBVIOUS
    <3>4. l = [b EXCEPT !.armed = armed]  BY <2>6, <3>1, <3>3 DEF Data
    <3>5. /\ l \in Data /\ l.at = d.at /\ l.todo = d.todo /\ l.out = d.out /\ l.armed = armed
          /\ l.latched = event[v] /\ l.consumed = FALSE /\ l.now = now /\ l.alarm = alarm
      BY <2>6, <3>4 DEF Data
    <3> QED  BY <1>2, <1>3, <1>6, <2>8, <3>3, <3>5
  <2> QED  BY <1>1, <2>7, <2>8
<1> QED  BY <1>5, <1>6

Asked(v) == IF event[v] THEN 1 ELSE 0

LEMMA NetLatches ==
  ASSUME NEW v \in Nets, NEW d \in Data, NEW t \in Nat, NEW l, l = LatchOf(kind, v, d, t),
         NEW mode \in Modes(kind), NEW due \in Bit, d.at = State(v, mode, 0, due),
         event[v] \in BOOLEAN, kind \in Kinds, kind = "light" => due = 0
  PROVE  \E u \in Bit :
           /\ l \in Data /\ l.at = State(v, mode, Asked(v), u)
           /\ l.todo = d.todo /\ l.out = d.out /\ l.alarm = d.alarm /\ l.armed = d.armed
           /\ l.latched = event[v]
           /\ kind # "light" => l.now = Now(v, t) /\ (u = 1 <=> Signal(kind, l))
           /\ kind = "light" => u = 0
           /\ mode = "off" => u = 0
           /\ kind = "auto" => (u = 1 <=> mode = "on" /\ d.armed /\ l.now >= d.alarm)
           /\ kind = "blink" /\ u = 1 => l.now >= d.alarm
<1>1. v \notin Machines /\ v \in Versions  BY VersionFacts
<1>2. 0 \in Bit /\ 1 \in Bit /\ Asked(v) \in Bit  BY DEF Bit, Asked
<1>3. d.at = Marked(kind, mode, 0, due) /\ Marked(kind, mode, 0, due).request = 0
  BY <1>1, <1>2, MarkedFacts DEF State
<1>4. PICK now : now = (IF kind = "light" THEN d.now ELSE Now(v, t)) /\ now \in Int
  <2>1. Now(v, t) \in Nat /\ d.now \in Int  BY NowFacts DEF Data
  <2> QED  BY <2>1
<1>5. PICK seen : seen = [d EXCEPT !.latched = event[v], !.now = now,
                                   !.at = Marked(kind, mode, Asked(v), due)]
  OBVIOUS
<1>6. NetLatch(kind, v, d, t) = IF kind = "light" THEN seen
                                ELSE [seen EXCEPT !.at.due = IF Signal(kind, seen) THEN 1 ELSE 0]
  <2>1. [Marked(kind, mode, 0, due) EXCEPT !.request = Asked(v)] = Marked(kind, mode, Asked(v), due)
    BY <1>2, MarkedChanges
  <2>2. 0 + Asked(v) = Asked(v) /\ Asked(v) = IF event[v] THEN 1 ELSE 0  BY DEF Asked
  <2>3. [d.at EXCEPT !.request = @ + Asked(v)] = Marked(kind, mode, Asked(v), due)
    BY <1>3, <2>1, <2>2
  <2>4. [d EXCEPT !.latched = event[v], !.now = IF kind = "light" THEN @ ELSE Now(v, t),
                  !.at.request = @ + (IF event[v] THEN 1 ELSE 0)]
        = [d EXCEPT !.latched = event[v], !.now = IF kind = "light" THEN d.now ELSE Now(v, t),
                    !.at = [d.at EXCEPT !.request = @ + (IF event[v] THEN 1 ELSE 0)]]
    BY DEF Data
  <2>5. [d EXCEPT !.latched = event[v], !.now = IF kind = "light" THEN @ ELSE Now(v, t),
                  !.at.request = @ + (IF event[v] THEN 1 ELSE 0)] = seen
    BY <1>4, <1>5, <2>2, <2>3, <2>4
  <2> QED  BY <2>5 DEF NetLatch
<1>7. l = NetLatch(kind, v, d, t)
  <2>1. v # "fsm" /\ v # "pyfsm"  BY DEF Nets
  <2> QED  BY <2>1 DEF LatchOf
<1>8. PICK u \in Bit : u = IF kind = "light" THEN 0 ELSE IF Signal(kind, seen) THEN 1 ELSE 0
  BY <1>2
<1>9. l = [d EXCEPT !.latched = event[v], !.now = now, !.at = Marked(kind, mode, Asked(v), u)]
  <2>1. CASE kind = "light"  BY <1>5, <1>6, <1>7, <1>8, <2>1
  <2>2. CASE kind # "light"
    <3>1. l = [seen EXCEPT !.at.due = u]  BY <1>6, <1>7, <1>8, <2>2
    <3>2. [Marked(kind, mode, Asked(v), due) EXCEPT !.due = u] = Marked(kind, mode, Asked(v), u)
      BY <1>2, MarkedChanges
    <3>3. seen.at = Marked(kind, mode, Asked(v), due)  BY <1>5 DEF Data
    <3>4. l = [seen EXCEPT !.at = Marked(kind, mode, Asked(v), u)]
      <4>1. [seen EXCEPT !.at.due = u] = [seen EXCEPT !.at = [seen.at EXCEPT !.due = u]]
        BY <1>5 DEF Data
      <4> QED  BY <3>1, <3>2, <3>3, <4>1
    <3> QED  BY <1>5, <3>4 DEF Data
  <2> QED  BY <2>1, <2>2
<1>10. Marked(kind, mode, Asked(v), u) \in States  BY <1>2 DEF States
<1>11. /\ l \in Data /\ l.at = Marked(kind, mode, Asked(v), u) /\ l.todo = d.todo /\ l.out = d.out
       /\ l.alarm = d.alarm /\ l.armed = d.armed /\ l.latched = event[v] /\ l.now = now
  <2> HIDE DEF Asked
  <2> QED  BY <1>4, <1>9, <1>10 DEF Data
<1>12. /\ seen.armed = d.armed /\ seen.alarm = d.alarm /\ seen.at = Marked(kind, mode, Asked(v), due)
       /\ seen.now = now
  BY <1>5 DEF Data
<1>13. kind = "auto" => /\ Signal(kind, seen) <=> mode = "on" /\ d.armed /\ now >= d.alarm
                        /\ Signal(kind, l) <=> mode = "on" /\ d.armed /\ now >= d.alarm
  <2>1. kind = "auto" => /\ Marked(kind, mode, Asked(v), due).on > 0 <=> mode = "on"
                         /\ Marked(kind, mode, Asked(v), u).on > 0 <=> mode = "on"
    BY <1>2, MarkedFacts
  <2> QED  BY <1>11, <1>12, <2>1 DEF Signal, AutoSignal
<1>14. kind = "blink" => /\ Signal(kind, seen) <=> mode # "off" /\ d.alarm > 0 /\ now >= d.alarm
                         /\ Signal(kind, l) <=> mode # "off" /\ d.alarm > 0 /\ now >= d.alarm
  <2>1. kind = "blink" =>
          /\ mode \in {"off", "x1", "x2"}
          /\ Marked(kind, mode, Asked(v), due).x1 > 0 <=> mode = "x1"
          /\ Marked(kind, mode, Asked(v), due).x2 > 0 <=> mode = "x2"
          /\ Marked(kind, mode, Asked(v), u).x1 > 0 <=> mode = "x1"
          /\ Marked(kind, mode, Asked(v), u).x2 > 0 <=> mode = "x2"
    BY <1>2, MarkedFacts
  <2> QED  BY <1>11, <1>12, <2>1 DEF Signal, BlinkSignal
<1>15. kind = "light" \/ kind = "auto" \/ kind = "blink"  BY DEF Kinds
<1>16. /\ kind # "light" => (u = 1 <=> Signal(kind, l))
       /\ kind = "light" => u = 0
       /\ mode = "off" => u = 0
       /\ kind = "auto" => (u = 1 <=> mode = "on" /\ d.armed /\ now >= d.alarm)
       /\ kind = "blink" /\ u = 1 => now >= d.alarm
  BY <1>8, <1>13, <1>14, <1>15
<1>17. l.at = State(v, mode, Asked(v), u) /\ (kind # "light" => l.now = Now(v, t))
  BY <1>1, <1>4, <1>11 DEF State
<1> QED  BY <1>11, <1>16, <1>17

LEMMA LatchKeeps == ASSUME NEW gap \in Gaps PROVE Inv /\ Latch(gap) => Inv'
<1> SUFFICES ASSUME Inv, Latch(gap) PROVE Inv'
  OBVIOUS
<1>1. PICK mode \in Modes(kind), next \in Modes(kind) : \A v \in Versions : VersionInv(v, mode, next)
  BY DEF Inv
<1>2. /\ UNCHANGED <<kind, setting, event, lamp, since>>
      /\ phase = "idle" /\ phase' = "evaluate" /\ late' = FALSE
      /\ clock' = clock + gap /\ began' = clock'
      /\ node' = [v \in Versions |-> LatchOf(kind, v, node[v], clock')]
      /\ raced' = [v \in Versions |->
           IF event[v] THEN v \in Nets /\ kind # "light" /\ Signal(kind, node'[v]) ELSE raced[v]]
  BY DEF Latch
<1>3. SharedInv  BY DEF Inv
<1>4. /\ gap \in Nat /\ clock \in Nat /\ clock' \in Nat /\ began \in Nat /\ clock <= clock'
      /\ began <= clock' /\ setting \in Nat \ {0} /\ kind \in Kinds
      /\ \A v \in Versions : event[v] = event["net"] /\ event[v] \in BOOLEAN
  <2>1. gap \in Nat  BY SettingsAssumption
  <2>2. /\ clock \in Nat /\ began \in Nat /\ began <= clock /\ setting \in Nat \ {0} /\ kind \in Kinds
        /\ \A v \in Versions : event[v] = event["net"] /\ event[v] \in BOOLEAN
    BY <1>3 DEF SharedInv
  <2> QED  BY <1>2, <2>1, <2>2
(* What the latch of any version leaves.                                   *)
<1>5. ASSUME NEW v \in Versions, NEW m \in Modes(kind), NEW n \in Modes(kind), NEW due \in Bit,
             StateInv(v, m, n, due)
      PROVE  \E u \in Bit :
               LET d == node[v]
                   e == node'[v]
               IN  /\ e \in Data /\ e.at = State(v, m, Asked(v), u)
                   /\ e.todo = <<>> /\ e.out = d.out /\ e.latched = event[v]
                   /\ v \in Machines => ~ e.consumed
                   /\ kind # "light" => e.now = Now(v, clock')
                   /\ v \in Machines \/ kind = "light" => u = 0
                   /\ v \in Nets /\ kind # "light" => (u = 1 <=> Signal(kind, e))
                   /\ m = "off" => u = 0
                   /\ kind # "auto" \/ v \in Nets \/ ~ event[v] => e.alarm = d.alarm
                   /\ kind = "auto" /\ v \in Machines /\ event[v] =>
                        e.alarm = Now(v, clock') + Span(v, setting)
                   /\ kind = "auto" /\ v # "pyfsm" => e.armed = d.armed
                   /\ v = "pyfsm" /\ kind = "auto" => (e.armed <=> d.out /\ (event[v] \/ d.armed))
                   /\ v \in Nets /\ kind = "auto" =>
                        (u = 1 <=> m = "on" /\ d.armed /\ e.now >= d.alarm)
                   /\ v \in Nets /\ kind = "blink" /\ u = 1 => e.now >= d.alarm
  <2>1. node[v] \in Data /\ node[v].at = State(v, m, 0, due) /\ node[v].todo = <<>>
        /\ (kind = "light" => due = 0)
    BY <1>2, <1>5 DEF StateInv
  <2>2. node'[v] = LatchOf(kind, v, node[v], clock')  BY <1>2
  <2>3. CASE v \in Machines
    <3>1. State(v, m, 0, due) = m /\ State(v, m, Asked(v), 0) = m /\ v \notin Nets /\ 0 \in Bit /\ 0 # 1
      BY <2>3, VersionFacts DEF State, Bit
    <3>2. v = "fsm" \/ v = "pyfsm"  BY <2>3, VersionFacts
    <3>3. PICK l : l = node'[v]  OBVIOUS
    <3>4. /\ l \in Data /\ l.at = node[v].at /\ l.todo = node[v].todo /\ l.out = node[v].out
          /\ ~ l.consumed /\ l.latched = event[v]
          /\ kind # "light" => l.now = Now(v, clock')
          /\ kind # "auto" => l.alarm = node[v].alarm
          /\ kind = "auto" =>
               /\ l.alarm = IF event[v] THEN Now(v, clock') + Span(v, setting) ELSE node[v].alarm
               /\ v = "fsm" => l.armed = node[v].armed
               /\ v = "pyfsm" => (l.armed <=> node[v].out /\ (event[v] \/ node[v].armed))
      <4>1. node[v] \in Data /\ clock' \in Nat /\ event[v] \in BOOLEAN /\ kind \in Kinds /\ setting \in Nat
        BY <1>4, <2>1
      <4>2. l = LatchOf(kind, v, node[v], clock')  BY <2>2, <3>3
      <4> QED  BY <2>3, <4>1, <4>2, MachineLatches
    <3>5. l.at = State(v, m, Asked(v), 0)  BY <2>1, <3>1, <3>4
    <3> QED  BY <2>1, <2>3, <3>1, <3>2, <3>3, <3>4, <3>5
  <2>4. CASE v \in Nets
    <3>1. v \notin Machines /\ v # "pyfsm"  BY <2>4, VersionFacts
    <3>2. PICK l : l = node'[v]  OBVIOUS
    <3>3. \E u \in Bit :
           /\ l \in Data /\ l.at = State(v, m, Asked(v), u)
           /\ l.todo = node[v].todo /\ l.out = node[v].out /\ l.alarm = node[v].alarm
           /\ l.armed = node[v].armed /\ l.latched = event[v]
           /\ kind # "light" => l.now = Now(v, clock') /\ (u = 1 <=> Signal(kind, l))
           /\ kind = "light" => u = 0
           /\ m = "off" => u = 0
           /\ kind = "auto" => (u = 1 <=> m = "on" /\ node[v].armed /\ l.now >= node[v].alarm)
           /\ kind = "blink" /\ u = 1 => l.now >= node[v].alarm
      BY <1>4, <2>1, <2>2, <2>4, <3>2, NetLatches
    <3> HIDE DEF Asked
    <3> QED  BY <2>1, <3>1, <3>2, <3>3
  <2> QED  BY <2>3, <2>4 DEF Versions
<1>6. \A v \in Versions : node'[v].latched = event["net"]
  BY <1>1, <1>4, <1>5 DEF VersionInv
<1>7. L' = event["net"]  BY <1>6, VersionFacts DEF L
<1>8. SharedInv'
  <2>1. raced' \in [Versions -> BOOLEAN]
    <3>1. ASSUME NEW v \in Versions PROVE raced'[v] \in BOOLEAN
      <4>1. raced[v] \in BOOLEAN /\ event[v] \in BOOLEAN  BY <1>3, <1>4 DEF SharedInv
      <4>2. raced'[v] = IF event[v] THEN v \in Nets /\ kind # "light" /\ Signal(kind, node'[v]) ELSE raced[v]
        BY <1>2
      <4> QED  BY <4>1, <4>2
    <3> QED  BY <1>2, <3>1
  <2>2. \A v \in Versions : since[v].from <= clock'
    <3>1. \A v \in Versions : since[v].from <= clock /\ since[v].from \in Nat  BY <1>3 DEF SharedInv
    <3> QED  BY <1>4, <3>1
  <2>3. late' \in BOOLEAN /\ phase' \in {"idle", "evaluate", "commit", "act", "dump"}
    BY <1>2
  <2>4. began' \in Nat /\ began' <= clock' /\ clock' \in Nat  BY <1>2, <1>4
  <2> QED  BY <1>2, <1>3, <2>1, <2>2, <2>3, <2>4 DEF SharedInv
<1>9. PressInv'  BY <1>2, <1>7 DEF PressInv
<1>10. ASSUME NEW v \in Versions PROVE VersionInv(v, mode, next)'
  <2>1. PICK m \in Modes(kind), n \in Modes(kind), due \in Bit :
          StateInv(v, m, n, due) /\ KindInv(v, m, n, due) /\ (kind # "auto" => m = mode /\ n = next)
    BY <1>1 DEF VersionInv
  <2>d. PICK d : d = node[v]  OBVIOUS
  <2>e. PICK e : e = node'[v]  OBVIOUS
  <2>2. PICK u \in Bit :
          /\ e \in Data /\ e.at = State(v, m, Asked(v), u)
          /\ e.todo = <<>> /\ e.out = d.out /\ e.latched = event[v]
          /\ v \in Machines => ~ e.consumed
          /\ kind # "light" => e.now = Now(v, clock')
          /\ v \in Machines \/ kind = "light" => u = 0
          /\ v \in Nets /\ kind # "light" => (u = 1 <=> Signal(kind, e))
          /\ m = "off" => u = 0
          /\ kind # "auto" \/ v \in Nets \/ ~ event[v] => e.alarm = d.alarm
          /\ kind = "auto" /\ v \in Machines /\ event[v] =>
               e.alarm = Now(v, clock') + Span(v, setting)
          /\ kind = "auto" /\ v # "pyfsm" => e.armed = d.armed
          /\ v = "pyfsm" /\ kind = "auto" => (e.armed <=> d.out /\ (event[v] \/ d.armed))
          /\ v \in Nets /\ kind = "auto" => (u = 1 <=> m = "on" /\ d.armed /\ e.now >= d.alarm)
          /\ v \in Nets /\ kind = "blink" /\ u = 1 => e.now >= d.alarm
    BY <1>5, <2>1, <2>d, <2>e
  <2>3. /\ d \in Data /\ d.out \in BOOLEAN /\ d.armed \in BOOLEAN /\ d.alarm \in Int
        /\ event[v] = event["net"] /\ event[v] \in BOOLEAN /\ L' = event[v] /\ raced[v] \in BOOLEAN
        /\ since[v].from \in Nat /\ since[v].to \in Nat /\ since[v].span \in Nat
        /\ since[v].lit \in BOOLEAN /\ since[v].from <= clock
    BY <1>3, <1>4, <1>7, <2>1, <2>d, VersionTypes
  <2>4. ~ Pressed /\ (Pressed' <=> event[v])  BY <1>2, <2>3 DEF Pressed
  <2>5. raced'[v] = IF event[v] THEN v \in Nets /\ kind # "light" /\ Signal(kind, e) ELSE raced[v]
    BY <1>2, <2>e
  <2>6. v \in Machines <=> v \notin Nets  BY VersionFacts
  <2>7. StateInv(v, m, n, u)'
    <3>1. e \in Data' /\ \A x, r, y : State(v, x, r, y)' = State(v, x, r, y)
      BY <1>2, <2>2 DEF Data, States, State
    <3>2. Asked(v) = IF L' /\ phase' \in {"evaluate", "commit"} THEN 1 ELSE 0
      BY <1>2, <2>3 DEF Asked
    <3>3. e.at = State(v, m, IF L /\ phase \in {"evaluate", "commit"} THEN 1 ELSE 0, u)'
      <4>1. PICK r : r = Asked(v)  OBVIOUS
      <4>2. e.at = State(v, m, r, u)'  BY <2>2, <3>1, <4>1
      <4> QED  BY <3>2, <4>1, <4>2
    <3>4. L' /\ v \in Nets /\ kind # "light" => (raced'[v] <=> u = 1)
      BY <2>2, <2>3, <2>5
    <3>5. e.latched = L'  BY <2>2, <2>3
    <3> QED  BY <1>2, <2>2, <2>e, <3>1, <3>3, <3>4, <3>5 DEF StateInv
  <2>8. ASSUME kind = "light" PROVE LightInv(v, m)'
    <3>1. LightInv(v, m)  BY <2>1, <2>8 DEF KindInv
    <3> QED  BY <1>2, <2>2, <2>d, <2>e, <3>1 DEF LightInv
  <2>9. ASSUME kind = "auto" PROVE AutoInv(v, m, n, u)'
    <3>1. AutoInv(v, m, n, due)  BY <2>1, <2>9 DEF KindInv
    <3>2. /\ v \in Machines => (d.out <=> m = "on")
          /\ StaysOn(m, n, due) <=> m = "on"
      BY <1>2, <2>d, <3>1 DEF AutoInv, StaysOn
    <3>3. IF m = "on" THEN Running(v) /\ d.armed /\ began < OffBy(v)
          ELSE raced[v] \/ began >= OffFrom(v)
      BY <1>2, <2>4, <2>d, <3>1, <3>2 DEF AutoInv
    <3>4. v \in Machines => (e.out <=> m = "on")  BY <2>2, <3>2
    <3>5. v = "pyfsm" /\ Pressed' =>
            /\ m = "off" => ~ e.armed
            /\ e.armed => \E t \in began' .. clock' : e.alarm = Now(v, t) + Span(v, setting')
      <4>1. v = "pyfsm" => v \in Machines  BY VersionFacts
      <4>2. clock' \in began' .. clock'  BY <1>2, <1>4
      <4> QED  BY <1>2, <2>2, <2>4, <2>9, <3>2, <4>1, <4>2
    <3>6. StaysOn(m, n, u)' <=> m = "on" /\ u = 0  BY <1>2 DEF StaysOn
    <3>7. OffBy(v)' = OffBy(v) /\ OffFrom(v)' = OffFrom(v)  BY <1>2 DEF OffBy, OffFrom
    <3>8. ASSUME ~ Pressed'
          PROVE  IF m = "on" /\ u = 0
                   THEN /\ Running(v)' /\ e.armed
                        /\ v \in Nets => began' < OffBy(v)
                   ELSE raced'[v] \/ began' >= OffFrom(v)
      <4>1. ~ event[v] /\ raced'[v] = raced[v] /\ e.alarm = d.alarm  BY <2>2, <2>4, <2>5, <3>8
      <4>2. Running(v)' <=> Running(v)  BY <1>2, <2>d, <2>e, <4>1 DEF Running
      <4>3. m = "on" => e.armed
        BY <2>2, <3>2, <3>3, <4>1, <2>9, VersionFacts
      <4>5. CASE m # "on"
        <5>1. began <= began' /\ began' \in Nat  BY <1>2, <1>4
        <5>2. OffFrom(v) \in Int  BY <2>3, SMT DEF OffFrom, Ms
        <5> QED  BY <1>4, <3>3, <4>1, <4>5, <5>1, <5>2
      <4>6. CASE m = "on"
        <5>1. PICK t \in since[v].from .. since[v].to : d.alarm = Now(v, t) + Span(v, since[v].span)
          BY <2>d, <3>3, <4>6 DEF Running
        <5>2. t \in Nat /\ began' \in Nat /\ t <= since[v].to /\ since[v].from <= t
          BY <1>2, <1>4, <2>3, <5>1
        <5>3. /\ Now(v, began') < d.alarm => began' < t + since[v].span * Ms
              /\ Now(v, began') >= d.alarm =>
                   began' >= t + since[v].span * Ms - (IF v = "fsm" THEN 0 ELSE Ms - 1)
          BY <2>3, <5>1, <5>2, TimerFacts
        <5>4. /\ Now(v, began') < d.alarm => began' < OffBy(v)
              /\ Now(v, began') >= d.alarm => began' >= OffFrom(v)
          <6>1. since[v].span * Ms \in Int /\ Ms - 1 \in Int  BY <2>3, SMT DEF Ms
          <6> QED  BY <2>3, <5>2, <5>3, <6>1 DEF OffBy, OffFrom
        <5>5. e.now = Now(v, began') /\ Now(v, began') \in Int  BY <1>2, <2>2, <2>9, <5>2, NowFacts
        <5>6. v \in Nets => (u = 1 <=> Now(v, began') >= d.alarm)
          BY <2>2, <2>9, <3>3, <4>6, <5>5
        <5>7. v \notin Nets => u = 0  BY <2>2, <2>6
        <5>8. u = 0 \/ u = 1  BY DEF Bit
        <5> QED  BY <2>3, <3>3, <4>2, <4>3, <4>6, <5>4, <5>5, <5>6, <5>7, <5>8
      <4> QED  BY <4>5, <4>6
    <3> QED  BY <1>2, <2>e, <3>4, <3>5, <3>6, <3>7, <3>8 DEF AutoInv
  <2>10. ASSUME kind = "blink" PROVE BlinkInv(v, m, n)'
    <3>1. BlinkInv(v, m, n)  BY <2>1, <2>10 DEF KindInv
    <3>2. Pressed' /\ v \in Machines => ~ raced'[v]  BY <2>4, <2>5, <2>6
    <3>3. ASSUME ~ Pressed', m # "off", v = "fsm" => m = "x1"
          PROVE  \E k \in Nat \ {0} : OnSchedule(v, m, k)'
      <4>1. raced'[v] = raced[v] /\ e.alarm = d.alarm /\ e.out = d.out
        BY <2>2, <2>4, <2>5, <2>10, <3>3
      <4>2. PICK k \in Nat \ {0} : OnSchedule(v, m, k)  BY <2>4, <3>1, <3>3 DEF BlinkInv
      <4>3. ~ Toggles(v)  BY <1>2 DEF Toggles
      <4>4. PICK half : half = HalfPeriod(v, setting, m = "x2")  OBVIOUS
      <4>5. PICK from : from = Now(v, since[v].from)  OBVIOUS
      <4>6. /\ d.alarm = from + k * half
            /\ d.out <=> (since[v].lit <=> (k - 1) % 2 = 0)
            /\ from + (k - 1) * half <= Now(v, clock) \/ (raced[v] /\ k = 2)
            /\ raced[v] => k >= 2
        BY <2>d, <4>2, <4>3, <4>4, <4>5 DEF OnSchedule
      <4>7. from + (k - 1) * half <= Now(v, clock') \/ (raced[v] /\ k = 2)
        <5>1. Now(v, clock) <= Now(v, clock') /\ Now(v, clock) \in Nat /\ Now(v, clock') \in Nat
              /\ from \in Nat
          BY <1>4, <2>3, <4>5, NowGrows, NowFacts
        <5>2. half \in Nat
          <6>1. (m = "x2") \in BOOLEAN  OBVIOUS
          <6> QED  BY <1>4, <4>4, <6>1, HalfPeriodFacts
        <5>3. (k - 1) * half \in Int  BY <5>2
        <5> QED  BY <4>6, <5>1, <5>3
      <4>8. Toggles(v)' => e.now >= d.alarm
        <5>1. Toggles(v)' => v \in Nets /\ e.at.due > 0  BY <1>2, <2>e DEF Toggles
        <5>2. v \in Nets => e.at.due = u
          <6>1. Asked(v) \in Bit  BY DEF Asked, Bit
          <6> QED  BY <1>4, <2>2, <2>10, <6>1, StateFacts
        <5>3. u = 0 \/ u = 1  BY DEF Bit
        <5> QED  BY <2>2, <2>10, <5>1, <5>2, <5>3
      <4>9. OnSchedule(v, m, k)'
        <5>1. node'[v].alarm = d.alarm /\ node'[v].out = d.out /\ node'[v].now = e.now
          BY <2>e, <4>1
        <5>2. HalfPeriod(v, setting', m = "x2") = half /\ Now(v, since'[v].from) = from
          BY <1>2, <4>4, <4>5
        <5> QED  BY <1>2, <4>1, <4>6, <4>7, <4>8, <5>1, <5>2 DEF OnSchedule
      <4> QED  BY <4>9
    <3> QED  BY <1>2, <3>2, <3>3 DEF BlinkInv
  <2>11. KindInv(v, m, n, u)'  BY <1>2, <2>8, <2>9, <2>10 DEF KindInv
  <2> QED  BY <1>2, <2>1, <2>7, <2>11 DEF VersionInv
<1> QED  BY <1>1, <1>2, <1>8, <1>9, <1>10 DEF Inv
-----------------------------------------------------------------------------
(* What an evaluation chooses in mode m, with r requests, for each kind.   *)
After(k, m) ==
  CASE k = "light" -> IF m = "off" THEN "on" ELSE "off"
    [] k = "blink" -> IF m = "off" THEN "x1" ELSE IF m = "x1" THEN "x2" ELSE "off"

LEMMA LightEvaluates ==
  ASSUME NEW v \in Versions, NEW d, NEW m \in Modes("light"), NEW r \in Bit, kind = "light",
         d.at = State(v, m, r, 0), d.latched \in BOOLEAN, r = 1 <=> d.latched
  PROVE  \E todo : LET n == IF d.latched THEN After("light", m) ELSE m IN
           /\ n \in Modes("light")
           /\ Evaluated(kind, v, d) = Chosen(d, State(v, n, 0, 0), todo)
           /\ todo = IF ~ d.latched THEN <<>>
                     ELSE IF v \in Nets THEN <<"none">>
                     ELSE IF n = "on" THEN <<"light_on">> ELSE <<"light_off">>
<1>1. m = "off" \/ m = "on"  BY DEF Modes
<1>2. After("light", "off") = "on" /\ After("light", "on") = "off"
      /\ "off" \in Modes("light") /\ "on" \in Modes("light")
  BY DEF After, Modes
<1>3. r = 0 \/ r = 1  BY DEF Bit
<1>4. CASE v \in Machines
  <2>1. \A x : State(v, x, 0, 0) = x /\ d.at = m /\ v \notin Nets
    BY <1>4, VersionFacts DEF State
  <2> QED  BY <1>1, <1>2, <1>4, <2>1, LightChooses
<1>5. CASE v \in Nets
  <2>1. \A x : State(v, x, 0, 0) = Marked("light", x, 0, 0)
        /\ d.at = Marked("light", m, r, 0) /\ v \notin Machines
    BY <1>5, VersionFacts DEF State
  <2> QED  BY <1>1, <1>2, <1>3, <1>5, <2>1, LightNetChooses
<1> QED  BY <1>4, <1>5 DEF Versions

(* The timer ends the light in this tick: a machine asks when it           *)
(* evaluates, a net has asked when it latched.                             *)
Ends(v, d, m, due) == IF v \in Nets THEN due = 1 ELSE m = "on" /\ Elapsed(v, d)

AutoChoice(v, d, m, due, n, todo) ==
  /\ Evaluated(kind, v, d) = Chosen(d, State(v, n, 0, 0), todo)
  /\ d.latched /\ v \in Machines => n = "on" /\ todo = <<"auto_on">>
  /\ d.latched /\ v \in Nets =>
       IF due = 1 THEN n = "off" /\ todo = <<"start_timer", "none">>
                  ELSE n = "on" /\ todo = <<"start_timer">>
  /\ ~ d.latched =>
       IF Ends(v, d, m, due)
         THEN n = "off" /\ todo = IF v \in Nets THEN <<"none">> ELSE <<"auto_off">>
         ELSE n = m /\ todo = <<>>

LEMMA AutoEvaluates ==
  ASSUME NEW v \in Versions, NEW d, NEW m \in Modes("auto"), NEW r \in Bit, NEW due \in Bit,
         kind = "auto", m = "off" => due = 0, v \in Machines => due = 0,
         d.at = State(v, m, r, due), d.latched \in BOOLEAN, r = 1 <=> d.latched
  PROVE  \E n \in Modes("auto") : \E todo : AutoChoice(v, d, m, due, n, todo)
<1>1. (m = "off" \/ m = "on") /\ "off" \in Modes("auto") /\ "on" \in Modes("auto")  BY DEF Modes
<1>2. (r = 0 \/ r = 1) /\ (due = 0 \/ due = 1)  BY DEF Bit
<1>3. CASE v \in Machines
  <2>1. \A x : State(v, x, 0, 0) = x /\ d.at = m /\ v \notin Nets
    BY <1>3, VersionFacts DEF State
  <2>2. Ends(v, d, m, due) <=> m = "on" /\ Elapsed(v, d)  BY <2>1 DEF Ends
  <2> QED  BY <1>1, <1>3, <2>1, <2>2, AutoChooses DEF AutoChoice
<1>4. CASE v \in Nets
  <2>1. \A x : State(v, x, 0, 0) = Marked("auto", x, 0, 0)
        /\ d.at = Marked("auto", m, r, due) /\ v \notin Machines
    BY <1>4, VersionFacts DEF State
  <2>2. Ends(v, d, m, due) <=> due = 1  BY <1>4 DEF Ends
  <2>3. LET o == Evaluated("auto", v, d) IN
         /\ r = 0 /\ due = 0 => o = Chosen(d, Marked("auto", m, 0, 0), <<>>)
         /\ r = 0 /\ due = 1 => o = Chosen(d, Marked("auto", "off", 0, 0), <<"none">>)
         /\ r = 1 /\ m = "off" => o = Chosen(d, Marked("auto", "on", 0, 0), <<"start_timer">>)
         /\ r = 1 /\ m = "on" /\ due = 0 => o = Chosen(d, Marked("auto", "on", 0, 0), <<"start_timer">>)
         /\ r = 1 /\ m = "on" /\ due = 1 => o = Chosen(d, Marked("auto", "off", 0, 0), <<"start_timer", "none">>)
    BY <1>4, <2>1, AutoNetChooses
  <2> QED  BY <1>1, <1>2, <1>4, <2>1, <2>2, <2>3 DEF AutoChoice
<1> QED  BY <1>3, <1>4 DEF Versions

(* The lamp toggles in this tick, in the same way.                         *)
Blinks(v, d, m, due) == IF v \in Nets THEN due = 1 ELSE m # "off" /\ ToggleDue(v, d)

BlinkChoice(v, d, m, due, n, u, todo) ==
  /\ n = IF d.latched THEN After("blink", m) ELSE m
  /\ Evaluated(kind, v, d) = Chosen(d, State(v, n, 0, u), todo)
  /\ d.latched => IF due = 1 /\ m = "x1" THEN todo = <<"enter_x2", "toggle">>
                  ELSE todo = <<Entering(n)>>
  /\ ~ d.latched => todo = IF Blinks(v, d, m, due) THEN <<"toggle">> ELSE <<>>

LEMMA BlinkEvaluates ==
  ASSUME NEW v \in Versions, NEW d, NEW m \in Modes("blink"), NEW r \in Bit, NEW due \in Bit,
         kind = "blink", m = "off" => due = 0, v \in Machines => due = 0,
         d.at = State(v, m, r, due), d.latched \in BOOLEAN, r = 1 <=> d.latched
  PROVE  \E n \in Modes("blink"), u \in Bit : \E todo : BlinkChoice(v, d, m, due, n, u, todo)
<1>1. (m = "off" \/ m = "x1" \/ m = "x2") /\ 0 \in Bit
      /\ "off" \in Modes("blink") /\ "x1" \in Modes("blink") /\ "x2" \in Modes("blink")
  BY DEF Modes, Bit
<1>2. (r = 0 \/ r = 1) /\ (due = 0 \/ due = 1)  BY DEF Bit
<1>3. /\ After("blink", "off") = "x1" /\ After("blink", "x1") = "x2" /\ After("blink", "x2") = "off"
      /\ Entering("x1") = "enter_x1" /\ Entering("x2") = "enter_x2" /\ Entering("off") = "enter_off"
  BY DEF After, Entering
<1>4. CASE v \in Machines
  <2>1. \A x : State(v, x, 0, 0) = x /\ d.at = m /\ v \notin Nets
    BY <1>4, VersionFacts DEF State
  <2>2. Blinks(v, d, m, due) <=> m # "off" /\ ToggleDue(v, d)  BY <2>1 DEF Blinks
  <2>3. LET o == Evaluated("blink", v, d) IN
         /\ d.latched /\ d.at = "off" => o = Chosen(d, "x1", <<"enter_x1">>)
         /\ d.latched /\ d.at = "x1" => o = Chosen(d, "x2", <<"enter_x2">>)
         /\ d.latched /\ d.at = "x2" => o = Chosen(d, "off", <<"enter_off">>)
         /\ ~ d.latched /\ d.at = "x1" /\ ToggleDue(v, d) => o = Chosen(d, "x1", <<"toggle">>)
         /\ ~ d.latched /\ d.at = "x2" /\ ToggleDue(v, d) => o = Chosen(d, "x2", <<"toggle">>)
         /\ ~ d.latched /\ (d.at = "off" \/ ~ ToggleDue(v, d)) => o = Chosen(d, d.at, <<>>)
    BY <1>4, <2>1, BlinkChooses
  <2> QED  BY <1>1, <1>3, <1>4, <2>1, <2>2, <2>3 DEF BlinkChoice
<1>5. CASE v \in Nets
  <2>1. \A x : \A u : State(v, x, 0, u) = Marked("blink", x, 0, u)
        /\ d.at = Marked("blink", m, r, due) /\ v \notin Machines
    BY <1>5, VersionFacts DEF State
  <2>2. Blinks(v, d, m, due) <=> due = 1  BY <1>5 DEF Blinks
  <2>3. LET o == Evaluated("blink", v, d) IN
         /\ r = 0 /\ due = 0 => o = Chosen(d, Marked("blink", m, 0, 0), <<>>)
         /\ r = 0 /\ due = 1 /\ m = "x1" => o = Chosen(d, Marked("blink", "x1", 0, 0), <<"toggle">>)
         /\ r = 0 /\ due = 1 /\ m = "x2" => o = Chosen(d, Marked("blink", "x2", 0, 0), <<"toggle">>)
         /\ r = 1 /\ m = "off" => o = Chosen(d, Marked("blink", "x1", 0, 0), <<"enter_x1">>)
         /\ r = 1 /\ m = "x1" /\ due = 0 => o = Chosen(d, Marked("blink", "x2", 0, 0), <<"enter_x2">>)
         /\ r = 1 /\ m = "x1" /\ due = 1 => o = Chosen(d, Marked("blink", "x2", 0, 0), <<"enter_x2", "toggle">>)
         /\ r = 1 /\ m = "x2" => o = Chosen(d, Marked("blink", "off", 0, due), <<"enter_off">>)
    BY <1>5, <2>1, BlinkNetChooses
  <2>4. ASSUME ~ d.latched
        PROVE Evaluated(kind, v, d) = Chosen(d, State(v, m, 0, 0), IF Blinks(v, d, m, due) THEN <<"toggle">> ELSE <<>>)
    BY <1>1, <1>2, <2>1, <2>2, <2>3, <2>4
  <2>5. ASSUME d.latched
        PROVE  \E u \in Bit : \E todo :
                 /\ After("blink", m) \in Modes("blink")
                 /\ Evaluated(kind, v, d) = Chosen(d, State(v, After("blink", m), 0, u), todo)
                 /\ IF due = 1 /\ m = "x1" THEN todo = <<"enter_x2", "toggle">>
                    ELSE todo = <<Entering(After("blink", m))>>
    BY <1>1, <1>2, <1>3, <2>1, <2>3, <2>5
  <2> QED  BY <1>1, <2>4, <2>5 DEF BlinkChoice
<1> QED  BY <1>4, <1>5 DEF Versions

LEMMA QueueTypes ==
  ASSUME NEW a \in Actions, NEW b \in Actions
  PROVE  <<>> \in Queues /\ <<a>> \in Queues /\ <<a, b>> \in Queues
BY DEF Queues

LEMMA ChosenFacts ==
  ASSUME NEW d \in Data, NEW next \in States, NEW todo \in Queues, NEW e,
         e = Chosen(d, next, todo)
  PROVE  /\ e \in Data /\ e.next = next /\ e.todo = todo /\ e.at = d.at /\ e.out = d.out
         /\ e.alarm = d.alarm /\ e.armed = d.armed /\ e.now = d.now /\ e.latched = d.latched
         /\ e.consumed = d.consumed
BY DEF Chosen, Data

LEMMA EvaluateKeeps == Inv /\ Evaluate => Inv'
<1> SUFFICES ASSUME Inv, Evaluate PROVE Inv'
  OBVIOUS
<1>1. PICK mode \in Modes(kind), next \in Modes(kind) : \A v \in Versions : VersionInv(v, mode, next)
  BY DEF Inv
<1>2. /\ UNCHANGED <<kind, setting, clock, began, event, lamp, late, raced, since>>
      /\ phase = "evaluate" /\ phase' = "commit"
  BY DEF Evaluate, timeVars
<1>3. SharedInv /\ kind \in Kinds  BY DEF Inv, SharedInv
<1>4. PICK goal : goal = IF kind = "auto" THEN mode ELSE IF L THEN After(kind, mode) ELSE mode
  OBVIOUS
(* What the evaluation of a version leaves, and the mode it goes to.       *)
<1>5. ASSUME NEW v \in Versions, NEW m \in Modes(kind), NEW n \in Modes(kind), NEW due \in Bit,
             StateInv(v, m, n, due), kind # "auto" => m = mode,
             kind = "blink" /\ L /\ v \in Machines => ~ raced[v]
      PROVE  \E g \in Modes(kind), u \in Bit, todo \in Queues :
               /\ node'[v] = Chosen(node[v], State(v, g, 0, u), todo)
               /\ kind = "light" => u = 0
               /\ kind # "auto" => g = goal
               /\ todo = <<>> => g = m
               /\ kind = "light" => LightPlan(v, g, todo)
               /\ kind = "auto" =>
                    /\ AutoPlan(v, g, todo)
                    /\ ~ L => IF Ends(v, node[v], m, due) THEN g = "off" ELSE g = m
               /\ kind = "blink" =>
                    /\ BlinkPlan(v, g, todo)
                    /\ ~ L => g = m /\ todo = IF Blinks(v, node[v], m, due) THEN <<"toggle">> ELSE <<>>
  <2>1. PICK r \in Bit : r = (IF L THEN 1 ELSE 0)  BY DEF Bit
  <2>2. PICK d : d = node[v]  OBVIOUS
  <2>3. /\ d.at = State(v, m, r, due) /\ d.latched = L /\ L \in BOOLEAN
        /\ (v \in Machines \/ kind = "light") => due = 0
        /\ m = "off" => due = 0
        /\ L /\ v \in Nets /\ kind # "light" => (raced[v] <=> due = 1)
    BY <1>2, <1>5, <2>1, <2>2 DEF StateInv, Data
  <2>4. r = 1 <=> d.latched  BY <2>1, <2>3
  <2>5. node'[v] = Evaluated(kind, v, d)  BY <2>2 DEF Evaluate
  <2>6. v \in Machines <=> v \notin Nets  BY VersionFacts
  <2>7. 0 \in Bit /\ (due = 0 \/ due = 1)  BY DEF Bit
  <2>8. CASE kind = "light"
    <3>1. d.at = State(v, m, r, 0) /\ m \in Modes("light")  BY <1>5, <2>3, <2>8
    <3>2. PICK todo : LET g == IF d.latched THEN After("light", m) ELSE m IN
           /\ g \in Modes("light")
           /\ Evaluated(kind, v, d) = Chosen(d, State(v, g, 0, 0), todo)
           /\ todo = IF ~ d.latched THEN <<>>
                     ELSE IF v \in Nets THEN <<"none">>
                     ELSE IF g = "on" THEN <<"light_on">> ELSE <<"light_off">>
      BY <2>3, <2>4, <2>8, <3>1, LightEvaluates
    <3>3. goal = IF L THEN After("light", m) ELSE m  BY <1>4, <1>5, <2>8
    <3>4. todo \in Queues
      <4>1. todo \in {<<>>, <<"none">>, <<"light_on">>, <<"light_off">>}  BY <3>2
      <4> QED  BY <4>1, QueueTypes DEF Actions
    <3>5. goal \in Modes(kind) /\ node'[v] = Chosen(node[v], State(v, goal, 0, 0), todo)
      BY <2>2, <2>3, <2>5, <2>8, <3>2, <3>3
    <3>6. LightPlan(v, goal, todo)  BY <2>3, <3>2, <3>3 DEF LightPlan
    <3>7. todo = <<>> => goal = m
      <4>1. <<"none">> # <<>> /\ <<"light_on">> # <<>> /\ <<"light_off">> # <<>>  OBVIOUS
      <4> QED  BY <2>3, <3>2, <3>3, <4>1
    <3> QED  BY <2>7, <2>8, <3>4, <3>5, <3>6, <3>7
  <2>9. CASE kind = "auto"
    <3>0. PICK g \in Modes("auto") : \E todo : AutoChoice(v, d, m, due, g, todo)
      BY <1>5, <2>3, <2>4, <2>9, AutoEvaluates
    <3>1. PICK todo : AutoChoice(v, d, m, due, g, todo)  BY <3>0
    <3>2. todo \in Queues
      <4>1. todo \in {<<>>, <<"none">>, <<"auto_on">>, <<"auto_off">>, <<"start_timer">>, <<"start_timer", "none">>}
        BY <2>6, <3>1 DEF AutoChoice
      <4> QED  BY <4>1, QueueTypes DEF Actions
    <3>3. AutoPlan(v, g, todo)  BY <2>3, <2>6, <3>1 DEF AutoPlan, AutoChoice
    <3>4. todo = <<>> => g = m
      <4>1. <<"none">> # <<>> /\ <<"auto_on">> # <<>> /\ <<"auto_off">> # <<>>
            /\ <<"start_timer">> # <<>> /\ <<"start_timer", "none">> # <<>>
        OBVIOUS
      <4> QED  BY <2>6, <3>1, <4>1 DEF AutoChoice
    <3>5. node'[v] = Chosen(node[v], State(v, g, 0, 0), todo)  BY <2>2, <2>5, <3>1 DEF AutoChoice
    <3>6. ~ L => IF Ends(v, node[v], m, due) THEN g = "off" ELSE g = m  BY <2>2, <2>3, <3>1 DEF AutoChoice
    <3>7. g \in Modes(kind)  BY <2>9
    <3> QED  BY <2>7, <2>9, <3>2, <3>3, <3>4, <3>5, <3>6, <3>7
  <2>10. CASE kind = "blink"
    <3>0. PICK g \in Modes("blink"), u \in Bit : \E todo : BlinkChoice(v, d, m, due, g, u, todo)
      <4>1. m \in Modes("blink") /\ d.latched \in BOOLEAN /\ d.at = State(v, m, r, due)
            /\ (m = "off" => due = 0) /\ (v \in Machines => due = 0)
        BY <1>5, <2>3, <2>10
      <4> QED  BY <2>4, <2>10, <4>1, BlinkEvaluates
    <3>1. PICK todo : BlinkChoice(v, d, m, due, g, u, todo)  BY <3>0
    <3>2. goal = IF L THEN After("blink", m) ELSE m  BY <1>4, <1>5, <2>10
    <3>3. goal \in Modes("blink") /\ node'[v] = Chosen(node[v], State(v, goal, 0, u), todo)
      BY <2>2, <2>3, <2>5, <3>1, <3>2 DEF BlinkChoice
    <3>4. Entering(goal) \in {"enter_x1", "enter_x2", "enter_off"}
      BY <3>3 DEF Entering, Modes
    <3>5. /\ L => IF due = 1 /\ m = "x1" THEN todo = <<"enter_x2", "toggle">>
                  ELSE todo = <<Entering(goal)>>
          /\ ~ L => goal = m /\ todo = IF Blinks(v, node[v], m, due) THEN <<"toggle">> ELSE <<>>
      BY <2>2, <2>3, <3>1, <3>2 DEF BlinkChoice
    <3>6. todo \in Queues
      <4>1. Entering(goal) \in Actions /\ "toggle" \in Actions /\ "enter_x2" \in Actions
        BY <3>4 DEF Actions
      <4>2. todo \in {<<>>, <<"toggle">>, <<Entering(goal)>>, <<"enter_x2", "toggle">>}  BY <2>3, <3>5
      <4> QED  BY <4>1, <4>2, QueueTypes
    <3>7. BlinkPlan(v, goal, todo)
      <4>1. CASE L
        <5>1. (m = "x1" => goal = "x2") /\ (m = "x2" => goal = "off") /\ (m = "off" => goal = "x1")
              /\ (m = "off" \/ m = "x1" \/ m = "x2")
          BY <1>5, <2>10, <3>2, <4>1 DEF After, Modes
        <5>2. v \in Machines => due = 0 /\ ~ raced[v]  BY <1>5, <2>3, <2>10, <4>1
        <5>3. v \in Nets => (raced[v] <=> due = 1)  BY <2>3, <2>10, <4>1
        <5> QED  BY <2>3, <2>6, <2>7, <3>5, <4>1, <5>1, <5>2, <5>3 DEF BlinkPlan
      <4>2. CASE ~ L
        <5>1. Blinks(v, node[v], m, due) => m # "off"
          <6>1. due = 1 => m # "off"  BY <2>3, <2>7
          <6> QED  BY <6>1 DEF Blinks
        <5> QED  BY <3>5, <4>2, <5>1 DEF BlinkPlan
      <4> QED  BY <4>1, <4>2
    <3>8. todo = <<>> => goal = m
      <4>1. <<"toggle">> # <<>> /\ <<Entering(goal)>> # <<>> /\ <<"enter_x2", "toggle">> # <<>>  OBVIOUS
      <4> QED  BY <2>3, <3>5, <4>1
    <3> QED  BY <2>10, <3>3, <3>5, <3>6, <3>7, <3>8
  <2> QED  BY <1>3, <2>8, <2>9, <2>10 DEF Kinds
<1>6. \A v \in Versions : node'[v].latched = node[v].latched /\ node[v].latched = L
  <2> SUFFICES ASSUME NEW v \in Versions PROVE node'[v].latched = node[v].latched /\ node[v].latched = L
    OBVIOUS
  <2>1. PICK m \in Modes(kind), n \in Modes(kind), due \in Bit :
          StateInv(v, m, n, due) /\ KindInv(v, m, n, due) /\ (kind # "auto" => m = mode /\ n = next)
    BY <1>1 DEF VersionInv
  <2>2. kind = "blink" /\ L /\ v \in Machines => ~ raced[v]
    BY <1>2, <2>1 DEF KindInv, BlinkInv, Pressed
  <2>3. PICK g \in Modes(kind), u \in Bit, todo \in Queues :
          node'[v] = Chosen(node[v], State(v, g, 0, u), todo)
    BY <1>5, <2>1, <2>2
  <2>4. node[v] \in Data /\ node[v].latched = L  BY <2>1 DEF StateInv
  <2> QED  BY <2>3, <2>4 DEF Chosen, Data
<1>7. L' = L  BY <1>6, VersionFacts DEF L
<1>8. SharedInv' /\ PressInv'
  <2>1. SharedInv'  BY <1>2, <1>3 DEF SharedInv
  <2>2. PressInv'  BY <1>2, <1>7 DEF Inv, PressInv
  <2> QED  BY <2>1, <2>2
<1>9. ASSUME NEW v \in Versions PROVE VersionInv(v, mode, goal)'
  <2>1. PICK m \in Modes(kind), n \in Modes(kind), due \in Bit :
          StateInv(v, m, n, due) /\ KindInv(v, m, n, due) /\ (kind # "auto" => m = mode /\ n = next)
    BY <1>1 DEF VersionInv
  <2>d. PICK d : d = node[v]  OBVIOUS
  <2>e. PICK e : e = node'[v]  OBVIOUS
  <2>2. kind = "blink" /\ L /\ v \in Machines => ~ raced[v]
    BY <1>2, <2>1 DEF KindInv, BlinkInv, Pressed
  <2>3. PICK g \in Modes(kind), u \in Bit, todo \in Queues :
          /\ e = Chosen(d, State(v, g, 0, u), todo)
          /\ kind = "light" => u = 0
          /\ kind # "auto" => g = goal
          /\ todo = <<>> => g = m
          /\ kind = "light" => LightPlan(v, g, todo)
          /\ kind = "auto" =>
               /\ AutoPlan(v, g, todo)
               /\ ~ L => IF Ends(v, d, m, due) THEN g = "off" ELSE g = m
          /\ kind = "blink" =>
               /\ BlinkPlan(v, g, todo)
               /\ ~ L => g = m /\ todo = IF Blinks(v, d, m, due) THEN <<"toggle">> ELSE <<>>
    BY <1>5, <2>1, <2>2, <2>d, <2>e
  <2>4. /\ d \in Data /\ d.out \in BOOLEAN /\ d.armed \in BOOLEAN /\ d.alarm \in Int /\ d.now \in Int
        /\ L \in BOOLEAN /\ d.latched = L /\ raced[v] \in BOOLEAN
        /\ since[v].from \in Nat /\ since[v].to \in Nat /\ since[v].span \in Nat
        /\ since[v].lit \in BOOLEAN /\ since[v].from <= clock
    BY <1>3, <2>1, <2>d, VersionTypes
  <2>5. State(v, g, 0, u) \in States
    <3>1. 0 \in Bit  BY DEF Bit
    <3>2. PICK at : at = State(v, g, 0, u)  OBVIOUS
    <3> QED  BY <1>3, <3>1, <3>2, StateFacts
  <2>6. /\ e \in Data /\ e.next = State(v, g, 0, u) /\ e.todo = todo /\ e.at = d.at /\ e.out = d.out
        /\ e.alarm = d.alarm /\ e.armed = d.armed /\ e.now = d.now /\ e.latched = d.latched
        /\ e.consumed = d.consumed
    BY <2>3, <2>4, <2>5, ChosenFacts
  <2>7. (Pressed <=> L) /\ Pressed' = Pressed  BY <1>2, <1>7, <2>4 DEF Pressed
  <2>8. v \in Machines <=> v \notin Nets  BY VersionFacts
  <2>9. /\ d.at = State(v, m, IF L THEN 1 ELSE 0, due)
        /\ (v \in Machines \/ kind = "light") => due = 0
        /\ m = "off" => due = 0
        /\ kind # "light" => d.now = Now(v, began)
        /\ v \in Machines => ~ d.consumed
    BY <1>2, <2>1, <2>d DEF StateInv
  <2>10. StateInv(v, m, g, due)'
    <3>1. e \in Data' /\ \A x, r, y : State(v, x, r, y)' = State(v, x, r, y)
      BY <1>2, <2>6 DEF Data, States, State
    <3>2. PICK r : r = IF L THEN 1 ELSE 0  OBVIOUS
    <3>3. e.at = State(v, m, r, due)' /\ e.next = State(v, g, 0, u)'
      BY <2>6, <2>9, <3>1, <3>2
    <3>4. Plan(v, g, e.todo)'
      <4>1. Plan(v, g, todo)  BY <2>3 DEF Plan
      <4>2. Plan(v, g, todo)' <=> Plan(v, g, todo)
        BY <1>2, <1>7 DEF Plan, LightPlan, AutoPlan, BlinkPlan
      <4> QED  BY <2>6, <4>1, <4>2
    <3>5. r = IF L' /\ phase' \in {"evaluate", "commit"} THEN 1 ELSE 0  BY <1>2, <1>7, <3>2
    <3>6. e.latched = L' /\ (v \in Machines => ~ e.consumed)  BY <1>7, <2>4, <2>6, <2>9
    <3>7. (kind' # "light" => e.now = Now(v, began')) /\ (e.todo = <<>> => g = m)
      BY <1>2, <2>3, <2>6, <2>9
    <3> HIDE DEF State
    <3> QED  BY <1>2, <2>3, <2>e, <2>9, <3>1, <3>3, <3>4, <3>5, <3>6, <3>7 DEF StateInv
  <2>11. ASSUME kind = "light" PROVE LightInv(v, m)'
    <3>1. LightInv(v, m)  BY <2>1, <2>11 DEF KindInv
    <3> QED  BY <1>2, <2>6, <2>d, <2>e, <3>1 DEF LightInv
  <2>12. ASSUME kind = "auto" PROVE AutoInv(v, m, g, due)'
    <3>1. AutoInv(v, m, n, due)  BY <2>1, <2>12 DEF KindInv
    <3>2. /\ v \in Machines => (e.out <=> m = "on")
          /\ StaysOn(m, n, due) <=> m = "on" /\ due = 0
          /\ StaysOn(m, g, due)' <=> g = "on"
      BY <1>2, <2>6, <2>d, <3>1 DEF AutoInv, StaysOn
    <3>3. v = "pyfsm" /\ Pressed' =>
            /\ m = "off" => ~ e.armed
            /\ e.armed => \E t \in began' .. clock' : e.alarm = Now(v, t) + Span(v, setting')
      BY <1>2, <2>6, <2>7, <2>d, <3>1 DEF AutoInv
    <3>4. Running(v)' <=> Running(v)  BY <1>2, <2>6, <2>d, <2>e DEF Running
    <3>5. OffBy(v)' = OffBy(v) /\ OffFrom(v)' = OffFrom(v)  BY <1>2 DEF OffBy, OffFrom
    <3>6. ASSUME ~ L
          PROVE  IF g = "on" THEN Running(v) /\ e.armed /\ began < OffBy(v)
                 ELSE raced[v] \/ began >= OffFrom(v)
      <4>1. IF m = "on" /\ due = 0
              THEN /\ Running(v) /\ d.armed
                   /\ v \in Nets => began < OffBy(v)
              ELSE raced[v] \/ began >= OffFrom(v)
        BY <1>2, <2>7, <2>d, <3>1, <3>2, <3>6 DEF AutoInv
      <4>2. m = "off" \/ m = "on"  BY <2>12 DEF Modes
      <4>3. due = 0 \/ due = 1  BY DEF Bit
      <4>4. IF Ends(v, d, m, due) THEN g = "off" ELSE g = m  BY <2>3, <2>12, <3>6
      <4>5. CASE v \in Nets
        <5>1. Ends(v, d, m, due) <=> due = 1  BY <4>5 DEF Ends
        <5> QED  BY <2>6, <4>1, <4>2, <4>3, <4>4, <4>5, <5>1
      <4>6. CASE v \in Machines
        <5>1. due = 0 /\ (Ends(v, d, m, due) <=> m = "on" /\ Elapsed(v, d))  BY <2>8, <2>9, <4>6 DEF Ends
        <5>2. CASE m = "off"  BY <4>1, <4>4, <5>1, <5>2
        <5>3. CASE m = "on"
          <6>1. Running(v) /\ d.armed  BY <4>1, <5>1, <5>3
          <6>2. Elapsed(v, d) <=> d.now >= d.alarm  BY <6>1 DEF Elapsed
          <6>3. PICK t \in since[v].from .. since[v].to : d.alarm = Now(v, t) + Span(v, since[v].span)
            BY <2>d, <6>1 DEF Running
          <6>4. t \in Nat /\ began \in Nat /\ t <= since[v].to /\ since[v].from <= t
            BY <1>3, <2>4, <6>3 DEF SharedInv
          <6>5. /\ Now(v, began) < d.alarm => began < t + since[v].span * Ms
                /\ Now(v, began) >= d.alarm =>
                     began >= t + since[v].span * Ms - (IF v = "fsm" THEN 0 ELSE Ms - 1)
            BY <2>4, <6>3, <6>4, TimerFacts
          <6>6. /\ Now(v, began) < d.alarm => began < OffBy(v)
                /\ Now(v, began) >= d.alarm => began >= OffFrom(v)
            <7>1. since[v].span * Ms \in Int /\ Ms - 1 \in Int  BY <2>4, SMT DEF Ms
            <7> QED  BY <2>4, <6>4, <6>5, <7>1 DEF OffBy, OffFrom
          <6>7. d.now = Now(v, began) /\ d.now \in Int  BY <2>4, <2>9, <2>12
          <6> QED  BY <2>4, <2>6, <4>4, <5>1, <5>3, <6>1, <6>2, <6>6, <6>7
        <5> QED  BY <4>2, <5>2, <5>3
      <4> QED  BY <4>5, <4>6, <2>8
    <3> QED  BY <1>2, <2>7, <2>e, <3>2, <3>3, <3>4, <3>5, <3>6 DEF AutoInv
  <2>13. ASSUME kind = "blink" PROVE BlinkInv(v, m, g)'
    <3>1. BlinkInv(v, m, n)  BY <2>1, <2>13 DEF KindInv
    <3>2. ~ L => g = m  BY <2>3, <2>13
    <3>3. Pressed /\ v \in Machines => ~ raced[v]  BY <2>2, <2>7, <2>13
    <3>4. ASSUME ~ L, m # "off", v = "fsm" => m = "x1"
          PROVE  \E k \in Nat \ {0} : OnSchedule(v, m, k)'
      <4>1. PICK k \in Nat \ {0} : OnSchedule(v, m, k)  BY <2>7, <3>1, <3>4 DEF BlinkInv
      <4>2. /\ d.alarm = Now(v, since[v].from) + k * HalfPeriod(v, setting, m = "x2")
            /\ d.out <=> (since[v].lit <=> (k - 1) % 2 = 0)
            /\ Now(v, since[v].from) + (k - 1) * HalfPeriod(v, setting, m = "x2") <= Now(v, clock)
                 \/ (raced[v] /\ k = 2)
            /\ IF Toggles(v) THEN d.now >= d.alarm \/ (raced[v] /\ k = 1) ELSE raced[v] => k >= 2
        BY <2>d, <4>1 DEF OnSchedule
      <4>3. Toggles(v) <=> v \in Nets /\ due = 1
        <5>1. Toggles(v) <=> v \in Nets /\ d.at.due > 0  BY <1>2, <2>d DEF Toggles
        <5>2. v \in Nets => d.at.due = due
          <6>1. 0 \in Bit /\ d.at = State(v, m, 0, due)  BY <2>9, <3>4 DEF Bit
          <6> QED  BY <1>3, <2>13, <6>1, StateFacts
        <5>3. due = 0 \/ due = 1  BY DEF Bit
        <5> QED  BY <5>1, <5>2, <5>3
      <4>4. Toggles(v)' <=> Blinks(v, d, m, due)
        <5>1. Toggles(v)' <=> Contains(todo, "toggle")  BY <1>2, <2>6, <2>e DEF Toggles
        <5>2. todo = IF Blinks(v, d, m, due) THEN <<"toggle">> ELSE <<>>  BY <2>3, <2>13, <3>4
        <5> QED  BY <5>1, <5>2, QueueFacts
      <4>5. IF Toggles(v)' THEN d.now >= d.alarm \/ (raced[v] /\ k = 1) ELSE raced[v] => k >= 2
        <5>1. CASE v \in Nets
          <6>1. Blinks(v, d, m, due) <=> due = 1  BY <5>1 DEF Blinks
          <6> QED  BY <4>2, <4>3, <4>4, <5>1, <6>1
        <5>2. CASE v \in Machines
          <6>1. ~ Toggles(v) /\ (Blinks(v, d, m, due) => d.now >= d.alarm)
            BY <2>8, <4>3, <5>2 DEF Blinks, ToggleDue
          <6> QED  BY <4>2, <4>4, <6>1
        <5> QED  BY <2>8, <5>1, <5>2
      <4>6. OnSchedule(v, m, k)'
        <5>1. node'[v].alarm = d.alarm /\ node'[v].out = d.out /\ node'[v].now = d.now
          BY <2>6, <2>e
        <5> QED  BY <1>2, <4>2, <4>5, <5>1 DEF OnSchedule
      <4> QED  BY <4>6
    <3> QED  BY <1>2, <1>7, <2>7, <3>2, <3>3, <3>4 DEF BlinkInv
  <2>14. KindInv(v, m, g, due)'  BY <1>2, <2>11, <2>12, <2>13 DEF KindInv
  <2>15. kind' # "auto" => m = mode /\ g = goal  BY <1>2, <2>1, <2>3
  <2>16. Modes(kind') = Modes(kind)  BY <1>2
  <2> QED  BY <2>10, <2>14, <2>15, <2>16 DEF VersionInv
<1>10. goal \in Modes(kind) \/ kind = "auto"
  BY <1>1, <1>3, <1>4 DEF After, Modes, Kinds
<1>11. goal \in Modes(kind)  BY <1>4, <1>10
<1> QED  BY <1>1, <1>2, <1>8, <1>9, <1>11 DEF Inv
-----------------------------------------------------------------------------
(* What each action leaves: x is d after action a at moment t.             *)
Kept(x, d) ==
  x.at = d.at /\ x.next = d.next /\ x.todo = d.todo /\ x.now = d.now /\ x.latched = d.latched

Outputs(x, d) ==
  x.out = d.out /\ x.alarm = d.alarm /\ x.armed = d.armed /\ x.consumed = d.consumed

(* x is what action a at moment t makes of d.                              *)
Effect(v, d, a, t, x) ==
  /\ x \in Data /\ Kept(x, d)
  /\ a = "none" => Outputs(x, d)
  /\ a = "light_on" => x.out /\ x.consumed
  /\ a = "light_off" => ~ x.out /\ x.consumed
  /\ a = "auto_on" =>
       /\ x.out /\ x.consumed /\ x.armed
       /\ v = "fsm" => x.alarm = d.now + Span(v, setting)
       /\ v = "pyfsm" => x.alarm = IF d.armed THEN d.alarm ELSE Now(v, t) + Span(v, setting)
  /\ a = "auto_off" => ~ x.out /\ ~ x.armed /\ x.consumed = d.consumed
  /\ a = "start_timer" =>
       /\ x.alarm = (IF v = "net" THEN d.now ELSE Now(v, t)) + setting
       /\ x.armed /\ x.out = d.out
  /\ a \in {"enter_x1", "enter_x2"} =>
       /\ x.out /\ x.consumed
       /\ x.alarm = d.now + HalfPeriod(v, setting, a = "enter_x2" /\ v # "fsm")
  /\ a = "enter_off" => x.consumed
  /\ a = "toggle" =>
       /\ x.out = ~ d.out /\ x.consumed = d.consumed
       /\ x.alarm = d.alarm + HalfPeriod(v, setting, IsFast(v, d))

LEMMA FastIsBoolean == ASSUME NEW v, NEW d PROVE IsFast(v, d) \in BOOLEAN
<1>1. (d.at.x2 > 0) \in BOOLEAN  OBVIOUS
<1>2. (d.at = "x2") \in BOOLEAN  OBVIOUS
<1> QED  BY <1>1, <1>2 DEF IsFast

LEMMA Doing ==
  ASSUME NEW v \in Versions, NEW d \in Data, NEW t \in Nat, NEW a \in Actions, NEW x,
         x = Do(v, d, a, t), setting \in Nat \ {0}
  PROVE  Effect(v, d, a, t, x)
<1>0. IsFast(v, d) \in BOOLEAN  BY FastIsBoolean
<1>1. /\ Now(v, t) \in Nat /\ Span(v, setting) \in Nat /\ setting \in Nat
      /\ d.now \in Int /\ d.alarm \in Int /\ d.out \in BOOLEAN /\ d.armed \in BOOLEAN
      /\ \A fast \in BOOLEAN : HalfPeriod(v, setting, fast) \in Nat
  BY NowFacts, SpanFacts, HalfPeriodFacts DEF Data
<1>2. \A on \in BOOLEAN : \E y \in Data :
        /\ y = Light(d, on) /\ Kept(y, d)
        /\ y.out = on /\ y.consumed /\ y.armed = d.armed /\ y.alarm = d.alarm
  <2> SUFFICES ASSUME NEW on \in BOOLEAN
               PROVE  \E y \in Data :
                        /\ y = Light(d, on) /\ Kept(y, d)
                        /\ y.out = on /\ y.consumed /\ y.armed = d.armed /\ y.alarm = d.alarm
    OBVIOUS
  <2>1. PICK y : y = [d EXCEPT !.out = on, !.consumed = TRUE]  OBVIOUS
  <2>2. y = Light(d, on)  BY <2>1 DEF Light
  <2>3. /\ y \in Data /\ Kept(y, d)
        /\ y.out = on /\ y.consumed /\ y.armed = d.armed /\ y.alarm = d.alarm
    BY <2>1 DEF Data, Kept
  <2> QED  BY <2>2, <2>3
<1>3. CASE a = "none"  BY <1>3 DEF Do, Kept, Outputs, Effect
<1>4. CASE a = "light_on"  BY <1>2, <1>4 DEF Do, Effect
<1>5. CASE a = "light_off"  BY <1>2, <1>5 DEF Do, Effect
<1>6. CASE a = "auto_on"
  <2>1. PICK y \in Data : /\ y = Light(d, TRUE) /\ Kept(y, d)
                          /\ y.out = TRUE /\ y.consumed /\ y.armed = d.armed /\ y.alarm = d.alarm
    BY <1>2
  <2>2. PICK z : z = [y EXCEPT !.armed = TRUE]  OBVIOUS
  <2>3. z \in Data /\ Kept(z, d) /\ z.out /\ z.consumed /\ z.armed /\ z.alarm = d.alarm
    BY <2>1, <2>2 DEF Data, Kept
  <2>4. x = CASE v = "fsm"                -> [z EXCEPT !.alarm = d.now + Span(v, setting)]
              [] v = "pyfsm" /\ ~ d.armed -> [z EXCEPT !.alarm = Now(v, t) + Span(v, setting)]
              [] OTHER                    -> z
    BY <1>6, <2>1, <2>2 DEF Do, AutoOn
  <2>5. CASE v = "fsm"
    <3>1. PICK al \in Int : al = d.now + Span(v, setting)  BY <1>1
    <3>2. x = [z EXCEPT !.alarm = al]  BY <2>4, <2>5, <3>1
    <3>3. x \in Data /\ Kept(x, d) /\ x.out /\ x.consumed /\ x.armed /\ x.alarm = al
      BY <2>3, <3>2 DEF Data, Kept
    <3> QED  BY <1>6, <2>5, <3>1, <3>3 DEF Effect
  <2>6. CASE v = "pyfsm" /\ ~ d.armed
    <3>1. PICK al \in Int : al = Now(v, t) + Span(v, setting)  BY <1>1
    <3>2. x = [z EXCEPT !.alarm = al]  BY <2>4, <2>6, <3>1
    <3>3. x \in Data /\ Kept(x, d) /\ x.out /\ x.consumed /\ x.armed /\ x.alarm = al
      BY <2>3, <3>2 DEF Data, Kept
    <3> QED  BY <1>6, <2>6, <3>1, <3>3 DEF Effect
  <2>7. CASE v # "fsm" /\ ~ (v = "pyfsm" /\ ~ d.armed)
    <3>1. x = z  BY <2>4, <2>7
    <3> QED  BY <1>1, <1>6, <2>3, <2>7, <3>1 DEF Effect
  <2> QED  BY <2>5, <2>6, <2>7
<1>7. CASE a = "auto_off"
  <2>1. x = [d EXCEPT !.out = FALSE, !.armed = FALSE]  BY <1>7 DEF Do
  <2>2. x \in Data /\ Kept(x, d) /\ ~ x.out /\ ~ x.armed /\ x.consumed = d.consumed
    BY <2>1 DEF Data, Kept
  <2> QED  BY <1>7, <2>2 DEF Effect
<1>8. CASE a = "start_timer"
  <2>1. PICK al \in Int : al = (IF v = "net" THEN d.now ELSE Now(v, t)) + setting
    <3>1. (IF v = "net" THEN d.now ELSE Now(v, t)) \in Int  BY <1>1
    <3> QED  BY <1>1, <3>1
  <2>2. x = [d EXCEPT !.alarm = al, !.armed = TRUE]  BY <1>8, <2>1 DEF Do, StartTimer
  <2>3. x \in Data /\ Kept(x, d) /\ x.alarm = al /\ x.armed /\ x.out = d.out
    BY <2>2 DEF Data, Kept
  <2> QED  BY <1>8, <2>1, <2>3 DEF Effect
<1>9. ASSUME a \in {"enter_x1", "enter_x2"}
      PROVE  /\ x \in Data /\ Kept(x, d) /\ x.out /\ x.consumed
             /\ x.alarm = d.now + HalfPeriod(v, setting, a = "enter_x2" /\ v # "fsm")
  <2>1. PICK y \in Data : y = Light(d, TRUE) /\ Kept(y, d) /\ y.out = TRUE /\ y.consumed
    BY <1>2
  <2>2. PICK fast \in BOOLEAN : fast = (a = "enter_x2" /\ v # "fsm")  OBVIOUS
  <2>3. PICK al \in Int : al = d.now + HalfPeriod(v, setting, fast)  BY <1>1
  <2>4. x = EnterBlink(v, d, fast)
    <3>1. CASE a = "enter_x1"
      <4>1. fast = FALSE  BY <2>2, <3>1
      <4> QED  BY <3>1, <4>1 DEF Do
    <3>2. CASE a = "enter_x2"
      <4>1. fast = (v # "fsm")  BY <2>2, <3>2
      <4> QED  BY <3>2, <4>1 DEF Do
    <3> QED  BY <1>9, <3>1, <3>2
  <2>5. x = [y EXCEPT !.alarm = al]  BY <2>1, <2>3, <2>4 DEF EnterBlink
  <2>6. x \in Data /\ Kept(x, d) /\ x.out /\ x.consumed /\ x.alarm = al
    BY <2>1, <2>5 DEF Data, Kept
  <2> QED  BY <2>2, <2>3, <2>6
<1>10. CASE a = "enter_off"
  <2>1. PICK y \in Data : y = Light(d, FALSE) /\ Kept(y, d) /\ y.consumed  BY <1>2
  <2>2. PICK al \in Int : al = 0  OBVIOUS
  <2>3. x = [y EXCEPT !.alarm = al]  BY <1>10, <2>1, <2>2 DEF Do
  <2>4. x \in Data /\ Kept(x, d) /\ x.consumed  BY <2>1, <2>3 DEF Data, Kept
  <2> QED  BY <1>10, <2>4 DEF Effect
<1>11. CASE a = "toggle"
  <2>1. PICK al \in Int : al = d.alarm + HalfPeriod(v, setting, IsFast(v, d))
    <3>1. HalfPeriod(v, setting, IsFast(v, d)) \in Nat  BY <1>0, <1>1
    <3> QED  BY <1>1, <3>1
  <2>2. PICK out \in BOOLEAN : out = ~ d.out  BY <1>1
  <2>3. x = [d EXCEPT !.out = ~ d.out, !.alarm = d.alarm + HalfPeriod(v, setting, IsFast(v, d))]
    BY <1>11 DEF Do, Toggle, Data
  <2>4. x = [d EXCEPT !.out = out, !.alarm = al]  BY <2>1, <2>2, <2>3
  <2>5. x \in Data /\ Kept(x, d) /\ x.out = out /\ x.consumed = d.consumed /\ x.alarm = al
    BY <2>4 DEF Data, Kept
  <2> QED  BY <1>11, <2>1, <2>2, <2>5 DEF Effect
<1>12. CASE a \in {"enter_x1", "enter_x2"}  BY <1>9, <1>12 DEF Effect
<1> QED  BY <1>3, <1>4, <1>5, <1>6, <1>7, <1>8, <1>10, <1>11, <1>12 DEF Actions

(* The queue is done in turn, and emptied: d becomes e.                    *)
Finished(v, d, t, e) ==
  /\ e \in Data /\ e.todo = <<>> /\ e.at = d.at /\ e.now = d.now /\ e.latched = d.latched
  /\ d.todo = <<>> => Outputs(e, d)
  /\ \A a \in Actions : d.todo = <<a>> => Outputs(e, Do(v, d, a, t))
  /\ \A a, b \in Actions : d.todo = <<a, b>> => Outputs(e, Do(v, Do(v, d, a, t), b, t))

LEMMA AllDone ==
  ASSUME NEW v \in Versions, NEW d \in Data, NEW t \in Nat, NEW e, e = DoAll(v, d, t),
         setting \in Nat \ {0}
  PROVE  Finished(v, d, t, e)
<1>1. \A x \in Data : LET y == [x EXCEPT !.todo = <<>>] IN
        /\ y \in Data /\ y.todo = <<>> /\ y.at = x.at /\ y.now = x.now /\ y.latched = x.latched
        /\ Outputs(y, x)
  <2>1. <<>> \in Queues  BY DEF Queues
  <2> QED  BY <2>1 DEF Data, Outputs
<1>2. ASSUME d.todo = <<>>
      PROVE  /\ e \in Data /\ e.todo = <<>> /\ e.at = d.at /\ e.now = d.now /\ e.latched = d.latched
             /\ Outputs(e, d)
  <2>1. e = [d EXCEPT !.todo = <<>>]  BY <1>2, DoneInTurn
  <2> QED  BY <1>1, <2>1
<1>3. ASSUME NEW a \in Actions, d.todo = <<a>>
      PROVE  /\ e \in Data /\ e.todo = <<>> /\ e.at = d.at /\ e.now = d.now /\ e.latched = d.latched
             /\ Outputs(e, Do(v, d, a, t))
  <2>1. PICK x : x = Do(v, d, a, t)  OBVIOUS
  <2>2. x \in Data /\ Kept(x, d)
    <3>1. Effect(v, d, a, t, x)  BY <2>1, Doing
    <3> QED  BY <3>1 DEF Effect
  <2>3. e = [x EXCEPT !.todo = <<>>]  BY <1>3, <2>1, DoneInTurn
  <2> QED  BY <1>1, <2>1, <2>2, <2>3 DEF Kept
<1>4. ASSUME NEW a \in Actions, NEW b \in Actions, d.todo = <<a, b>>
      PROVE  /\ e \in Data /\ e.todo = <<>> /\ e.at = d.at /\ e.now = d.now /\ e.latched = d.latched
             /\ Outputs(e, Do(v, Do(v, d, a, t), b, t))
  <2>1. PICK x : x = Do(v, d, a, t)  OBVIOUS
  <2>2. x \in Data /\ Kept(x, d)
    <3>1. Effect(v, d, a, t, x)  BY <2>1, Doing
    <3> QED  BY <3>1 DEF Effect
  <2>3. PICK y : y = Do(v, x, b, t)  OBVIOUS
  <2>4. y \in Data /\ Kept(y, x)
    <3>1. Effect(v, x, b, t, y)  BY <2>2, <2>3, Doing
    <3> QED  BY <3>1 DEF Effect
  <2>5. e = [y EXCEPT !.todo = <<>>]  BY <1>4, <2>1, <2>3, DoneInTurn
  <2>6. e \in Data /\ e.todo = <<>> /\ e.at = y.at /\ e.now = y.now /\ e.latched = y.latched
        /\ Outputs(e, y)
    BY <1>1, <2>4, <2>5
  <2>7. y.at = d.at /\ y.now = d.now /\ y.latched = d.latched  BY <2>2, <2>4 DEF Kept
  <2> QED  BY <2>1, <2>3, <2>6, <2>7
<1>5. d.todo = <<>> \/ (\E a \in Actions : d.todo = <<a>>)
      \/ (\E a \in Actions, b \in Actions : d.todo = <<a, b>>)
  BY DEF Data, Queues
<1> QED  BY <1>2, <1>3, <1>4, <1>5 DEF Finished

LEMMA Parity ==
  ASSUME NEW k \in Nat \ {0}
  PROVE  ((k + 1) - 1) % 2 = 0 <=> ~ ((k - 1) % 2 = 0)
<1> DEFINE q == k \div 2
           r == k % 2
           p == (k - 1) \div 2
           s == (k - 1) % 2
<1>1. /\ q \in Int /\ r \in 0 .. 1 /\ k = 2 * q + r
      /\ p \in Int /\ s \in 0 .. 1 /\ k - 1 = 2 * p + s
  BY DivMod
<1>2. (k + 1) - 1 = k  OBVIOUS
<1> HIDE DEF q, r, p, s
<1>3. r = 0 <=> s # 0  BY <1>1
<1> QED  BY <1>2, <1>3 DEF r, s

LEMMA ActKeeps == ASSUME NEW lag \in Lags PROVE Inv /\ Act(lag) => Inv'
<1> SUFFICES ASSUME Inv, Act(lag) PROVE Inv'
  OBVIOUS
<1>1. PICK mode \in Modes(kind), next \in Modes(kind) : \A v \in Versions : VersionInv(v, mode, next)
  BY DEF Inv
<1>2. /\ UNCHANGED <<kind, setting, began, event, lamp, late, raced>>
      /\ phase = "act" /\ phase' = "dump" /\ clock' = clock + lag
      /\ since' = [v \in Versions |->
           IF node[v].latched
             THEN [from |-> began, to |-> clock', span |-> setting, lit |-> TRUE]
             ELSE since[v]]
  BY DEF Act
<1>3. SharedInv  BY DEF Inv
<1>4. /\ lag \in Nat /\ clock \in Nat /\ clock' \in Nat /\ began \in Nat /\ clock <= clock'
      /\ began <= clock /\ began <= clock' /\ setting \in Nat \ {0} /\ kind \in Kinds
  <2>1. lag \in Nat  BY SettingsAssumption
  <2>2. clock \in Nat /\ began \in Nat /\ began <= clock /\ setting \in Nat \ {0} /\ kind \in Kinds
    BY <1>3 DEF SharedInv
  <2> QED  BY <1>2, <2>1, <2>2
<1>5. \A v \in Versions : node'[v] = DoAll(v, node[v], clock')  BY DEF Act
<1>6. ASSUME NEW v \in Versions
      PROVE  Finished(v, node[v], clock', node'[v]) /\ node[v].latched = L
  <2>1. node[v] \in Data /\ node[v].latched = L  BY <1>1, <1>6 DEF VersionInv, StateInv
  <2>2. PICK e : e = node'[v] /\ e = DoAll(v, node[v], clock')  BY <1>5
  <2>3. Finished(v, node[v], clock', e)  BY <1>4, <2>1, <2>2, AllDone
  <2> QED  BY <2>1, <2>2, <2>3
<1>7. L' = L /\ L \in BOOLEAN /\ ~ Pressed' /\ (Pressed <=> L)
  <2>1. node["fsm"] \in Data  BY <1>1, VersionFacts DEF VersionInv, StateInv
  <2>2. L' = L  BY <1>6, VersionFacts DEF L, Finished
  <2> QED  BY <1>2, <2>1, <2>2 DEF L, Data, Pressed
<1>8. \A v \in Versions :
        since'[v] = IF L THEN [from |-> began, to |-> clock', span |-> setting, lit |-> TRUE]
                    ELSE since[v]
  BY <1>2, <1>6
<1>9. SharedInv' /\ PressInv'
  <2>1. since' \in [Versions -> [from : Nat, to : Nat, span : Nat, lit : BOOLEAN]]
    <3>1. \A v \in Versions : since[v] \in [from : Nat, to : Nat, span : Nat, lit : BOOLEAN]
      BY <1>3 DEF SharedInv
    <3>2. [from |-> began, to |-> clock', span |-> setting, lit |-> TRUE]
            \in [from : Nat, to : Nat, span : Nat, lit : BOOLEAN]
      BY <1>4
    <3>3. \A v \in Versions : since'[v] \in [from : Nat, to : Nat, span : Nat, lit : BOOLEAN]
      BY <1>8, <3>1, <3>2
    <3> QED  BY <1>2, <3>3
  <2>2. \A v \in Versions : since'[v].from <= clock'
    <3> SUFFICES ASSUME NEW v \in Versions PROVE since'[v].from <= clock'
      OBVIOUS
    <3>1. since[v].from \in Nat /\ since[v].from <= clock  BY <1>3 DEF SharedInv
    <3>2. since'[v].from = IF L THEN began ELSE since[v].from  BY <1>8
    <3> QED  BY <1>4, <3>1, <3>2
  <2>3. phase' \in {"idle", "evaluate", "commit", "act", "dump"} /\ began' = began  BY <1>2
  <2>4. SharedInv'  BY <1>2, <1>3, <1>4, <2>1, <2>2, <2>3 DEF SharedInv
  <2>5. PressInv'  BY <1>2, <1>7 DEF Inv, PressInv
  <2> QED  BY <2>4, <2>5
<1>10. ASSUME NEW v \in Versions PROVE VersionInv(v, mode, next)'
  <2>1. PICK m \in Modes(kind), n \in Modes(kind), due \in Bit :
          StateInv(v, m, n, due) /\ KindInv(v, m, n, due) /\ (kind # "auto" => m = mode /\ n = next)
    BY <1>1 DEF VersionInv
  <2>d. PICK d : d = node[v]  OBVIOUS
  <2>e. PICK e : e = node'[v]  OBVIOUS
  <2>2. /\ e \in Data /\ e.todo = <<>> /\ e.at = d.at /\ e.now = d.now
        /\ e.latched = d.latched /\ d.latched = L
        /\ d.todo = <<>> => Outputs(e, d)
        /\ \A a \in Actions : d.todo = <<a>> => Outputs(e, Do(v, d, a, clock'))
        /\ \A a, b \in Actions :
             d.todo = <<a, b>> => Outputs(e, Do(v, Do(v, d, a, clock'), b, clock'))
    BY <1>6, <2>d, <2>e DEF Finished
  <2>3. /\ d \in Data /\ d.out \in BOOLEAN /\ d.armed \in BOOLEAN /\ d.alarm \in Int /\ d.now \in Int
        /\ raced[v] \in BOOLEAN
        /\ since[v].from \in Nat /\ since[v].to \in Nat /\ since[v].span \in Nat
        /\ since[v].lit \in BOOLEAN /\ since[v].from <= clock
    BY <1>3, <2>1, <2>d, VersionTypes
  <2>4. v \in Machines <=> v \notin Nets  BY VersionFacts
  <2>5. /\ d.at = State(v, m, 0, due) /\ Plan(v, m, d.todo)
        /\ (v \in Machines \/ kind = "light") => due = 0
        /\ kind # "light" => d.now = Now(v, began)
        /\ v \in Machines => ~ d.consumed
    BY <1>2, <2>1, <2>d DEF StateInv
  <2>6. \A c \in Data, a \in Actions : Effect(v, c, a, clock', Do(v, c, a, clock'))
    BY <1>4, Doing
  <2>7. /\ L => since'[v] = [from |-> began, to |-> clock', span |-> setting, lit |-> TRUE]
        /\ ~ L => since'[v] = since[v]
    BY <1>8
(* Every kind says what its actions leave of `consumed'.                   *)
  <2>8. ASSUME v \in Machines => (e.consumed <=> L) PROVE StateInv(v, m, n, due)'
    <3>1. e \in Data' /\ \A x, r, y : State(v, x, r, y)' = State(v, x, r, y)
      BY <1>2, <2>2 DEF Data, States, State
    <3>2. e.at = State(v, m, 0, due)'  BY <2>2, <2>5, <3>1
    <3>3. (kind' # "light" => e.now = Now(v, began')) /\ e.latched = L'  BY <1>2, <1>7, <2>2, <2>5
    <3>4. v \in Machines => (e.consumed <=> L')  BY <1>7, <2>8
    <3> QED  BY <1>2, <2>2, <2>5, <2>e, <3>1, <3>2, <3>3, <3>4 DEF StateInv
  <2>9. ASSUME kind = "light"
        PROVE  (v \in Machines => (e.consumed <=> L)) /\ LightInv(v, m)'
    <3>1. LightInv(v, m)  BY <2>1, <2>9 DEF KindInv
    <3>2. LightPlan(v, m, d.todo)  BY <2>5, <2>9 DEF Plan
    <3>3. m = "off" \/ m = "on"  BY <2>9 DEF Modes
    <3>4. ASSUME v \in Machines PROVE (e.consumed <=> L) /\ (e.out <=> m = "on")
      <4>1. CASE ~ L
        <5>1. d.todo = <<>> /\ (d.out <=> m = "on") /\ Outputs(e, d)
          BY <2>2, <2>d, <3>1, <3>2, <3>4, <4>1 DEF LightPlan, LightInv
        <5> QED  BY <2>5, <3>4, <4>1, <5>1 DEF Outputs
      <4>2. CASE L
        <5>1. PICK a \in Actions : d.todo = <<a>> /\ a = IF m = "on" THEN "light_on" ELSE "light_off"
          BY <2>4, <3>2, <3>4, <4>2 DEF LightPlan, Actions
        <5>2. PICK x : x = Do(v, d, a, clock')  OBVIOUS
        <5>3. Outputs(e, x)  BY <2>2, <5>1, <5>2
        <5>4. x.consumed /\ (m = "on" => x.out) /\ (m # "on" => ~ x.out)
          <6>1. Effect(v, d, a, clock', x)  BY <2>3, <2>6, <5>1, <5>2
          <6> QED  BY <5>1, <6>1 DEF Effect
        <5> QED  BY <4>2, <5>3, <5>4 DEF Outputs
      <4> QED  BY <4>1, <4>2
    <3>5. LightInv(v, m)'  BY <2>e, <3>4 DEF LightInv
    <3> QED  BY <3>4, <3>5
  <2>10. ASSUME kind = "auto"
         PROVE  (v \in Machines => (e.consumed <=> L)) /\ AutoInv(v, m, n, due)'
    <3>1. AutoInv(v, m, n, due)  BY <2>1, <2>10 DEF KindInv
    <3>2. AutoPlan(v, m, d.todo)  BY <2>5, <2>10 DEF Plan
    <3>3. m = "off" \/ m = "on"  BY <2>10 DEF Modes
    <3>4. StaysOn(m, n, due)' <=> m = "on"  BY <1>2 DEF StaysOn
    <3>5. setting * Ms \in Nat /\ setting * Ms > 0  BY <1>4, SMT DEF Ms
    <3>6. ASSUME v \in Machines PROVE (e.consumed <=> L) /\ (e.out <=> m = "on")
      <4>1. CASE d.todo = <<>>
        <5>1. ~ L
          <6>1. <<"auto_on">> # <<>>  OBVIOUS
          <6> QED  BY <3>2, <3>6, <4>1, <6>1 DEF AutoPlan
        <5>2. (d.out <=> m = "on") /\ Outputs(e, d)
          BY <1>2, <2>2, <2>d, <3>1, <3>6, <4>1 DEF AutoInv
        <5> QED  BY <2>5, <3>6, <5>1, <5>2 DEF Outputs
      <4>2. CASE L
        <5>1. d.todo = <<"auto_on">> /\ m = "on" /\ "auto_on" \in Actions
          BY <3>2, <3>6, <4>2 DEF AutoPlan, Actions
        <5>2. PICK x : x = Do(v, d, "auto_on", clock')  OBVIOUS
        <5>3. Outputs(e, x)  BY <2>2, <5>1, <5>2
        <5>4. x.consumed /\ x.out
          <6>1. Effect(v, d, "auto_on", clock', x)  BY <2>3, <2>6, <5>1, <5>2
          <6> QED  BY <6>1 DEF Effect
        <5> QED  BY <4>2, <5>1, <5>3, <5>4 DEF Outputs
      <4>3. CASE ~ L /\ d.todo # <<>>
        <5>1. d.todo = <<"auto_off">> /\ m = "off" /\ "auto_off" \in Actions
          BY <3>2, <3>6, <4>3 DEF AutoPlan, Actions
        <5>2. PICK x : x = Do(v, d, "auto_off", clock')  OBVIOUS
        <5>3. Outputs(e, x)  BY <2>2, <5>1, <5>2
        <5>4. ~ x.out /\ x.consumed = d.consumed
          <6>1. Effect(v, d, "auto_off", clock', x)  BY <2>3, <2>6, <5>1, <5>2
          <6> QED  BY <6>1 DEF Effect
        <5> QED  BY <2>5, <3>6, <4>3, <5>1, <5>3, <5>4 DEF Outputs
      <4> QED  BY <4>1, <4>2, <4>3
    <3>7. IF m = "on" THEN Running(v)' /\ e.armed /\ began' < OffBy(v)'
          ELSE raced'[v] \/ began' >= OffFrom(v)'
      <4>1. CASE ~ L
        <5>1. since'[v] = since[v]  BY <2>7, <4>1
        <5>2. IF m = "on" THEN Running(v) /\ d.armed /\ began < OffBy(v)
              ELSE raced[v] \/ began >= OffFrom(v)
          BY <1>2, <1>7, <2>d, <3>1, <4>1 DEF AutoInv, StaysOn
        <5>3. m = "on" => d.todo = <<>> /\ Outputs(e, d)
          BY <2>2, <2>4, <3>2, <3>3, <4>1 DEF AutoPlan
        <5>4. OffBy(v)' = OffBy(v) /\ OffFrom(v)' = OffFrom(v)  BY <5>1 DEF OffBy, OffFrom
        <5>5. m = "on" => Running(v)' /\ e.armed
          BY <2>d, <2>e, <5>1, <5>2, <5>3 DEF Running, Outputs
        <5> QED  BY <1>2, <5>2, <5>4, <5>5
      <4>2. CASE L /\ m = "on"
        <5>1. since'[v].from = began /\ since'[v].to = clock' /\ since'[v].span = setting
          BY <2>7, <4>2
        <5>2. PICK a \in Actions : d.todo = <<a>> /\ a = IF v \in Nets THEN "start_timer" ELSE "auto_on"
          BY <2>4, <3>2, <4>2 DEF AutoPlan, Actions
        <5>3. PICK x : x = Do(v, d, a, clock')  OBVIOUS
        <5>4. Outputs(e, x)  BY <2>2, <5>2, <5>3
        <5>5. began \in began .. clock' /\ clock' \in began .. clock'  BY <1>4
        <5>e. Effect(v, d, a, clock', x)  BY <2>3, <2>6, <5>2, <5>3
        <5>6. x.armed /\ \E t \in began .. clock' : x.alarm = Now(v, t) + Span(v, setting)
          <6>1. CASE v \in Nets
            <7>1. x.armed /\ x.alarm = (IF v = "net" THEN d.now ELSE Now(v, clock')) + setting
              BY <5>2, <5>e, <6>1 DEF Effect
            <7>2. Span(v, setting) = setting  BY <6>1, VersionFacts DEF Span
            <7> QED  BY <2>5, <2>10, <5>5, <7>1, <7>2
          <6>2. CASE v = "fsm"
            <7>1. v \notin Nets  BY <6>2, VersionFacts
            <7>2. x.armed /\ x.alarm = d.now + Span(v, setting)
              BY <5>2, <5>e, <6>2, <7>1 DEF Effect
            <7> QED  BY <2>5, <2>10, <5>5, <7>2
          <6>3. CASE v = "pyfsm"
            <7>1. v \notin Nets  BY <6>3, VersionFacts
            <7>2. x.armed /\ x.alarm = IF d.armed THEN d.alarm ELSE Now(v, clock') + Span(v, setting)
              BY <5>2, <5>e, <6>3, <7>1 DEF Effect
            <7>3. d.armed => \E t \in began .. clock : d.alarm = Now(v, t) + Span(v, setting)
              BY <1>7, <2>d, <3>1, <4>2, <6>3 DEF AutoInv
            <7>4. \A t \in began .. clock : t \in began .. clock'  BY <1>4
            <7> QED  BY <5>5, <7>2, <7>3, <7>4
          <6> QED  BY <6>1, <6>2, <6>3, VersionFacts
        <5>7. Running(v)' /\ e.armed  BY <2>e, <5>1, <5>4, <5>6 DEF Running, Outputs
        <5>8. began' < OffBy(v)'  BY <1>2, <1>4, <3>5, <5>1 DEF OffBy
        <5> QED  BY <4>2, <5>7, <5>8
      <4>3. CASE L /\ m = "off"
        <5>1. raced[v]  BY <3>2, <4>3 DEF AutoPlan
        <5> QED  BY <1>2, <4>3, <5>1
      <4> QED  BY <3>3, <4>1, <4>2, <4>3
    <3>8. AutoInv(v, m, n, due)'  BY <1>2, <1>7, <2>2, <2>e, <3>4, <3>6, <3>7 DEF AutoInv
    <3> QED  BY <3>6, <3>8
  <2>11. ASSUME kind = "blink"
         PROVE  (v \in Machines => (e.consumed <=> L)) /\ BlinkInv(v, m, n)'
    <3>1. BlinkInv(v, m, n)  BY <2>1, <2>11 DEF KindInv
    <3>2. BlinkPlan(v, m, d.todo)  BY <2>5, <2>11 DEF Plan
    <3>3. m = "off" \/ m = "x1" \/ m = "x2"  BY <2>11 DEF Modes
    <3>4. PICK half \in Nat : half = HalfPeriod(v, setting, m = "x2")
      <4>1. (m = "x2") \in BOOLEAN  OBVIOUS
      <4> QED  BY <1>4, <4>1, HalfPeriodFacts
    <3>5. \A c \in Data : c.at = d.at => HalfPeriod(v, setting, IsFast(v, c)) = half
      <4> SUFFICES ASSUME NEW c \in Data, c.at = d.at PROVE HalfPeriod(v, setting, IsFast(v, c)) = half
        OBVIOUS
      <4>1. 0 \in Bit  BY DEF Bit
      <4>2. IsFast(v, c) <=> m = "x2"  BY <1>4, <2>5, <2>11, <4>1, StateFacts
      <4>3. IsFast(v, c) = (m = "x2")  BY <4>2, FastIsBoolean
      <4> QED  BY <3>4, <4>3
    <3>6. "toggle" \in Actions /\ "enter_x2" \in Actions
          /\ Entering(m) \in Actions /\ Entering(m) \in {"enter_x1", "enter_x2", "enter_off"}
          /\ (m = "x1" => Entering(m) = "enter_x1") /\ (m = "x2" => Entering(m) = "enter_x2")
      BY <3>3 DEF Actions, Entering
    <3>7. ASSUME L, d.todo = <<Entering(m)>>
          PROVE  /\ e.consumed
                 /\ m # "off" /\ (v = "fsm" => m = "x1") => e.out /\ e.alarm = d.now + half
      <4>1. PICK x : x = Do(v, d, Entering(m), clock')  OBVIOUS
      <4>2. Outputs(e, x)  BY <2>2, <3>6, <3>7, <4>1
      <4>e. Effect(v, d, Entering(m), clock', x)  BY <2>3, <2>6, <3>6, <4>1
      <4>3. x.consumed  BY <3>6, <4>e DEF Effect
      <4>4. ASSUME m # "off", v = "fsm" => m = "x1" PROVE x.out /\ x.alarm = d.now + half
        <5>1. PICK a \in {"enter_x1", "enter_x2"} : a = Entering(m)  BY <3>3, <3>6, <4>4
        <5>2. x.out /\ x.alarm = d.now + HalfPeriod(v, setting, a = "enter_x2" /\ v # "fsm")
          BY <4>e, <5>1 DEF Effect
        <5>3. (a = "enter_x2" /\ v # "fsm") = (m = "x2")  BY <3>3, <3>6, <4>4, <5>1
        <5> QED  BY <3>4, <5>2, <5>3
      <4> QED  BY <4>2, <4>3, <4>4 DEF Outputs
    <3>8. ASSUME d.todo = <<"toggle">>
          PROVE  e.out = ~ d.out /\ e.alarm = d.alarm + half /\ e.consumed = d.consumed
      <4>1. PICK x : x = Do(v, d, "toggle", clock')  OBVIOUS
      <4>2. Outputs(e, x)  BY <2>2, <3>6, <3>8, <4>1
      <4>3. x.out = ~ d.out /\ x.consumed = d.consumed
            /\ x.alarm = d.alarm + HalfPeriod(v, setting, IsFast(v, d))
        <5>1. Effect(v, d, "toggle", clock', x)  BY <2>3, <2>6, <3>6, <4>1
        <5> QED  BY <5>1 DEF Effect
      <4> QED  BY <2>3, <3>5, <4>2, <4>3 DEF Outputs
    <3>9. ASSUME d.todo = <<"enter_x2", "toggle">>, m = "x2", v \in Nets
          PROVE  ~ e.out /\ e.alarm = d.now + half + half
      <4>1. PICK x : x = Do(v, d, "enter_x2", clock')  OBVIOUS
      <4>2. PICK y : y = Do(v, x, "toggle", clock')  OBVIOUS
      <4>3. Outputs(e, y)  BY <2>2, <3>6, <3>9, <4>1, <4>2
      <4>4. PICK a \in {"enter_x1", "enter_x2"} : a = "enter_x2"  OBVIOUS
      <4>5. /\ x \in Data /\ Kept(x, d) /\ x.out
            /\ x.alarm = d.now + HalfPeriod(v, setting, a = "enter_x2" /\ v # "fsm")
        <5>1. Effect(v, d, a, clock', x)  BY <2>3, <2>6, <3>6, <4>1, <4>4
        <5> QED  BY <4>4, <5>1 DEF Effect
      <4>6. (a = "enter_x2" /\ v # "fsm") = (m = "x2")  BY <3>9, <4>4, VersionFacts
      <4>7. y.out = ~ x.out /\ y.alarm = x.alarm + HalfPeriod(v, setting, IsFast(v, x))
        <5>1. Effect(v, x, "toggle", clock', y)  BY <2>6, <3>6, <4>2, <4>5
        <5> QED  BY <5>1 DEF Effect
      <4>8. HalfPeriod(v, setting, IsFast(v, x)) = half  BY <3>5, <4>5 DEF Kept
      <4> QED  BY <3>4, <4>3, <4>5, <4>6, <4>7, <4>8 DEF Outputs
    <3>10. v \in Machines => (e.consumed <=> L)
      <4>1. ASSUME v \in Machines, L PROVE e.consumed
        <5>1. d.todo = <<Entering(m)>>  BY <2>4, <3>2, <4>1 DEF BlinkPlan
        <5> QED  BY <3>7, <4>1, <5>1
      <4>2. ASSUME v \in Machines, ~ L PROVE ~ e.consumed
        <5>1. d.todo = <<>> \/ d.todo = <<"toggle">>  BY <3>2, <4>2 DEF BlinkPlan
        <5>2. d.todo = <<>> => e.consumed = d.consumed  BY <2>2 DEF Outputs
        <5> QED  BY <2>5, <3>8, <4>2, <5>1, <5>2
      <4> QED  BY <4>1, <4>2
    <3>11. ~ Toggles(v)'  BY <1>2 DEF Toggles
    <3>12. ASSUME m # "off", v = "fsm" => m = "x1"
           PROVE  \E k \in Nat \ {0} : OnSchedule(v, m, k)'
      <4>1. /\ Now(v, clock) \in Nat /\ Now(v, clock') \in Nat /\ Now(v, began) \in Nat
            /\ Now(v, clock) <= Now(v, clock') /\ Now(v, began) <= Now(v, clock')
        BY <1>4, NowGrows, NowFacts
(* What is left to show of the schedule after k - 1 toggles from `from'.   *)
      <4>2. ASSUME NEW k \in Nat \ {0}, NEW from \in Nat, from = Now(v, since'[v].from),
                   e.alarm = from + k * half,
                   e.out <=> (since'[v].lit <=> (k - 1) % 2 = 0),
                   from + (k - 1) * half <= Now(v, clock') \/ (raced[v] /\ k = 2),
                   raced[v] => k >= 2
            PROVE  OnSchedule(v, m, k)'
        <5>1. HalfPeriod(v, setting', m = "x2") = half /\ raced' = raced  BY <1>2, <3>4
        <5> QED  BY <2>e, <3>11, <4>2, <5>1 DEF OnSchedule
      <4>3. ASSUME L PROVE \E k \in Nat \ {0} : OnSchedule(v, m, k)'
        <5>1. since'[v].from = began /\ since'[v].lit = TRUE /\ d.now = Now(v, began)
          BY <2>5, <2>7, <2>11, <4>3
        <5>2. CASE d.todo = <<Entering(m)>> /\ ~ raced[v]
          <6>1. e.out /\ e.alarm = Now(v, began) + half  BY <3>7, <3>12, <4>3, <5>1, <5>2
          <6>2. PICK k \in Nat \ {0} : k = 1  OBVIOUS
          <6>3. k * half = half /\ (k - 1) * half = 0 /\ (k - 1) % 2 = 0  BY <3>4, <6>2
          <6>4. OnSchedule(v, m, k)'
            BY <4>1, <4>2, <5>1, <5>2, <6>1, <6>2, <6>3
          <6> QED  BY <6>4
        <5>3. CASE d.todo = <<"enter_x2", "toggle">> /\ m = "x2" /\ raced[v] /\ v \in Nets
          <6>1. ~ e.out /\ e.alarm = Now(v, began) + half + half  BY <3>9, <5>1, <5>3
          <6>2. PICK k \in Nat \ {0} : k = 2  OBVIOUS
          <6>3. k * half = half + half /\ ~ ((k - 1) % 2 = 0)  BY <3>4, <6>2
          <6>4. e.alarm = Now(v, began) + k * half  BY <3>4, <4>1, <6>1, <6>3
          <6>5. OnSchedule(v, m, k)'  BY <4>1, <4>2, <5>1, <5>3, <6>1, <6>2, <6>3, <6>4
          <6> QED  BY <6>5
        <5> QED  BY <3>2, <3>12, <4>3, <5>2, <5>3 DEF BlinkPlan
      <4>4. ASSUME ~ L PROVE \E k \in Nat \ {0} : OnSchedule(v, m, k)'
        <5>1. PICK k \in Nat \ {0} : OnSchedule(v, m, k)  BY <1>7, <3>1, <3>12, <4>4 DEF BlinkInv
        <5>2. PICK from \in Nat : from = Now(v, since[v].from)  BY <2>3, NowFacts
        <5>3. since'[v] = since[v] /\ d.now = Now(v, began)  BY <2>5, <2>7, <2>11, <4>4
        <5>4. /\ d.alarm = from + k * half
              /\ d.out <=> (since[v].lit <=> (k - 1) % 2 = 0)
              /\ from + (k - 1) * half <= Now(v, clock) \/ (raced[v] /\ k = 2)
              /\ IF Toggles(v) THEN d.now >= d.alarm \/ (raced[v] /\ k = 1) ELSE raced[v] => k >= 2
          BY <2>d, <3>4, <5>1, <5>2 DEF OnSchedule
        <5>5. Toggles(v) <=> Contains(d.todo, "toggle")  BY <1>2, <2>d DEF Toggles
        <5>6. k * half \in Int /\ (k - 1) * half \in Int /\ (k + 1) * half = k * half + half
          BY <3>4
        <5>7. CASE d.todo = <<>>
          <6>1. ~ Toggles(v)  BY <5>5, <5>7, QueueFacts
          <6>2. e.alarm = d.alarm /\ e.out = d.out  BY <2>2, <5>7 DEF Outputs
          <6>3. from + (k - 1) * half <= Now(v, clock') \/ (raced[v] /\ k = 2)
            BY <4>1, <5>4, <5>6
          <6>4. OnSchedule(v, m, k)'  BY <4>2, <5>2, <5>3, <5>4, <6>1, <6>2, <6>3
          <6> QED  BY <6>4
        <5>8. CASE d.todo = <<"toggle">>
          <6>1. Toggles(v)  BY <5>5, <5>8, QueueFacts
          <6>2. e.alarm = d.alarm + half /\ e.out = ~ d.out  BY <3>8, <5>8
          <6>3. PICK j \in Nat \ {0} : j = k + 1  OBVIOUS
          <6>4. e.alarm = from + j * half  BY <3>4, <5>4, <5>6, <6>2, <6>3
          <6>5. e.out <=> (since[v].lit <=> (j - 1) % 2 = 0)
            <7>1. ((k + 1) - 1) % 2 = 0 <=> ~ ((k - 1) % 2 = 0)  BY Parity
            <7>2. (j - 1) % 2 = 0 <=> ~ ((k - 1) % 2 = 0)  BY <6>3, <7>1
            <7>3. e.out <=> ~ d.out  BY <6>2
            <7> QED  BY <2>3, <5>4, <7>2, <7>3
          <6>6. from + (j - 1) * half <= Now(v, clock') \/ (raced[v] /\ j = 2)
            <7>1. (j - 1) * half = k * half  BY <6>3
            <7> QED  BY <4>1, <5>3, <5>4, <5>6, <6>1, <6>3, <7>1
          <6>7. raced[v] => j >= 2  BY <6>3
          <6>8. OnSchedule(v, m, j)'  BY <4>2, <5>2, <5>3, <6>4, <6>5, <6>6, <6>7
          <6> QED  BY <6>8
        <5> QED  BY <3>2, <4>4, <5>7, <5>8 DEF BlinkPlan
      <4> QED  BY <4>3, <4>4
    <3>13. BlinkInv(v, m, n)'  BY <1>2, <1>7, <3>12 DEF BlinkInv
    <3> QED  BY <3>10, <3>13
  <2>12. (v \in Machines => (e.consumed <=> L)) /\ KindInv(v, m, n, due)'
    <3>1. kind = "light" \/ kind = "auto" \/ kind = "blink"  BY <1>4 DEF Kinds
    <3>2. v \in Machines => (e.consumed <=> L)  BY <2>9, <2>10, <2>11, <3>1
    <3>3. KindInv(v, m, n, due)'  BY <1>2, <2>9, <2>10, <2>11 DEF KindInv
    <3> QED  BY <3>2, <3>3
  <2>13. StateInv(v, m, n, due)'  BY <2>8, <2>12
  <2> QED  BY <1>2, <2>1, <2>12, <2>13 DEF VersionInv
<1> QED  BY <1>1, <1>2, <1>9, <1>10 DEF Inv
LEMMA SetKeeps ==
  ASSUME NEW value \in Timeouts \cup Rates, NEW lag \in Lags
  PROVE  Inv /\ Set(value, lag) => Inv'
<1> SUFFICES ASSUME Inv, Set(value, lag) PROVE Inv'
  OBVIOUS
<1>1. PICK mode \in Modes(kind), next \in Modes(kind) : \A v \in Versions : VersionInv(v, mode, next)
  BY DEF Inv
<1>2. /\ UNCHANGED <<kind, phase, began, event, lamp, late>>
      /\ kind # "light" /\ clock' = clock + lag /\ setting' = value
  BY DEF Set
<1>3. SharedInv  BY DEF Inv
<1>4. /\ clock \in Nat /\ clock' \in Nat /\ began \in Nat /\ clock <= clock' /\ began <= clock'
      /\ began <= clock /\ kind \in Kinds /\ value \in Nat \ {0}
  <2>1. lag \in Nat /\ value \in Nat \ {0}  BY SettingsAssumption
  <2>2. clock \in Nat /\ began \in Nat /\ began <= clock /\ kind \in Kinds  BY <1>3 DEF SharedInv
  <2> QED  BY <1>2, <2>1, <2>2
<1>5. /\ node' = [v \in Versions |->
           IF IsOff(v, node[v].at) THEN node[v]
           ELSE IF kind = "auto" THEN SetTimeout(v, node[v], value, clock')
           ELSE SetBaseHz(v, node[v], value, clock')]
      /\ since' = [v \in Versions |->
           IF IsOff(v, node[v].at) \/ (kind = "auto" /\ GoesOff(v)) THEN since[v]
           ELSE [from |-> IF v = "fsm" THEN began ELSE clock', to |-> clock', span |-> value,
                 lit |-> node[v].out]]
      /\ raced' = [v \in Versions |->
           IF kind = "auto" \/ IsOff(v, node[v].at) THEN raced[v] ELSE Toggles(v)]
  BY DEF Set
(* A setter changes the alarm of a light that is on, and arms it.          *)
<1>6. ASSUME NEW v \in Versions, NEW d \in Data, d = node[v], d.now = Now(v, began)
      PROVE  \E e \in Data :
               /\ e = node'[v] /\ e.at = d.at /\ e.next = d.next /\ e.todo = d.todo /\ e.out = d.out
               /\ e.now = d.now /\ e.latched = d.latched /\ e.consumed = d.consumed
               /\ IsOff(v, d.at) => e = d
               /\ ~ IsOff(v, d.at) =>
                    /\ kind = "auto" =>
                         e.armed /\ e.alarm = Now(v, IF v = "fsm" THEN began ELSE clock') + Span(v, value)
                    /\ kind # "auto" =>
                         e.alarm = Now(v, IF v = "fsm" THEN began ELSE clock')
                                     + HalfPeriod(v, value, IsFast(v, d))
  <2> DEFINE from == IF v = "fsm" THEN began ELSE clock'
  <2>1. StartsFrom(v, d, clock') = Now(v, from)  BY <1>6 DEF StartsFrom
  <2>2. Now(v, from) \in Nat  BY <1>4, NowFacts
  <2>3. Span(v, value) \in Nat  BY <1>4, SpanFacts
  <2>4. HalfPeriod(v, value, IsFast(v, d)) \in Nat  BY <1>4, FastIsBoolean, HalfPeriodFacts
  <2> HIDE DEF from
  <2>5. CASE IsOff(v, d.at)
    <3>1. node'[v] = d  BY <1>5, <1>6, <2>5
    <3> QED  BY <2>5, <3>1
  <2>6. CASE ~ IsOff(v, d.at) /\ kind = "auto"
    <3>1. PICK al \in Int : al = Now(v, from) + Span(v, value)  BY <2>2, <2>3
    <3>2. PICK e : e = [d EXCEPT !.alarm = al, !.armed = TRUE]  OBVIOUS
    <3>3. node'[v] = e  BY <1>5, <1>6, <2>1, <2>6, <3>1, <3>2 DEF SetTimeout
    <3>4. /\ e \in Data /\ e.at = d.at /\ e.next = d.next /\ e.todo = d.todo /\ e.out = d.out
          /\ e.now = d.now /\ e.latched = d.latched /\ e.consumed = d.consumed
          /\ e.armed /\ e.alarm = al
      BY <3>2 DEF Data
    <3> QED  BY <2>6, <3>1, <3>3, <3>4 DEF from
  <2>7. CASE ~ IsOff(v, d.at) /\ kind # "auto"
    <3>1. PICK al \in Int : al = Now(v, from) + HalfPeriod(v, value, IsFast(v, d))  BY <2>2, <2>4
    <3>2. PICK e : e = [d EXCEPT !.alarm = al]  OBVIOUS
    <3>3. node'[v] = e  BY <1>5, <1>6, <2>1, <2>7, <3>1, <3>2 DEF SetBaseHz
    <3>4. /\ e \in Data /\ e.at = d.at /\ e.next = d.next /\ e.todo = d.todo /\ e.out = d.out
          /\ e.now = d.now /\ e.latched = d.latched /\ e.consumed = d.consumed
          /\ e.alarm = al
      BY <3>2 DEF Data
    <3> QED  BY <2>7, <3>1, <3>3, <3>4 DEF from
  <2> QED  BY <2>5, <2>6, <2>7
<1>7. L' = L /\ Pressed' = Pressed
  <2>1. node["fsm"] \in Data /\ node["fsm"].now = Now("fsm", began)
    BY <1>1, <1>2, VersionFacts DEF VersionInv, StateInv
  <2>2. node'["fsm"].latched = node["fsm"].latched  BY <1>6, <2>1, VersionFacts
  <2> QED  BY <1>2, <2>2 DEF L, Pressed
<1>8. \A v \in Versions : node[v] \in Data
  BY <1>1 DEF VersionInv, StateInv
<1>9. SharedInv' /\ PressInv'
  <2>1. ASSUME NEW v \in Versions
        PROVE  /\ since'[v] \in [from : Nat, to : Nat, span : Nat, lit : BOOLEAN]
               /\ since'[v].from <= clock'
               /\ raced'[v] \in BOOLEAN
    <3>1. since[v] \in [from : Nat, to : Nat, span : Nat, lit : BOOLEAN]
          /\ since[v].from \in Nat /\ since[v].from <= clock /\ raced[v] \in BOOLEAN
      BY <1>3 DEF SharedInv
    <3>2. PICK new : new = [from |-> IF v = "fsm" THEN began ELSE clock', to |-> clock',
                            span |-> value, lit |-> node[v].out]
      OBVIOUS
    <3>3. new \in [from : Nat, to : Nat, span : Nat, lit : BOOLEAN] /\ new.from <= clock'
      BY <1>4, <1>8, <3>2 DEF Data
    <3>4. since'[v] = since[v] \/ since'[v] = new  BY <1>5, <3>2
    <3>5. Toggles(v) \in BOOLEAN  BY DEF Toggles
    <3>6. raced'[v] \in BOOLEAN  BY <1>5, <3>1, <3>5
    <3>7. since[v].from <= clock'  BY <1>4, <3>1
    <3> QED  BY <3>1, <3>3, <3>4, <3>6, <3>7
  <2>2. since' \in [Versions -> [from : Nat, to : Nat, span : Nat, lit : BOOLEAN]]
        /\ raced' \in [Versions -> BOOLEAN]
    <3>1. since' = [v \in Versions |-> since'[v]] /\ raced' = [v \in Versions |-> raced'[v]]
      BY <1>5
    <3> QED  BY <2>1, <3>1
  <2>3. setting' \in Nat \ {0}  BY <1>2, <1>4
  <2>4. SharedInv'  BY <1>2, <1>3, <1>4, <2>1, <2>2, <2>3 DEF SharedInv
  <2>5. PressInv'  BY <1>2, <1>7 DEF Inv, PressInv
  <2> QED  BY <2>4, <2>5
<1>10. ASSUME NEW v \in Versions PROVE VersionInv(v, mode, next)'
  <2>1. PICK m \in Modes(kind), n \in Modes(kind), due \in Bit :
          StateInv(v, m, n, due) /\ KindInv(v, m, n, due) /\ (kind # "auto" => m = mode /\ n = next)
    BY <1>1 DEF VersionInv
  <2>2. PICK d \in Data : d = node[v]  BY <1>8
  <2>3. /\ d.latched = L /\ d.now = Now(v, began)
        /\ d.at = State(v, m, IF L /\ phase \in {"evaluate", "commit"} THEN 1 ELSE 0, due)
        /\ v \in Machines => due = 0
    BY <1>2, <2>1, <2>2 DEF StateInv
  <2>4. PICK e \in Data :
          /\ e = node'[v] /\ e.at = d.at /\ e.next = d.next /\ e.todo = d.todo /\ e.out = d.out
          /\ e.now = d.now /\ e.latched = d.latched /\ e.consumed = d.consumed
          /\ IsOff(v, d.at) => e = d
          /\ ~ IsOff(v, d.at) =>
               /\ kind = "auto" =>
                    e.armed /\ e.alarm = Now(v, IF v = "fsm" THEN began ELSE clock') + Span(v, value)
               /\ kind # "auto" =>
                    e.alarm = Now(v, IF v = "fsm" THEN began ELSE clock')
                                + HalfPeriod(v, value, IsFast(v, d))
    BY <1>6, <2>2, <2>3
  <2>5. /\ IsOff(v, d.at) <=> m = "off"
        /\ v \in Nets => d.at.due = due
        /\ kind = "blink" => (IsFast(v, d) <=> m = "x2")
    <3>1. PICK r \in Bit : r = IF L /\ phase \in {"evaluate", "commit"} THEN 1 ELSE 0
      BY DEF Bit
    <3>2. d.at = State(v, m, r, due)  BY <2>3, <3>1
    <3> QED  BY <1>2, <1>4, <3>2, StateFacts
  <2>6. /\ m = "off" => since'[v] = since[v] /\ raced'[v] = raced[v]
        /\ m # "off" /\ kind # "auto" => raced'[v] = Toggles(v)
        /\ kind = "auto" => raced'[v] = raced[v]
        /\ kind = "auto" /\ GoesOff(v) => since'[v] = since[v]
        /\ m # "off" /\ ~ (kind = "auto" /\ GoesOff(v)) =>
             since'[v] = [from |-> IF v = "fsm" THEN began ELSE clock', to |-> clock',
                          span |-> value, lit |-> d.out]
    BY <1>5, <2>2, <2>5
  <2>7. v \in Machines <=> v \notin Nets  BY VersionFacts
  <2>8. Toggles(v)' <=> Toggles(v)  BY <1>2, <2>2, <2>4 DEF Toggles
  <2>9. /\ phase = "evaluate" => (Toggles(v) <=> v \in Nets /\ due > 0)
        /\ phase \in {"commit", "act"} => (Toggles(v) <=> Contains(d.todo, "toggle"))
    BY <2>2, <2>5 DEF Toggles
(* A press that was latched leaves a toggle behind only in a net.          *)
  <2>10. ASSUME kind = "blink", L, NEW x \in Modes(kind), BlinkPlan(v, x, d.todo),
                phase \in {"commit", "act"}, m # "off"
         PROVE  /\ \/ d.todo = <<Entering(x)>> /\ ~ raced'[v]
                   \/ v \in Nets /\ x = "x2" /\ raced'[v] /\ d.todo = <<"enter_x2", "toggle">>
                /\ v \in Machines => ~ Toggles(v)
    <3>1. CASE d.todo = <<Entering(x)>>
      <4>1. Entering(x) # "toggle"  BY <2>10 DEF Entering, Modes
      <4>2. ~ Toggles(v)  BY <2>9, <2>10, <3>1, <4>1, QueueFacts
      <4>3. ~ raced'[v]  BY <2>6, <2>10, <4>2
      <4> QED  BY <3>1, <4>2, <4>3
    <3>2. CASE v \in Nets /\ x = "x2" /\ raced[v] /\ d.todo = <<"enter_x2", "toggle">>
      <4>1. Toggles(v)  BY <2>9, <2>10, <3>2, QueueFacts
      <4> QED  BY <2>6, <2>7, <2>10, <3>2, <4>1
    <3> QED  BY <2>10, <3>1, <3>2 DEF BlinkPlan
  <2>11. ASSUME NEW x \in Modes(kind), Plan(v, x, d.todo), phase \in {"commit", "act"}
         PROVE  Plan(v, x, d.todo)'
    <3>1. kind = "auto" => AutoPlan(v, x, d.todo)'
      BY <1>2, <1>7, <2>6, <2>11 DEF Plan, AutoPlan
    <3>2. kind = "blink" => BlinkPlan(v, x, d.todo)'
      <4>1. CASE m # "off" /\ L  BY <1>2, <1>7, <2>10, <2>11, <4>1 DEF Plan, BlinkPlan
      <4>2. CASE m = "off" \/ ~ L  BY <1>2, <1>7, <2>6, <2>11, <4>2 DEF Plan, BlinkPlan
      <4> QED  BY <4>1, <4>2
    <3> QED  BY <1>2, <3>1, <3>2 DEF Plan
  <2>12. StateInv(v, m, n, due)'
    <3>1. Data' = Data /\ \A x, r, y : State(v, x, r, y)' = State(v, x, r, y)
      BY <1>2 DEF Data, States, State
    <3>2. (phase = "commit" => Plan(v, n, d.todo)') /\ (phase = "act" => Plan(v, m, d.todo)')
      BY <2>1, <2>2, <2>11 DEF StateInv
    <3>3. phase = "evaluate" /\ L /\ v \in Nets => (raced'[v] <=> due = 1)
      <4>1. phase = "evaluate" /\ L /\ v \in Nets => (raced[v] <=> due = 1)
        BY <1>2, <2>1 DEF StateInv
      <4>2. due > 0 <=> due = 1  BY DEF Bit
      <4> QED  BY <2>6, <2>9, <4>1, <4>2
    <3>4. phase = "idle" => (lamp'[v] <=> Level(kind', v, e))
      <4>1. phase = "idle" => (lamp[v] <=> Level(kind, v, d))  BY <2>1, <2>2 DEF StateInv
      <4> QED  BY <1>2, <2>4, <4>1 DEF Level
    <3>5. phase = "commit" => \E u \in Bit : e.next = State(v, n, 0, u)' /\ (kind' = "light" => u = 0)
      BY <1>2, <2>1, <2>2, <2>4, <3>1 DEF StateInv
    <3>6. e.latched = L' /\ e.at = State(v, m, IF L /\ phase \in {"evaluate", "commit"} THEN 1 ELSE 0, due)'
      <4>1. PICK r : r = IF L /\ phase \in {"evaluate", "commit"} THEN 1 ELSE 0  OBVIOUS
      <4>2. r = IF L' /\ phase' \in {"evaluate", "commit"} THEN 1 ELSE 0  BY <1>2, <1>7, <4>1
      <4>3. e.at = State(v, m, r, due)'  BY <2>3, <2>4, <3>1, <4>1
      <4>4. e.latched = L'  BY <1>7, <2>3, <2>4
      <4> QED  BY <4>2, <4>3, <4>4 DEF State
    <3>7. Plan(v, n, node[v].todo)' <=> Plan(v, n, d.todo)'  BY <2>4
    <3>8. Plan(v, m, node[v].todo)' <=> Plan(v, m, d.todo)'  BY <2>4
    <3> QED
      BY <1>2, <1>7, <2>1, <2>2, <2>3, <2>4, <3>1, <3>2, <3>3, <3>4, <3>5, <3>6, <3>7, <3>8 DEF StateInv
  <2>13. ASSUME kind = "auto" PROVE AutoInv(v, m, n, due)'
    <3>1. AutoInv(v, m, n, due)  BY <2>1, <2>13 DEF KindInv
    <3>2. StaysOn(m, n, due)' = StaysOn(m, n, due)  BY <1>2 DEF StaysOn
    <3>3. m = "off" \/ m = "on"  BY <2>13 DEF Modes
    <3>4. e.out = d.out /\ e.todo = d.todo /\ e.at = d.at  BY <2>4
    <3>5. ASSUME v = "pyfsm", Pressed
          PROVE  /\ phase # "act" /\ m = "off" => ~ e.armed
                 /\ e.armed => \E t \in began .. clock' : e.alarm = Now(v, t) + Span(v, value)
      <4>1. CASE m = "off"
        <5>1. phase # "act"
          <6>1. phase = "act" => AutoPlan(v, m, d.todo)  BY <2>1, <2>2, <2>13 DEF StateInv, Plan
          <6> QED  BY <3>5, <4>1, <6>1, VersionFacts DEF AutoPlan, Pressed
        <5>2. ~ d.armed /\ e = d  BY <2>2, <2>4, <2>5, <3>1, <3>5, <4>1, <5>1 DEF AutoInv
        <5> QED  BY <5>2
      <4>2. CASE m = "on"
        <5>1. e.alarm = Now(v, clock') + Span(v, value)  BY <2>4, <2>5, <2>13, <3>5, <4>2
        <5>2. clock' \in began .. clock'  BY <1>4
        <5> QED  BY <4>2, <5>1, <5>2
      <4> QED  BY <3>3, <4>1, <4>2
    <3>6. ~ Pressed =>
            IF StaysOn(m, n, due)
              THEN /\ Running(v)' /\ e.armed
                   /\ (phase # "evaluate" \/ v \in Nets) => began < OffBy(v)'
              ELSE raced[v] \/ began >= OffFrom(v)'
      <4>1. ~ Pressed =>
              IF StaysOn(m, n, due)
                THEN /\ Running(v) /\ d.armed
                     /\ (phase # "evaluate" \/ v \in Nets) => began < OffBy(v)
                ELSE raced[v] \/ began >= OffFrom(v)
        BY <2>2, <3>1 DEF AutoInv
      <4>2. since'[v] = since[v] => OffBy(v)' = OffBy(v) /\ OffFrom(v)' = OffFrom(v)
        BY DEF OffBy, OffFrom
      <4>3. CASE m = "off"
        <5>1. since'[v] = since[v] /\ e = d  BY <2>4, <2>5, <2>6, <4>3
        <5>2. Running(v)' <=> Running(v)  BY <2>2, <2>4, <5>1 DEF Running
        <5> QED  BY <4>1, <4>2, <5>1, <5>2
      <4>4. CASE m = "on" /\ GoesOff(v)
        <5>1. since'[v] = since[v]  BY <2>6, <2>13, <4>4
        <5>2. ~ StaysOn(m, n, due)
          <6>1. ASSUME phase = "commit" PROVE IsOff(v, d.next) <=> n = "off"
            <7>1. PICK u \in Bit : d.next = State(v, n, 0, u)  BY <2>1, <2>2, <6>1 DEF StateInv
            <7>2. 0 \in Bit  BY DEF Bit
            <7> QED  BY <1>4, <7>1, <7>2, StateFacts
          <6>2. phase = "evaluate" => due > 0  BY <2>2, <2>5, <4>4 DEF GoesOff
          <6>3. phase = "commit" => n = "off"  BY <2>2, <4>4, <6>1 DEF GoesOff
          <6>4. phase = "evaluate" \/ phase = "commit"  BY <4>4 DEF GoesOff
          <6> QED  BY <6>2, <6>3, <6>4 DEF StaysOn
        <5> QED  BY <4>1, <4>2, <5>1, <5>2
      <4>5. CASE m = "on" /\ ~ GoesOff(v)
        <5>1. PICK from \in Nat : from = IF v = "fsm" THEN began ELSE clock'  BY <1>4
        <5>2. since'[v].from = from /\ since'[v].to = clock' /\ since'[v].span = value
          BY <2>6, <2>13, <4>5, <5>1
        <5>3. e.armed /\ e.alarm = Now(v, from) + Span(v, value)  BY <2>4, <2>5, <2>13, <4>5, <5>1
        <5>4. from \in from .. clock'  BY <1>4, <5>1
        <5>5. Running(v)'  BY <2>4, <5>2, <5>3, <5>4 DEF Running
        <5>6. value * Ms \in Nat /\ value * Ms > 0  BY <1>4, SMT DEF Ms
        <5>7. began < OffBy(v)'  BY <1>4, <5>2, <5>6 DEF OffBy
        <5>8. StaysOn(m, n, due)
          <6>1. ASSUME phase = "evaluate" PROVE due = 0
            <7>1. ~ (v \in Nets /\ due > 0)  BY <2>2, <2>5, <4>5, <6>1 DEF GoesOff
            <7> QED  BY <2>3, <2>7, <7>1 DEF Bit
          <6>2. ASSUME phase = "commit" PROVE n = "on"
            <7>1. PICK u \in Bit : d.next = State(v, n, 0, u)  BY <2>1, <2>2, <6>2 DEF StateInv
            <7>2. 0 \in Bit  BY DEF Bit
            <7>3. IsOff(v, d.next) <=> n = "off"  BY <1>4, <7>1, <7>2, StateFacts
            <7>4. n # "off"  BY <2>2, <4>5, <6>2, <7>3 DEF GoesOff
            <7> QED  BY <2>13, <7>4 DEF Modes
          <6> QED  BY <4>5, <6>1, <6>2 DEF StaysOn
        <5> QED  BY <5>3, <5>5, <5>7, <5>8
      <4> QED  BY <3>3, <4>3, <4>4, <4>5
    <3>7. /\ v \in Machines =>
               /\ phase' # "act" => (e.out <=> m = "on")
               /\ phase' = "act" /\ e.todo = <<>> => (e.out <=> m = "on")
      BY <1>2, <2>2, <3>1, <3>4 DEF AutoInv
    <3>8. v = "pyfsm" /\ Pressed' =>
            /\ phase' # "act" /\ m = "off" => ~ e.armed
            /\ e.armed => \E t \in began' .. clock' : e.alarm = Now(v, t) + Span(v, setting')
      BY <1>2, <1>7, <3>5
    <3>9. ~ Pressed' =>
            IF StaysOn(m, n, due)'
              THEN /\ Running(v)' /\ e.armed
                   /\ (phase' # "evaluate" \/ v \in Nets) => began' < OffBy(v)'
              ELSE raced'[v] \/ began' >= OffFrom(v)'
      <4>1. raced'[v] = raced[v]  BY <2>6, <2>13
      <4> QED  BY <1>2, <1>7, <3>2, <3>6, <4>1
    <3> QED  BY <2>4, <3>7, <3>8, <3>9 DEF AutoInv
  <2>14. ASSUME kind = "blink" PROVE BlinkInv(v, m, n)'
    <3>1. BlinkInv(v, m, n)  BY <2>1, <2>14 DEF KindInv
    <3>2. ASSUME Pressed, v \in Machines PROVE ~ raced'[v]
      <4>1. CASE m = "off"  BY <2>6, <3>1, <3>2, <4>1 DEF BlinkInv
      <4>2. CASE m # "off"
        <5>1. ~ Toggles(v)
          <6>1. CASE phase = "evaluate"  BY <2>7, <2>9, <3>2, <6>1
          <6>2. CASE phase = "commit"
            <7>1. BlinkPlan(v, n, d.todo)  BY <2>1, <2>2, <2>14, <6>2 DEF StateInv, Plan
            <7> QED  BY <2>10, <2>14, <3>2, <4>2, <6>2, <7>1 DEF Pressed
          <6>3. CASE phase = "act"
            <7>1. BlinkPlan(v, m, d.todo)  BY <2>1, <2>2, <2>14, <6>3 DEF StateInv, Plan
            <7> QED  BY <2>10, <2>14, <3>2, <4>2, <6>3, <7>1 DEF Pressed
          <6> QED  BY <3>2, <6>1, <6>2, <6>3 DEF Pressed
        <5> QED  BY <2>6, <2>14, <4>2, <5>1
      <4> QED  BY <4>1, <4>2
    <3>3. ASSUME m # "off" PROVE \E k \in Nat \ {0} : OnSchedule(v, m, k)'
      <4>1. PICK from \in Nat : from = IF v = "fsm" THEN began ELSE clock'  BY <1>4
      <4>2. since'[v].from = from /\ since'[v].lit = d.out
        BY <2>6, <2>14, <3>3, <4>1
      <4>3. PICK half \in Nat : half = HalfPeriod(v, value, m = "x2")
        <5>1. (m = "x2") \in BOOLEAN  OBVIOUS
        <5> QED  BY <1>4, <5>1, HalfPeriodFacts
      <4>4. e.alarm = Now(v, from) + half
        <5>1. IsFast(v, d) = (m = "x2")  BY <2>5, <2>14, FastIsBoolean
        <5> QED  BY <2>4, <2>5, <2>14, <3>3, <4>1, <4>3, <5>1
      <4>5. PICK k \in Nat \ {0} : k = 1  OBVIOUS
      <4>6. k * half = half /\ (k - 1) * half = 0 /\ (k - 1) % 2 = 0  BY <4>3, <4>5
      <4>7. Now(v, from) \in Nat /\ Now(v, from) <= Now(v, clock')
        BY <1>4, <4>1, NowGrows, NowFacts
      <4>8. Now(v, from) + (k - 1) * half <= Now(v, clock')  BY <4>6, <4>7
      <4>9. raced'[v] <=> Toggles(v)'  BY <2>6, <2>8, <2>14, <3>3
      <4>10. e.out <=> (since'[v].lit <=> (k - 1) % 2 = 0)  BY <2>4, <4>2, <4>6
      <4>11. e.alarm = Now(v, from) + k * half  BY <4>4, <4>6
      <4>12. HalfPeriod(v, setting', m = "x2") = half  BY <1>2, <4>3
      <4>13. OnSchedule(v, m, k)'
        BY <2>4, <4>2, <4>5, <4>8, <4>9, <4>10, <4>11, <4>12 DEF OnSchedule
      <4> QED  BY <4>13
    <3>4. phase' = "commit" /\ ~ L' => n = m  BY <1>2, <1>7, <3>1 DEF BlinkInv
    <3> QED  BY <1>7, <3>2, <3>3, <3>4 DEF BlinkInv
  <2>15. KindInv(v, m, n, due)'  BY <1>2, <2>13, <2>14 DEF KindInv
  <2> QED  BY <1>2, <2>1, <2>12, <2>15 DEF VersionInv
<1> QED  BY <1>1, <1>2, <1>9, <1>10 DEF Inv

-----------------------------------------------------------------------------
THEOREM NodesInvariant == Spec => []Inv
<1>1. Init => Inv  BY InitHolds
<1>2. Inv /\ [Next]_vars => Inv'
  <2> SUFFICES ASSUME Inv, [Next]_vars PROVE Inv'
    OBVIOUS
  <2>1. CASE Press  BY <2>1, PressKeeps
  <2>2. CASE Evaluate  BY <2>2, EvaluateKeeps
  <2>3. CASE Commit  BY <2>3, CommitKeeps
  <2>4. CASE Dump  BY <2>4, DumpKeeps
  <2>5. ASSUME NEW gap \in Gaps, Latch(gap) PROVE Inv'  BY <2>5, LatchKeeps
  <2>6. ASSUME NEW lag \in Lags, Act(lag) PROVE Inv'  BY <2>6, ActKeeps
  <2>7. ASSUME NEW value \in Timeouts \cup Rates, NEW lag \in Lags, Set(value, lag) PROVE Inv'
    BY <2>7, SetKeeps
  <2>8. CASE UNCHANGED vars  BY <2>8, StutterKeeps
  <2> QED  BY <2>1, <2>2, <2>3, <2>4, <2>5, <2>6, <2>7, <2>8 DEF Next
<1> QED  BY <1>1, <1>2, PTL DEF Spec

(* Between two ticks the mode of a version is the mode of the invariant.   *)
LEMMA ModeFacts ==
  ASSUME NEW v \in Versions, NEW m \in Modes(kind), NEW n, NEW due \in Bit, kind \in Kinds,
         phase = "idle", StateInv(v, m, n, due)
  PROVE  /\ Mode(v) = m
         /\ lamp[v] <=> IF v \in Nets /\ kind # "blink" THEN m = "on" ELSE node[v].out
<1>1. v \in Machines <=> v \notin Nets  BY VersionFacts
<1>2. node[v].at = State(v, m, 0, due) /\ (lamp[v] <=> Level(kind, v, node[v]))  BY DEF StateInv
<1>3. CASE v \in Machines  BY <1>1, <1>2, <1>3 DEF State, Mode, Level
<1>4. CASE v \in Nets
  <2> DEFINE at == Marked(kind, m, 0, due)
  <2>1. node[v].at = at  BY <1>1, <1>2, <1>4 DEF State
  <2>2. \A p \in Places(kind) :
          at[p] = IF p = "request" THEN 0 ELSE IF p = "due" THEN due ELSE IF p = m THEN 1 ELSE 0
    BY DEF Marked
  <2>3. DOMAIN at = Places(kind) /\ m \in Places(kind) /\ m \in {"off", "on", "x1", "x2"}
    BY PlacesAre DEF Marked, Modes
  <2>4. kind # "blink" => (at.on > 0 <=> m = "on")
    <3>1. 0 \in Bit  BY DEF Bit
    <3> QED  BY <3>1, MarkedFacts
  <2> HIDE DEF at
  <2> DEFINE places == {"off", "on", "x1", "x2"} \cap DOMAIN node[v].at
             marked(p) == node[v].at[p] > 0
             chosen == CHOOSE p \in places : marked(p)
  <2>5. \A p \in places : marked(p) <=> p = m  BY <2>1, <2>2, <2>3
  <2>6. m \in places  BY <2>1, <2>3
  <2>7. Mode(v) = chosen  BY <1>1, <1>4 DEF Mode
  <2> HIDE DEF places, marked
  <2>8. chosen \in places /\ marked(chosen)  BY <2>5, <2>6
  <2> HIDE DEF chosen
  <2>9. Mode(v) = m  BY <2>5, <2>7, <2>8
  <2>10. lamp[v] <=> IF kind # "blink" THEN m = "on" ELSE node[v].out
    BY <1>2, <1>4, <2>1, <2>4 DEF Level
  <2> QED  BY <1>4, <2>9, <2>10
<1> QED  BY <1>1, <1>3, <1>4, VersionFacts

(* A press that comes while a tick is under way is kept for the next tick, *)
(* unless the tick handles an earlier press: dump_outputs of all four      *)
(* versions clear the flag only after a latched press.                     *)
THEOREM PressesSurvive == Spec => []PressSurvives
<1>1. Inv => PressSurvives
  <2> SUFFICES ASSUME Inv, phase = "idle", late, NEW v \in Versions, ~ node[v].latched
               PROVE  event[v]
    BY DEF PressSurvives
  <2>1. node[v].latched = L  BY DEF Inv, VersionInv, StateInv
  <2>2. event[v] = event["net"]  BY DEF Inv, SharedInv
  <2> QED  BY <2>1, <2>2 DEF Inv, PressInv
<1> QED  BY <1>1, NodesInvariant, PTL

(* What the invariant says of an auto light between two ticks.             *)
LEMMA AutoFacts ==
  ASSUME Inv, phase = "idle", kind = "auto", NEW v \in Versions
  PROVE  /\ Mode(v) \in {"off", "on"}
         /\ lamp[v] <=> Mode(v) = "on"
         /\ IF lamp[v] THEN began < OffBy(v) ELSE raced[v] \/ began >= OffFrom(v)
<1>1. PICK m \in Modes(kind), n \in Modes(kind), due \in Bit :
        StateInv(v, m, n, due) /\ AutoInv(v, m, n, due)
  BY DEF Inv, VersionInv, KindInv
<1>2. kind \in Kinds  BY DEF Inv, SharedInv
<1>3. Mode(v) = m /\ (lamp[v] <=> IF v \in Nets THEN m = "on" ELSE node[v].out)
  BY <1>1, <1>2, ModeFacts
<1>4. lamp[v] <=> m = "on"  BY <1>1, <1>3, VersionFacts DEF AutoInv
<1>5. StaysOn(m, n, due) <=> m = "on"  BY DEF StaysOn
<1>6. ~ Pressed  BY DEF Pressed
<1>7. IF m = "on" THEN began < OffBy(v) ELSE raced[v] \/ began >= OffFrom(v)
  BY <1>1, <1>5, <1>6 DEF AutoInv
<1> QED  BY <1>3, <1>4, <1>7 DEF Modes

(* After every tick the state machine and the Petri net, in C and in       *)
(* Python, are in the same mode and show the same lamp, wherever in a tick *)
(* the presses and the setters' calls fell and however late the ticks      *)
(* were.  Auto lights are compared where their timers tell the same.       *)
THEOREM FourVersionsAgree == Spec => []VersionsAgree
<1>1. Inv => VersionsAgree
  <2> SUFFICES ASSUME Inv, phase = "idle", NEW v \in Versions, NEW w \in Versions, Comparable(v, w)
               PROVE  Mode(v) = Mode(w) /\ (kind # "blink" => lamp[v] = lamp[w])
    BY DEF VersionsAgree
  <2>1. kind \in Kinds /\ lamp[v] \in BOOLEAN /\ lamp[w] \in BOOLEAN  BY DEF Inv, SharedInv
  <2>2. CASE kind = "auto"
    <3>1. \A u \in {v, w} : ~ raced[u] /\ (began < OffFrom(u) \/ began >= OffBy(u))
      BY <2>2 DEF Comparable
    <3>2. /\ began \in Nat /\ since[v] \in [from : Nat, to : Nat, span : Nat, lit : BOOLEAN]
          /\ since[w] \in [from : Nat, to : Nat, span : Nat, lit : BOOLEAN]
      BY DEF Inv, SharedInv
    <3>3. since[v].to = since[w].to /\ since[v].span = since[w].span  BY <2>2 DEF Comparable
    <3>4. OffBy(v) = OffBy(w)  BY <3>3 DEF OffBy
    <3>5. ASSUME NEW u \in {v, w} PROVE lamp[u] <=> began < OffBy(u)
      <4>1. IF lamp[u] THEN began < OffBy(u) ELSE began >= OffFrom(u)
        BY <2>2, <3>1, <3>5, AutoFacts
      <4>2. OffBy(u) \in Int /\ OffFrom(u) \in Int
        <5>1. Ms \in Nat  BY SMT DEF Ms
        <5>2. since[u].from \in Nat /\ since[u].to \in Nat /\ since[u].span \in Nat  BY <3>2, <3>5
        <5>3. since[u].span * Ms \in Nat  BY <5>1, <5>2
        <5> QED  BY <5>1, <5>2, <5>3 DEF OffBy, OffFrom
      <4> QED  BY <3>1, <3>2, <3>5, <4>1, <4>2
    <3>6. lamp[v] = lamp[w]  BY <2>1, <3>4, <3>5
    <3> QED  BY <2>2, <3>6, AutoFacts
  <2>3. CASE kind # "auto"
    <3>1. PICK mode \in Modes(kind), next \in Modes(kind) : \A u \in Versions : VersionInv(u, mode, next)
      BY DEF Inv
    <3>2. ASSUME NEW u \in Versions
          PROVE  Mode(u) = mode /\ (kind # "blink" => (lamp[u] <=> mode = "on"))
      <4>1. PICK due \in Bit : StateInv(u, mode, next, due) /\ KindInv(u, mode, next, due)
        BY <2>3, <3>1 DEF VersionInv
      <4>2. /\ Mode(u) = mode
            /\ lamp[u] <=> IF u \in Nets /\ kind # "blink" THEN mode = "on" ELSE node[u].out
        BY <2>1, <4>1, ModeFacts
      <4>3. kind = "light" /\ u \in Machines => (node[u].out <=> mode = "on")
        BY <4>1 DEF KindInv, LightInv
      <4> QED  BY <2>1, <2>3, <4>2, <4>3, VersionFacts DEF Kinds
    <3> QED  BY <2>1, <3>2
  <2> QED  BY <2>2, <2>3
<1> QED  BY <1>1, NodesInvariant, PTL

(* The auto light of every version is on until its timeout after the last  *)
(* press or the last change of the timeout, counted from where that        *)
(* version starts its timer; excepted is a press that met it due.          *)
THEOREM AutoGoesOffInTime == Spec => []AutoOffInTime
<1>1. Inv => AutoOffInTime  BY AutoFacts DEF AutoOffInTime
<1> QED  BY <1>1, NodesInvariant, PTL

(* How many whole spans of h there are between two instants.               *)
LEMMA WholeSpans ==
  ASSUME NEW x \in Int, NEW h \in Nat \ {0}, NEW j \in Nat, j * h <= x, x < (j + 1) * h
  PROVE  x \div h = j
<1>1. PICK r \in Int : r = x - h * j  BY SMT
<1>2. r \in 0 .. h - 1 /\ x = h * j + r
  <2>1. (j + 1) * h = h * j + h /\ j * h = h * j /\ h * j \in Int  OBVIOUS
  <2> QED  BY <1>1, <2>1
<1>3. x % h = r  BY <1>2, ModUnique
<1> DEFINE q == x \div h
<1>4. q \in Int /\ x = h * q + r  BY <1>3, DivMod
<1> HIDE DEF q
<1>5. h * (q - j) = 0  BY <1>2, <1>4
<1>6. q = j
  <2>1. PICK k \in Int : k = q - j  BY <1>4
  <2>2. CASE k >= 1  BY <1>5, <2>1, <2>2
  <2>3. CASE k <= -1  BY <1>5, <2>1, <2>3
  <2> QED  BY <1>4, <2>1, <2>2, <2>3
<1> QED  BY <1>6 DEF q

(* A blinking lamp that is not behind has toggled once per half period     *)
(* since it was set going, however late single ticks were and wherever in  *)
(* a tick the rate was changed: a toggle sets the next alarm from the last *)
(* alarm, not from now.                                                    *)
THEOREM BlinkKeepsSchedule == Spec => []BlinkOnSchedule
<1>1. Inv => BlinkOnSchedule
  <2> SUFFICES ASSUME Inv, phase = "idle", kind = "blink", NEW v \in Versions,
                      Mode(v) # "off", node[v].alarm > Now(v, clock), v = "fsm" => Mode(v) = "x1"
               PROVE  LET passed == (Now(v, clock) - Now(v, since[v].from))
                                      \div HalfPeriod(v, setting, Mode(v) = "x2")
                          halves == IF raced[v] /\ passed = 0 THEN 1 ELSE passed
                      IN  lamp[v] = (since[v].lit = (halves % 2 = 0))
    BY DEF BlinkOnSchedule
  <2>1. PICK m \in Modes(kind), n \in Modes(kind), due \in Bit :
          StateInv(v, m, n, due) /\ BlinkInv(v, m, n)
    BY DEF Inv, VersionInv, KindInv
  <2>2. /\ kind \in Kinds /\ clock \in Nat /\ setting \in Nat \ {0} /\ lamp[v] \in BOOLEAN
        /\ raced[v] \in BOOLEAN
        /\ since[v].from \in Nat /\ since[v].from <= clock /\ since[v].lit \in BOOLEAN
    BY DEF Inv, SharedInv
  <2>3. Mode(v) = m /\ (lamp[v] <=> node[v].out)  BY <2>1, <2>2, ModeFacts
  <2>4. PICK k \in Nat \ {0} : OnSchedule(v, m, k)
    <3>1. ~ Pressed  BY DEF Pressed
    <3> QED  BY <2>1, <2>3, <3>1 DEF BlinkInv
  <2>5. PICK half \in Nat \ {0} : half = HalfPeriod(v, setting, m = "x2")
    <3>1. (m = "x2") \in BOOLEAN  OBVIOUS
    <3> QED  BY <2>2, <3>1, HalfPeriodFacts
  <2>6. PICK from \in Nat, now \in Nat : from = Now(v, since[v].from) /\ now = Now(v, clock)
    BY <2>2, NowFacts
  <2>7. from <= now  BY <2>2, <2>6, NowGrows
  <2>8. /\ node[v].alarm = from + k * half /\ now < node[v].alarm
        /\ node[v].out <=> (since[v].lit <=> (k - 1) % 2 = 0)
        /\ from + (k - 1) * half <= now \/ (raced[v] /\ k = 2)
        /\ raced[v] => k >= 2
    <3>1. ~ Toggles(v)  BY DEF Toggles
    <3> QED  BY <2>4, <2>5, <2>6, <3>1 DEF OnSchedule
  <2>9. PICK gone \in Nat : gone = now - from  BY <2>6, <2>7
  <2>10. PICK passed \in Int : passed = gone \div half  BY <2>5, <2>9
  <2>11. PICK halves \in Int : halves = IF raced[v] /\ passed = 0 THEN 1 ELSE passed
    BY <2>10
  <2>12. halves = k - 1
    <3>1. k * half \in Int /\ (k - 1) * half \in Int  BY <2>5
    <3>2. CASE (k - 1) * half <= gone
      <4>1. PICK j \in Nat : j = k - 1  BY <2>4
      <4>2. j * half <= gone /\ gone < (j + 1) * half
        <5>1. gone < k * half  BY <2>8, <2>9, <3>1
        <5> QED  BY <3>2, <4>1, <5>1
      <4>3. passed = j  BY <2>5, <2>9, <2>10, <4>2, WholeSpans
      <4>4. passed = 0 => ~ raced[v]  BY <2>8, <4>1, <4>3
      <4> QED  BY <2>11, <4>1, <4>3, <4>4
    <3>3. CASE ~ ((k - 1) * half <= gone)
      <4>1. raced[v] /\ k = 2  BY <2>8, <2>9, <3>1, <3>3
      <4>2. (k - 1) * half = half  BY <2>5, <4>1
      <4>3. 0 * half <= gone /\ gone < (0 + 1) * half  BY <2>5, <2>9, <3>3, <4>2
      <4>4. passed = 0  BY <2>5, <2>9, <2>10, <4>3, WholeSpans
      <4> QED  BY <2>11, <4>1, <4>4
    <3> QED  BY <3>2, <3>3
  <2>13. lamp[v] = (since[v].lit = (halves % 2 = 0))
    <3>1. (halves % 2 = 0) \in BOOLEAN  OBVIOUS
    <3>2. lamp[v] <=> (since[v].lit <=> halves % 2 = 0)  BY <2>3, <2>8, <2>12
    <3> QED  BY <2>2, <3>1, <3>2
  <2> QED  BY <2>3, <2>5, <2>6, <2>9, <2>10, <2>11, <2>13
<1> QED  BY <1>1, NodesInvariant, PTL
=============================================================================
