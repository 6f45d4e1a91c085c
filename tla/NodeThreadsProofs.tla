------------------------- MODULE NodeThreadsProofs -------------------------
(***************************************************************************)
(* The critical sections, the trace and the barriers of NodeThreads, for   *)
(* any number of node threads and resources, any table and any ring.       *)
(***************************************************************************)
EXTENDS NodeThreads, Lemmas, FiniteSetTheorems, TLAPS

TableRange == {table[e] : e \in DOMAIN table}

Marks == Resources \cup {Nobody}

Events == [time : Nat, mark : Marks]

TypeOK ==
  /\ ResourcesTypeOK
  /\ clock \in Nat
  /\ stamp \in [Nodes -> Nat]
  /\ lock \subseteq Nodes
  /\ log \in Seq(Events)

(* What a node records is what it has used, and that is in the table: the  *)
(* table is never larger than the record.                                  *)
RecordsComplete ==
  /\ \A n \in Nodes : used[n] \subseteq TableRange
  /\ EverySectionIsMeasured

(* Nothing is stamped later than the clock, and what a node has stamped    *)
(* inside a section is later than all that is stored of that resource.     *)
StampsAreFresh ==
  /\ \A i \in DOMAIN log : log[i].time <= clock
  /\ \A n \in Nodes : stamp[n] <= clock
  /\ \A n \in lock : stamp[n] # 0
  /\ \A n \in Nodes : stamp[n] # 0 => section[n] \in {"none", "inside"}
  /\ \A n \in Nodes, i \in DOMAIN log :
       stamp[n] # 0 /\ section[n] = "inside" /\ log[i].mark = resource[n] =>
         log[i].time < stamp[n]

(* The inductive invariant.                                                *)
IInv ==
  /\ TypeOK
  /\ LocksMatchSections
  /\ RecordsComplete
  /\ StampsAreFresh
  /\ SectionsInOrder

-----------------------------------------------------------------------------
(* The table holds no more resources than it has entries.                  *)
LEMMA TableCardinality ==
  ASSUME TypeOK
  PROVE  /\ IsFiniteSet(TableRange)
         /\ Cardinality(TableRange) \in Nat /\ Cardinality(TableRange) <= TableSize
<1> DEFINE D == 1 .. Len(table)
<1>1. Len(table) \in Nat /\ Len(table) <= TableSize /\ DOMAIN table = D /\ TableSize \in Nat
  BY ResourcesAssumption DEF TypeOK, ResourcesTypeOK
<1>2. IsFiniteSet(D) /\ Cardinality(D) = Len(table)
  <2>1. 1 \in Int /\ Len(table) \in Int  BY <1>1
  <2>2. IsFiniteSet(D)  BY <2>1, FS_Interval
  <2>3. Cardinality(D) = IF 1 > Len(table) THEN 0 ELSE Len(table) - 1 + 1
    BY <2>1, FS_Interval
  <2> QED  BY <1>1, <2>2, <2>3
<1>3. table \in Surjection(D, TableRange)
  <2>1. table \in [D -> TableRange]
    <3>1. table \in [D -> Resources]  BY DEF TypeOK, ResourcesTypeOK
    <3>2. \A e \in D : table[e] \in TableRange  BY <1>1 DEF TableRange
    <3> QED  BY <3>1, <3>2
  <2>2. \A y \in TableRange : \E e \in D : table[e] = y
    BY <1>1 DEF TableRange
  <2> QED  BY <2>1, <2>2 DEF Surjection
<1>4. IsFiniteSet(TableRange) /\ Cardinality(TableRange) <= Cardinality(D)
  BY <1>2, <1>3, FS_Surjection
<1>5. Cardinality(TableRange) \in Nat
  BY <1>4, FS_CardinalityType
<1> QED  BY <1>1, <1>2, <1>4, <1>5

(* A record with as many resources as the table has entries misses none    *)
(* of them.                                                                *)
LEMMA FullRecordMissesNothing ==
  ASSUME TypeOK, NEW S \in SUBSET TableRange, NEW r \in TableRange,
         ~ (Cardinality(S) < TableSize)
  PROVE  r \in S
<1>1. IsFiniteSet(S) /\ Cardinality(S) <= Cardinality(TableRange)
      /\ (Cardinality(TableRange) = Cardinality(S) => TableRange = S)
  BY TableCardinality, FS_Subset
<1>2. Cardinality(S) \in Nat /\ TableSize \in Nat
  BY <1>1, FS_CardinalityType, ResourcesAssumption
<1> QED  BY <1>1, <1>2, TableCardinality

-----------------------------------------------------------------------------
LEMMA InvInit == Init => IInv
<1> SUFFICES ASSUME Init PROVE IInv
  OBVIOUS
<1>1. TypeOK
  <2>1. ResourcesTypeOK
    BY ResourcesAssumption DEF Init, ResourcesInit, ResourcesTypeOK
  <2> QED  BY <2>1, ThreadsAssumption DEF Init, TraceInit, TypeOK
<1>2. LocksMatchSections
  BY ResourcesAssumption DEF Init, ResourcesInit, LocksMatchSections, InTable
<1>3. RecordsComplete
  BY DEF Init, ResourcesInit, RecordsComplete, EverySectionIsMeasured
<1>4. StampsAreFresh /\ SectionsInOrder
  BY ThreadsAssumption DEF Init, TraceInit, StampsAreFresh, SectionsInOrder
<1> QED  BY <1>1, <1>2, <1>3, <1>4 DEF IInv

-----------------------------------------------------------------------------
(* What the steps of the sections and of the trace keep of the invariant.  *)

LEMMA BeginKeepsSections ==
  ASSUME IInv, NEW n \in Nodes, NEW r \in Resources, Begin(n, r), UNCHANGED traceVars
  PROVE  ResourcesTypeOK' /\ LocksMatchSections' /\ RecordsComplete'
<1>1. /\ table \in Seq(Resources) /\ Len(table) \in Nat /\ DOMAIN table = 1 .. Len(table)
      /\ TableSize \in Nat
  BY ResourcesAssumption DEF IInv, TypeOK, ResourcesTypeOK
<1>2. /\ table' \in Seq(Resources) /\ Len(table') <= TableSize
      /\ \E e \in DOMAIN table' : table'[e] = r
      /\ \A d, e \in DOMAIN table' : table'[d] = table'[e] => d = e
      /\ DOMAIN table \subseteq DOMAIN table'
      /\ \A e \in DOMAIN table : table'[e] = table[e]
      /\ \A e \in DOMAIN table' \ DOMAIN table : table'[e] = r /\ ~ InTable(r)
  <2>1. CASE InTable(r)
    BY <1>1, <2>1 DEF Begin, Lookup, IInv, TypeOK, ResourcesTypeOK, LocksMatchSections, InTable
  <2>2. CASE ~ InTable(r)
    <3>1. /\ table' = Append(table, r) /\ Len(table) < TableSize
          /\ table' \in Seq(Resources) /\ Len(table') = Len(table) + 1
          /\ DOMAIN table' = 1 .. Len(table) + 1
          /\ table'[Len(table) + 1] = r
          /\ \A e \in 1 .. Len(table) : table'[e] = table[e]
      BY <1>1, <2>2 DEF Begin, Lookup
    <3>2. \A e \in 1 .. Len(table) : table'[e] # r
      BY <1>1, <2>2, <3>1 DEF InTable
    <3> QED  BY <1>1, <2>2, <3>1, <3>2 DEF IInv, LocksMatchSections
  <2> QED  BY <2>1, <2>2
<1>3. /\ section' = [section EXCEPT ![n] = "locking"]
      /\ resource' = [resource EXCEPT ![n] = r]
      /\ section[n] = "none" /\ UNCHANGED <<holder, recorded, used>>
  BY DEF Begin
<1>4. ResourcesTypeOK'
  BY <1>2, <1>3 DEF IInv, TypeOK, ResourcesTypeOK, Entries
<1>5. LocksMatchSections'
  <2>1. \A m \in Nodes : (resource[m] # Nobody => InTable(resource[m]))'
    BY <1>2, <1>3 DEF IInv, TypeOK, ResourcesTypeOK, LocksMatchSections, InTable
  <2>2. \A m \in Nodes : section'[m] = "none" <=> resource'[m] = Nobody
    BY <1>3, ResourcesAssumption DEF IInv, TypeOK, ResourcesTypeOK, LocksMatchSections
  <2>3. ASSUME NEW e \in Entries, NEW m \in Nodes
        PROVE  holder'[e] = m <=>
                 e \in DOMAIN table' /\ section'[m] = "inside" /\ resource'[m] = table'[e]
    <3>1. holder[e] = m <=>
            e \in DOMAIN table /\ section[m] = "inside" /\ resource[m] = table[e]
      BY DEF IInv, LocksMatchSections
    <3>2. section[m] = "inside" => InTable(resource[m])
      BY DEF IInv, LocksMatchSections
    <3>3. m = n => section[m] # "inside" /\ section'[m] # "inside"
      BY <1>3 DEF IInv, TypeOK, ResourcesTypeOK
    <3>4. m # n => section'[m] = section[m] /\ resource'[m] = resource[m]
      BY <1>3 DEF IInv, TypeOK, ResourcesTypeOK
    <3>5. m # n /\ section[m] = "inside" /\ e \in DOMAIN table' \ DOMAIN table
            => resource[m] # table'[e]
      BY <1>2, <3>2
    <3> QED  BY <1>2, <1>3, <3>1, <3>3, <3>4, <3>5
  <2> QED  BY <1>2, <2>1, <2>2, <2>3 DEF LocksMatchSections
<1>6. RecordsComplete'
  BY <1>2, <1>3 DEF IInv, RecordsComplete, EverySectionIsMeasured, TableRange
<1> QED  BY <1>4, <1>5, <1>6

LEMMA LockKeepsSections ==
  ASSUME IInv, NEW n \in Nodes, NEW e \in DOMAIN table, Lock(n, e), UNCHANGED traceVars
  PROVE  ResourcesTypeOK' /\ LocksMatchSections' /\ RecordsComplete'
<1>1. e \in Entries /\ e \in DOMAIN holder
  BY ResourcesAssumption DEF IInv, TypeOK, ResourcesTypeOK, Entries
<1>2. ResourcesTypeOK'
  BY <1>1 DEF IInv, TypeOK, ResourcesTypeOK, Lock, Entries
<1>3. LocksMatchSections'
  BY <1>1, ResourcesAssumption
     DEF IInv, TypeOK, ResourcesTypeOK, LocksMatchSections, InTable, Lock
<1>4. RecordsComplete'
  BY DEF IInv, RecordsComplete, EverySectionIsMeasured, TableRange, Lock
<1> QED  BY <1>2, <1>3, <1>4

LEMMA UnlockKeepsSections ==
  ASSUME IInv, NEW n \in Nodes, NEW e \in DOMAIN table, Unlock(n, e), UNCHANGED traceVars
  PROVE  ResourcesTypeOK' /\ LocksMatchSections' /\ RecordsComplete'
<1>1. e \in Entries /\ e \in DOMAIN holder
  BY ResourcesAssumption DEF IInv, TypeOK, ResourcesTypeOK, Entries
<1>2. resource[n] \in Resources /\ resource[n] \in TableRange
  BY ResourcesAssumption
     DEF IInv, TypeOK, ResourcesTypeOK, LocksMatchSections, Unlock, TableRange
<1>3. ResourcesTypeOK'
  BY <1>1, <1>2 DEF IInv, TypeOK, ResourcesTypeOK, Unlock, Record, Entries
<1>4. LocksMatchSections'
  <2>1. \A m \in Nodes : holder[e] = m <=> m = n
    BY <1>1 DEF IInv, LocksMatchSections, Unlock
  <2> QED
    BY <1>1, <2>1, ResourcesAssumption
       DEF IInv, TypeOK, ResourcesTypeOK, LocksMatchSections, InTable, Unlock
<1>5. RecordsComplete'
  <2>1. recorded[n] = used[n] /\ recorded[n] \in SUBSET TableRange
    BY DEF IInv, RecordsComplete, EverySectionIsMeasured
  <2>2. Record(n) = used[n] \cup {resource[n]}
    <3>1. CASE Cardinality(recorded[n]) < TableSize
      BY <2>1, <3>1 DEF Record
    <3>2. CASE ~ (Cardinality(recorded[n]) < TableSize)
      <4>1. resource[n] \in recorded[n]
        BY <1>2, <2>1, <3>2, FullRecordMissesNothing DEF IInv
      <4> QED  BY <2>1, <3>2, <4>1 DEF Record
    <3> QED  BY <3>1, <3>2
  <2> QED
    BY <1>2, <2>1, <2>2
       DEF IInv, TypeOK, ResourcesTypeOK, RecordsComplete, EverySectionIsMeasured,
           TableRange, Unlock
<1> QED  BY <1>3, <1>4, <1>5

LEMMA CloseKeepsSections ==
  ASSUME IInv, NEW n \in Nodes, Close(n), UNCHANGED traceVars
  PROVE  ResourcesTypeOK' /\ LocksMatchSections' /\ RecordsComplete'
<1>1. ResourcesTypeOK'
  BY DEF IInv, TypeOK, ResourcesTypeOK, Close, Entries
<1>2. LocksMatchSections'
  BY ResourcesAssumption
     DEF IInv, TypeOK, ResourcesTypeOK, LocksMatchSections, InTable, Close
<1>3. RecordsComplete'
  BY DEF IInv, RecordsComplete, EverySectionIsMeasured, TableRange, Close
<1> QED  BY <1>1, <1>2, <1>3

(* A step on a section leaves the trace alone, and is taken by a node      *)
(* that has stamped nothing.                                               *)
LEMMA SectionsKeepStamps ==
  ASSUME IInv, NEW n \in Nodes, UseResource(n)
  PROVE  StampsAreFresh' /\ SectionsInOrder'
<1>1. stamp[n] = 0 /\ UNCHANGED <<clock, stamp, lock, log>>
  BY DEF UseResource, traceVars
<1>2. ASSUME NEW m \in Nodes, m # n
      PROVE  section'[m] = section[m] /\ resource'[m] = resource[m]
  BY <1>2 DEF UseResource, ResourceStep, Begin, Lock, Unlock, Close, IInv, TypeOK, ResourcesTypeOK
<1>3. StampsAreFresh'
  BY <1>1, <1>2 DEF IInv, StampsAreFresh
<1> QED  BY <1>1, <1>3 DEF IInv, SectionsInOrder

LEMMA LogFacts ==
  ASSUME IInv
  PROVE  /\ clock \in Nat /\ \A n \in Nodes : stamp[n] \in Nat /\ stamp[n] <= clock
         /\ log \in Seq(Events) /\ Len(log) \in Nat /\ DOMAIN log = 1 .. Len(log)
         /\ \A i \in DOMAIN log : /\ log[i] \in Events /\ log[i].time \in Nat
                                  /\ log[i].time <= clock
<1>1. log \in Seq(Events) /\ Len(log) \in Nat /\ DOMAIN log = 1 .. Len(log)
  BY DEF IInv, TypeOK
<1>2. \A i \in DOMAIN log : log[i] \in Events
  BY <1>1
<1>3. \A i \in DOMAIN log : log[i].time \in Nat
  BY <1>2 DEF Events
<1> QED  BY <1>1, <1>2, <1>3 DEF IInv, TypeOK, StampsAreFresh

LEMMA StampKeepsOrder ==
  ASSUME IInv, NEW n \in Nodes, section[n] \in {"none", "inside"}, Stamp(n),
         UNCHANGED resourceVars
  PROVE  /\ clock' \in Nat /\ stamp' \in [Nodes -> Nat] /\ log' \in Seq(Events)
         /\ lock' \subseteq Nodes /\ StampsAreFresh' /\ SectionsInOrder'
<1>1. /\ clock' = clock + 1 /\ stamp' = [stamp EXCEPT ![n] = clock + 1]
      /\ UNCHANGED <<lock, log, section, resource>>
  BY DEF Stamp, resourceVars
<1>2. \A i \in DOMAIN log : log[i].time \in Nat /\ log[i].time <= clock
  BY LogFacts
<1>3. StampsAreFresh'
  BY <1>1, <1>2 DEF IInv, TypeOK, StampsAreFresh
<1> QED  BY <1>1, <1>3 DEF IInv, TypeOK, SectionsInOrder

LEMMA OverwriteKeepsOrder ==
  ASSUME IInv, NEW n \in Nodes, section[n] \in {"none", "inside"}, Overwrite(n),
         UNCHANGED resourceVars
  PROVE  /\ clock' \in Nat /\ stamp' \in [Nodes -> Nat] /\ log' \in Seq(Events)
         /\ lock' \subseteq Nodes /\ StampsAreFresh' /\ SectionsInOrder'
<1>1. /\ stamp[n] # 0 /\ lock' = {n}
      /\ UNCHANGED <<clock, stamp, log, section, resource>>
  BY DEF Overwrite, resourceVars
<1>2. StampsAreFresh'  BY <1>1 DEF IInv, StampsAreFresh
<1> QED  BY <1>1, <1>2 DEF IInv, TypeOK, SectionsInOrder

LEMMA StoreKeepsOrder ==
  ASSUME IInv, NEW n \in Nodes, section[n] \in {"none", "inside"}, Store(n, MarkOf(n)),
         UNCHANGED resourceVars
  PROVE  /\ clock' \in Nat /\ stamp' \in [Nodes -> Nat] /\ log' \in Seq(Events)
         /\ lock' \subseteq Nodes /\ StampsAreFresh' /\ SectionsInOrder'
<1> DEFINE event == [time |-> stamp[n], mark |-> MarkOf(n)]
           last == Len(log) + 1
<1>1. /\ stamp[n] # 0 /\ stamp' = [stamp EXCEPT ![n] = 0] /\ lock' = {}
      /\ log' = Append(log, event)
      /\ UNCHANGED <<clock, section, resource>>
  BY DEF Store, resourceVars, IInv, StampsAreFresh
<1>2. stamp[n] \in Nat /\ stamp[n] <= clock /\ clock \in Nat
      /\ log \in Seq(Events) /\ Len(log) \in Nat /\ DOMAIN log = 1 .. Len(log)
      /\ \A i \in DOMAIN log : log[i] \in Events /\ log[i].time \in Nat
  BY LogFacts
<1>3. /\ event.time = stamp[n] /\ event.mark = MarkOf(n)
      /\ MarkOf(n) = IF section[n] = "inside" THEN resource[n] ELSE Nobody
      /\ event \in Events
  BY <1>2 DEF MarkOf, Events, Marks, IInv, TypeOK, ResourcesTypeOK
<1> HIDE DEF event
<1>4. /\ log' \in Seq(Events) /\ DOMAIN log' = 1 .. last
      /\ log'[last] = event
      /\ \A i \in DOMAIN log : log'[i] = log[i]
  BY <1>1, <1>2, <1>3
<1>5. StampsAreFresh'
  <2>1. \A i \in DOMAIN log' : log'[i].time <= clock'
    BY <1>1, <1>2, <1>3, <1>4 DEF IInv, StampsAreFresh
  <2>2. \A m \in Nodes : /\ stamp'[m] <= clock'
                         /\ stamp'[m] # 0 => section'[m] \in {"none", "inside"}
    BY <1>1, <1>2 DEF IInv, TypeOK, StampsAreFresh
  <2>3. ASSUME NEW m \in Nodes, NEW i \in DOMAIN log',
               stamp'[m] # 0, section'[m] = "inside", log'[i].mark = resource'[m]
        PROVE  log'[i].time < stamp'[m]
    <3>1. m # n /\ stamp'[m] = stamp[m] /\ section[m] = "inside"
      BY <1>1, <2>3 DEF IInv, TypeOK
    <3>2. CASE i \in DOMAIN log
      BY <1>1, <1>4, <2>3, <3>1, <3>2 DEF IInv, StampsAreFresh
    <3>3. CASE i = last
      <4>1. MarkOf(n) = resource[m]
        BY <1>1, <1>3, <1>4, <2>3, <3>3
      <4>2. resource[m] # Nobody
        BY <3>1 DEF IInv, LocksMatchSections
      <4>3. section[n] = "inside" /\ resource[n] = resource[m]
        BY <1>3, <4>1, <4>2
      <4>4. PICK e \in DOMAIN table : table[e] = resource[m]
        BY <4>2 DEF IInv, LocksMatchSections, InTable
      <4>5. e \in Entries
        BY <4>4, ResourcesAssumption DEF IInv, TypeOK, ResourcesTypeOK, Entries
      <4>6. holder[e] = n /\ holder[e] = m
        BY <3>1, <4>3, <4>4, <4>5 DEF IInv, LocksMatchSections
      <4> QED  BY <3>1, <4>6
    <3> QED  BY <1>2, <1>4, <3>2, <3>3
  <2> QED  BY <1>1, <2>1, <2>2, <2>3 DEF StampsAreFresh
<1>6. SectionsInOrder'
  <2>1. ASSUME NEW i \in DOMAIN log', NEW j \in DOMAIN log',
               i < j, log'[i].mark # Nobody, log'[i].mark = log'[j].mark
        PROVE  log'[i].time < log'[j].time
    <3>1. i \in DOMAIN log  BY <1>2, <1>4, <2>1
    <3>2. CASE j \in DOMAIN log
      BY <1>4, <2>1, <3>1, <3>2 DEF IInv, SectionsInOrder
    <3>3. CASE j = last
      <4>1. log[i].mark = MarkOf(n) /\ MarkOf(n) # Nobody
        BY <1>3, <1>4, <2>1, <3>1, <3>3
      <4>2. section[n] = "inside" /\ log[i].mark = resource[n]
        BY <1>3, <4>1
      <4>3. log[i].time < stamp[n]
        BY <1>1, <3>1, <4>2 DEF IInv, StampsAreFresh
      <4> QED  BY <1>3, <1>4, <3>1, <3>3, <4>3
    <3> QED  BY <1>2, <1>4, <3>2, <3>3
  <2> QED  BY <2>1 DEF SectionsInOrder
<1> QED  BY <1>1, <1>2, <1>4, <1>5, <1>6 DEF IInv, TypeOK

-----------------------------------------------------------------------------
LEMMA InvNext ==
  ASSUME IInv, [Next]_vars
  PROVE  IInv'
<1>1. CASE Export \/ Gather \/ UNCHANGED vars \/ \E n \in Nodes : Meet(n)
  <2>1. UNCHANGED <<table, holder, section, resource, recorded, used, clock, stamp, lock, log>>
    BY <1>1 DEF Export, Gather, Meet, vars, Exporter, Snapshot, Copy, resourceVars, traceVars
  <2> QED
    BY <2>1 DEF IInv, TypeOK, ResourcesTypeOK, LocksMatchSections, InTable, RecordsComplete,
                EverySectionIsMeasured, TableRange, StampsAreFresh, SectionsInOrder
<1>2. ASSUME NEW n \in Nodes, UseResource(n)
      PROVE  IInv'
  <2>1. ResourceStep(n) /\ UNCHANGED traceVars
    BY <1>2 DEF UseResource
  <2>2. ResourcesTypeOK' /\ LocksMatchSections' /\ RecordsComplete'
    BY <2>1, BeginKeepsSections, LockKeepsSections, UnlockKeepsSections, CloseKeepsSections
       DEF ResourceStep
  <2>3. StampsAreFresh' /\ SectionsInOrder'
    BY <1>2, SectionsKeepStamps
  <2>4. TypeOK'
    BY <2>1, <2>2 DEF IInv, TypeOK, traceVars
  <2> QED  BY <2>2, <2>3, <2>4 DEF IInv
<1>3. ASSUME NEW n \in Nodes, Trace(n)
      PROVE  IInv'
  <2>1. /\ UNCHANGED resourceVars /\ section[n] \in {"none", "inside"}
        /\ Stamp(n) \/ Store(n, MarkOf(n)) \/ Overwrite(n)
    BY <1>3 DEF Trace
  <2>2. /\ clock' \in Nat /\ stamp' \in [Nodes -> Nat] /\ log' \in Seq(Events)
        /\ lock' \subseteq Nodes /\ StampsAreFresh' /\ SectionsInOrder'
    BY <2>1, StampKeepsOrder, StoreKeepsOrder, OverwriteKeepsOrder
  <2>3. ResourcesTypeOK' /\ LocksMatchSections' /\ RecordsComplete'
    BY <2>1 DEF resourceVars, IInv, TypeOK, ResourcesTypeOK, LocksMatchSections, InTable,
                RecordsComplete, EverySectionIsMeasured, TableRange
  <2> QED  BY <2>2, <2>3 DEF IInv, TypeOK
<1> QED  BY <1>1, <1>2, <1>3 DEF Next

THEOREM InductiveInvariant == Spec => []IInv
BY InvInit, InvNext, PTL DEF Spec

-----------------------------------------------------------------------------
(* Two nodes are never inside sections on the same resource.               *)
THEOREM SectionsExclude == Spec => []MutualExclusion
<1>1. IInv => MutualExclusion
  <2> SUFFICES ASSUME IInv, NEW n \in Nodes, NEW m \in Nodes,
                      section[n] = "inside", section[m] = "inside", resource[n] = resource[m]
               PROVE  n = m
    BY DEF MutualExclusion
  <2>1. PICK e \in DOMAIN table : table[e] = resource[n]
    BY DEF IInv, LocksMatchSections, InTable
  <2>2. e \in Entries
    BY <2>1, ResourcesAssumption DEF IInv, TypeOK, ResourcesTypeOK, Entries
  <2> QED  BY <2>1, <2>2 DEF IInv, LocksMatchSections
<1> QED  BY <1>1, InductiveInvariant, PTL

(* A node that waits for the lock of a resource holds no other.            *)
THEOREM NobodyHoldsAndWaits == Spec => []NoHoldAndWait
<1>1. IInv => NoHoldAndWait
  BY DEF IInv, LocksMatchSections, NoHoldAndWait
<1> QED  BY <1>1, InductiveInvariant, PTL

(* The record of the resources of a node, which the response-time analysis *)
(* reads, is complete however many resources there are.                    *)
THEOREM SectionsAreMeasured == Spec => []EverySectionIsMeasured
<1>1. IInv => EverySectionIsMeasured
  BY DEF IInv, RecordsComplete
<1> QED  BY <1>1, InductiveInvariant, PTL

(* The events written in the sections of one resource are stored in the    *)
(* order of their times.                                                   *)
THEOREM TraceOrdersSections == Spec => []SectionsInOrder
<1>1. IInv => SectionsInOrder
  BY DEF IInv
<1> QED  BY <1>1, InductiveInvariant, PTL

-----------------------------------------------------------------------------
(***************************************************************************)
(* The ring of trace events and its export, for any capacity that divides  *)
(* the range of the counters, and however often those have wrapped.        *)
(***************************************************************************)

(* The newest event there is, the one that is being written included.      *)
Newest == IF lock = {} THEN Len(log) ELSE Len(log) + 1

(* A word in a slot is of the newest of the events that were stored there, *)
(* or of the one that is being written over it.                            *)
SlotsAreNewest ==
  \A k \in 1 .. Len(log), p \in Words :
    LET found == ring[(k - 1) % Capacity][p] IN
    /\ found \in k .. Newest
    /\ (found - 1) % Capacity = (k - 1) % Capacity

RingCounters ==
  /\ stored \in 0 .. Capacity /\ dropped \in Nat
  /\ head = Len(log) % HeadModulus
  /\ (stored + dropped) % HeadModulus = head
  /\ stored <= Len(log) /\ (stored < Capacity => Len(log) = stored)

(* The counters an export works with are those of an earlier moment.       *)
ExportCounters ==
  /\ export \in [n : 0 .. Capacity, head : Nat, out : Seq(Nat), from : Nat]
  /\ export.n <= export.from /\ export.from <= Len(log)
  /\ export.head = export.from % HeadModulus
  /\ Len(export.out) <= 2 * export.n

(* The inductive invariant.                                                *)
RingInv ==
  /\ log \in Seq(Events)
  /\ ring \in [0 .. Capacity - 1 -> [Words -> Nat]]
  /\ RingCounters
  /\ SlotsAreNewest
  /\ ExportCounters
  /\ ExportNeverStale

-----------------------------------------------------------------------------
LEMMA RingNumbers ==
  /\ Capacity \in Nat \ {0} /\ HeadModulus \in Nat \ {0} /\ HeadModulus % Capacity = 0
  /\ \A x \in Int : x % Capacity \in 0 .. Capacity - 1
  /\ \A x \in Int : x % HeadModulus \in 0 .. HeadModulus - 1
BY TraceAssumption, DivMod

(* A counter that wraps.                                                   *)
LEMMA CounterNext ==
  ASSUME NEW x \in Int
  PROVE  /\ x % HeadModulus \in Nat
         /\ ((x % HeadModulus) + 1) % HeadModulus = (x + 1) % HeadModulus
<1>1. HeadModulus \in Nat \ {0} /\ 1 \in Int  BY RingNumbers
<1>2. (1 + (x % HeadModulus)) % HeadModulus = (1 + x) % HeadModulus
  BY <1>1, ModPlus
<1>3. x % HeadModulus \in 0 .. HeadModulus - 1
  BY RingNumbers
<1>4. 1 + (x % HeadModulus) = (x % HeadModulus) + 1 /\ 1 + x = x + 1
  BY <1>3
<1> QED  BY <1>1, <1>2, <1>3, <1>4

LEMMA RingInit == Init => RingInv
<1> SUFFICES ASSUME Init PROVE RingInv
  OBVIOUS
<1>1. /\ log = <<>> /\ ring = [i \in 0 .. Capacity - 1 |-> [p \in Words |-> 0]]
      /\ head = 0 /\ stored = 0 /\ dropped = 0
      /\ export = [n |-> 0, head |-> 0, out |-> <<>>, from |-> 0]
  BY DEF Init, TraceInit, Idle
<1>2. 0 % HeadModulus = 0
  <2>1. 0 = HeadModulus * 0 + 0 /\ 0 \in 0 .. HeadModulus - 1  BY RingNumbers
  <2> QED  BY <2>1, RingNumbers, ModUnique
<1>3. RingCounters
  BY <1>1, <1>2, RingNumbers DEF RingCounters
<1>4. ExportCounters /\ ExportNeverStale
  BY <1>1, <1>2, RingNumbers DEF ExportCounters, ExportNeverStale
<1>5. SlotsAreNewest
  BY <1>1 DEF SlotsAreNewest
<1> QED  BY <1>1, <1>3, <1>4, <1>5 DEF RingInv

(* rx_trace_write puts an event where an export will look for it.          *)
LEMMA SlotOfNext ==
  ASSUME RingInv
  PROVE  head % Capacity = Len(log) % Capacity /\ head % Capacity \in 0 .. Capacity - 1
<1>1. Len(log) \in Int /\ head = Len(log) % HeadModulus /\ head \in Int
  BY RingNumbers DEF RingInv, RingCounters
<1> QED  BY <1>1, RingNumbers, ModMod

(* An event that is written to the slot where its place in the log puts    *)
(* it is the newest there.                                                 *)
LEMMA OverwriteKeepsRing ==
  ASSUME IInv, RingInv, NEW n \in Nodes, Overwrite(n)
  PROVE  RingInv'
<1> DEFINE slot == head % Capacity
           last == Len(log) + 1
<1>1. /\ ring' = [ring EXCEPT ![slot].time = last] /\ lock = {} /\ lock' = {n}
      /\ UNCHANGED <<head, stored, dropped, log, export>>
  BY DEF Overwrite
<1>2. Len(log) \in Nat /\ slot = Len(log) % Capacity /\ slot \in 0 .. Capacity - 1
  BY SlotOfNext DEF RingInv
<1> HIDE DEF slot
<1>3. ring' \in [0 .. Capacity - 1 -> [Words -> Nat]]
  BY <1>1, <1>2 DEF RingInv, Words
<1>4. SlotsAreNewest'
  <2> SUFFICES ASSUME NEW k \in 1 .. Len(log), NEW p \in Words
               PROVE  /\ ring'[(k - 1) % Capacity][p] \in k .. last
                      /\ (ring'[(k - 1) % Capacity][p] - 1) % Capacity = (k - 1) % Capacity
    BY <1>1 DEF SlotsAreNewest, Newest
  <2>1. (k - 1) % Capacity \in 0 .. Capacity - 1
    <3>1. k - 1 \in Int  BY <1>2
    <3> QED  BY <3>1, RingNumbers
  <2>2. CASE (k - 1) % Capacity = slot /\ p = "time"
    <3>1. ring'[(k - 1) % Capacity][p] = last
      BY <1>1, <1>2, <2>2 DEF RingInv, Words
    <3>2. last - 1 = Len(log) /\ last \in k .. last  BY <1>2
    <3> QED  BY <1>2, <2>2, <3>1, <3>2
  <2>3. CASE ~ ((k - 1) % Capacity = slot /\ p = "time")
    <3>1. ring'[(k - 1) % Capacity][p] = ring[(k - 1) % Capacity][p]
      BY <1>1, <1>2, <2>1, <2>3 DEF RingInv, Words
    <3>2. /\ ring[(k - 1) % Capacity][p] \in k .. Len(log)
          /\ (ring[(k - 1) % Capacity][p] - 1) % Capacity = (k - 1) % Capacity
      BY <1>1 DEF RingInv, SlotsAreNewest, Newest
    <3> QED  BY <1>2, <3>1, <3>2
  <2> QED  BY <2>2, <2>3
<1> QED
  BY <1>1, <1>3, <1>4 DEF RingInv, RingCounters, ExportCounters, ExportNeverStale

LEMMA StoreKeepsRing ==
  ASSUME IInv, RingInv, NEW n \in Nodes, NEW mark \in Marks, Store(n, mark)
  PROVE  RingInv'
<1> DEFINE event == [time |-> stamp[n], mark |-> mark]
           slot == head % Capacity
           last == Len(log) + 1
<1>1. event \in Events
  BY LogFacts DEF Events
<1> HIDE DEF event
<1>2. /\ log \in Seq(Events) /\ Len(log) \in Nat
      /\ log' = Append(log, event) /\ log' \in Seq(Events) /\ Len(log') = last
  BY <1>1 DEF RingInv, Store, event
<1>3. /\ slot = Len(log) % Capacity /\ slot \in 0 .. Capacity - 1 /\ lock' = {}
      /\ ring' = [ring EXCEPT ![slot] = [p \in Words |-> last]]
      /\ ring' \in [0 .. Capacity - 1 -> [Words -> Nat]]
  BY <1>2, SlotOfNext DEF Store, RingInv
<1> HIDE DEF slot
<1>4. RingCounters'
  <2>0. Capacity \in Nat  BY RingNumbers
  <2>1. /\ stored \in 0 .. Capacity /\ dropped \in Nat /\ stored <= Len(log)
        /\ head = Len(log) % HeadModulus /\ (stored + dropped) % HeadModulus = head
        /\ stored < Capacity => Len(log) = stored
    BY DEF RingInv, RingCounters
  <2>2. head' = (head + 1) % HeadModulus
    BY DEF Store
  <2>3. head' = Len(log') % HeadModulus
    <3>1. Len(log) \in Int  BY <1>2
    <3> QED  BY <1>2, <2>1, <2>2, <3>1, CounterNext
  <2>4. PICK sum \in Int : sum = stored + dropped  BY <2>0, <2>1
  <2>5. head' = (sum + 1) % HeadModulus
    BY <2>1, <2>2, <2>4, CounterNext
  <2>6. sum + 1 \in Int /\ head \in Nat
    BY <2>1, <2>4, CounterNext
  <2>7. CASE stored < Capacity
    <3>1. stored' = stored + 1 /\ dropped' = dropped
      BY <2>7 DEF Store, Count
    <3>2. stored' + dropped' = sum + 1
      BY <2>0, <2>1, <2>4, <3>1
    <3>3. stored' \in 0 .. Capacity /\ stored' <= last /\ (stored' < Capacity => last = stored')
      BY <1>2, <2>0, <2>1, <2>7, <3>1
    <3> QED  BY <1>2, <2>1, <2>3, <2>5, <3>1, <3>2, <3>3 DEF RingCounters
  <2>8. CASE ~ (stored < Capacity)
    <3>1. stored' = stored /\ dropped' = (dropped + 1) % HeadModulus
      BY <2>8 DEF Store, Count
    <3>2. dropped + 1 \in Int /\ stored \in Int
      BY <2>0, <2>1
    <3>3. (stored + ((dropped + 1) % HeadModulus)) % HeadModulus
            = (stored + (dropped + 1)) % HeadModulus
      BY <3>2, RingNumbers, ModPlus, ZenonT(40)
    <3>4. stored + (dropped + 1) = sum + 1
      BY <2>0, <2>1, <2>4
    <3>5. (stored' + dropped') % HeadModulus = head'
      BY <2>5, <3>1, <3>3, <3>4
    <3>6. dropped' \in Nat
      BY <3>1, <3>2, CounterNext
    <3>7. stored' \in 0 .. Capacity /\ stored' <= last /\ ~ (stored' < Capacity)
      BY <1>2, <2>0, <2>1, <2>8, <3>1
    <3> QED  BY <1>2, <2>3, <3>5, <3>6, <3>7 DEF RingCounters
  <2> QED  BY <2>7, <2>8
<1>5. SlotsAreNewest'
  <2>0. n \in lock  BY DEF Store
  <2>1. ASSUME NEW k \in 1 .. last, NEW p \in Words
        PROVE  /\ ring'[(k - 1) % Capacity][p] \in k .. last
               /\ (ring'[(k - 1) % Capacity][p] - 1) % Capacity = (k - 1) % Capacity
    <3>1. (k - 1) % Capacity \in 0 .. Capacity - 1
      <4>1. k - 1 \in Int  BY <1>2
      <4> QED  BY <4>1, RingNumbers
    <3>2. CASE (k - 1) % Capacity = slot
      <4>1. ring'[(k - 1) % Capacity][p] = last
        BY <1>3, <3>1, <3>2 DEF RingInv
      <4>2. last - 1 = Len(log) /\ last \in k .. last
        BY <1>2
      <4> QED  BY <1>3, <3>2, <4>1, <4>2
    <3>3. CASE (k - 1) % Capacity # slot
      <4>1. k # last
        <5>1. last - 1 = Len(log)  BY <1>2
        <5> QED  BY <1>3, <3>3, <5>1
      <4>2. k \in 1 .. Len(log)
        BY <1>2, <4>1
      <4>3. ring'[(k - 1) % Capacity][p] = ring[(k - 1) % Capacity][p]
        BY <1>3, <3>1, <3>3 DEF RingInv
      <4>4. /\ ring[(k - 1) % Capacity][p] \in k .. Len(log)
            /\ (ring[(k - 1) % Capacity][p] - 1) % Capacity = (k - 1) % Capacity
        <5>1. /\ ring[(k - 1) % Capacity][p] \in k .. last
              /\ (ring[(k - 1) % Capacity][p] - 1) % Capacity = (k - 1) % Capacity
          BY <2>0, <4>2 DEF RingInv, SlotsAreNewest, Newest
        <5>2. ring[(k - 1) % Capacity][p] # last
          <6>1. last - 1 = Len(log)  BY <1>2
          <6> QED  BY <1>3, <3>3, <5>1, <6>1
        <5> QED  BY <1>2, <5>1, <5>2
      <4> QED  BY <1>2, <4>3, <4>4
    <3> QED  BY <3>2, <3>3
  <2> QED  BY <1>2, <1>3, <2>1 DEF SlotsAreNewest, Newest
<1>6. ExportCounters' /\ ExportNeverStale'
  <2>1. export' = export /\ Len(log') >= Len(log)  BY <1>2 DEF Store
  <2>2. export.from \in Nat  BY DEF RingInv, ExportCounters
  <2>3. ExportCounters'  BY <1>2, <2>1, <2>2 DEF RingInv, ExportCounters
  <2>4. ExportNeverStale'  BY <2>1 DEF RingInv, ExportNeverStale
  <2> QED  BY <2>3, <2>4
<1> QED  BY <1>2, <1>3, <1>4, <1>5, <1>6 DEF RingInv

(* Two words to an event.                                                  *)
LEMMA HalfNext ==
  ASSUME NEW l \in Nat, NEW n \in Nat, l < 2 * n
  PROVE  /\ l \div 2 \in Nat /\ l \div 2 < n
         /\ ((l + 1) + 1) \div 2 = (l \div 2) + 1
OBVIOUS

(* The copy of an export, without the lock, while events are stored.       *)
LEMMA CopyKeepsExport ==
  ASSUME RingInv, Copy
  PROVE  RingInv'
<1> DEFINE i == Len(export.out) + 1
           e == Len(export.out) \div 2
           word == IF Len(export.out) % 2 = 0 THEN "time" ELSE "rest"
           promised == export.from - export.n + (e + 1)
           slot == (First + e) % Capacity
<1>1. /\ export.n \in 0 .. Capacity /\ export.from \in Nat /\ export.head \in Nat
      /\ export.out \in Seq(Nat) /\ Len(export.out) \in Nat
      /\ Len(export.out) < 2 * export.n /\ export.n <= export.from /\ export.from <= Len(log)
      /\ Len(log) \in Nat /\ Capacity \in Nat \ {0} /\ HeadModulus \in Nat \ {0}
  BY RingNumbers, SMTT(30) DEF RingInv, ExportCounters, Copy
<1>1a. export.head = export.from % HeadModulus
  BY DEF RingInv, ExportCounters
<1>2. UNCHANGED <<clock, stamp, lock, ring, head, stored, dropped, log>>
      /\ export' = [export EXCEPT !.out = Append(@, ring[slot][word])]
  BY DEF Copy
<1>2a. e \in Nat /\ e < export.n /\ (i + 1) \div 2 = e + 1
  <2>1. PICK l \in Nat : l = Len(export.out)  BY <1>1
  <2>2. export.n \in Nat /\ l < 2 * export.n  BY <1>1, <2>1
  <2>3. /\ l \div 2 \in Nat /\ l \div 2 < export.n
        /\ ((l + 1) + 1) \div 2 = (l \div 2) + 1
    BY <2>2, HalfNext
  <2> QED  BY <2>1, <2>3
<1>2b. word \in Words  BY DEF Words
<1> HIDE DEF slot, word, e
<1>3. promised \in 1 .. Len(log) /\ promised <= export.from
      /\ promised + Capacity > export.from
  BY <1>1, <1>2a, SMTT(30)
<1>4. slot = (promised - 1) % Capacity
  <2> DEFINE d == export.from \div HeadModulus
             k == HeadModulus \div Capacity
             b == export.head + HeadModulus - export.n
             a == export.from - export.n
  <2>1. /\ d \in Int /\ export.from = HeadModulus * d + export.head
        /\ k \in Int /\ HeadModulus = Capacity * k
    <3>1. HeadModulus % Capacity = 0  BY RingNumbers
    <3>2. /\ d \in Int /\ export.from = HeadModulus * d + (export.from % HeadModulus)
          /\ k \in Int /\ HeadModulus = Capacity * k + (HeadModulus % Capacity)
      <4>1. export.from \in Int /\ HeadModulus \in Int  BY <1>1
      <4>2. d \in Int /\ export.from = HeadModulus * d + (export.from % HeadModulus)
        BY <1>1, <4>1, DivMod
      <4>3. k \in Int /\ HeadModulus = Capacity * k + (HeadModulus % Capacity)
        BY <1>1, <4>1, DivMod
      <4> QED  BY <4>2, <4>3
    <3> HIDE DEF d, k
    <3>3. Capacity * k \in Int  BY <1>1, <3>2
    <3>4. Capacity * k + 0 = Capacity * k  BY <3>3
    <3> QED  BY <1>1a, <3>1, <3>2, <3>4
  <2>2. a \in Int /\ b \in Int
    BY <1>1
  <2> HIDE DEF d, k
  <2>3. \E q \in Int : b = a + Capacity * q
    <3>1. PICK j \in Int : j = 1 - d  BY <2>1
    <3>2. b = a + HeadModulus * j
      <4>1. HeadModulus * j = HeadModulus - HeadModulus * d
        BY <1>1, <2>1, <3>1
      <4>2. PICK u \in Int : u = HeadModulus * d  BY <1>1, <2>1
      <4>3. export.from = u + export.head /\ HeadModulus * j = HeadModulus - u
        BY <2>1, <4>1, <4>2
      <4>4. PICK v \in Int : v = HeadModulus * j  BY <1>1, <4>3
      <4>5. v = HeadModulus - u /\ export.from = u + export.head  BY <4>3, <4>4
      <4>6. export.from \in Int /\ export.head \in Int /\ export.n \in Int /\ HeadModulus \in Int
        BY <1>1
      <4>7. b = a + v  BY <4>2, <4>4, <4>5, <4>6
      <4> QED  BY <4>4, <4>7
    <3>3. (Capacity * k) * j = Capacity * (k * j) /\ k * j \in Int
      <4>1. Capacity \in Int /\ k \in Int /\ j \in Int  BY <1>1, <2>1, <3>1
      <4> QED  BY <4>1
    <3> QED  BY <2>1, <3>2, <3>3
  <2> HIDE DEF a, b
  <2>4. b % Capacity = a % Capacity
    BY <1>1, <2>2, <2>3, ModShift
  <2>5. First = a % Capacity
    BY <1>1, <2>2, <2>4, RingNumbers, ModMod, ZenonT(40) DEF First, b
  <2>6. slot = (e + (a % Capacity)) % Capacity
    <3>1. a % Capacity \in Nat  BY <1>1, <2>2, DivMod
    <3>2. First + e = e + (a % Capacity)
      BY <1>2a, <2>5, <3>1
    <3> QED  BY <3>2 DEF slot
  <2>7. slot = (e + a) % Capacity
    <3>1. e \in Int  BY <1>2a
    <3> QED  BY <1>1, <2>2, <2>6, <3>1, ModPlus
  <2>8. e + a = promised - 1
    <3>1. export.from \in Int /\ export.n \in Int  BY <1>1
    <3> QED  BY <1>2a, <3>1 DEF a, promised
  <2> QED  BY <2>7, <2>8 DEF slot
<1> HIDE DEF promised
<1> DEFINE found == ring[slot][word]
<1>5. found \in promised .. Len(log) + 1 /\ (found - 1) % Capacity = (promised - 1) % Capacity
  <2>1. found \in promised .. Newest /\ (found - 1) % Capacity = (promised - 1) % Capacity
    BY <1>2b, <1>3, <1>4 DEF RingInv, SlotsAreNewest
  <2>2. Newest \in {Len(log), Len(log) + 1}  BY DEF Newest
  <2> QED  BY <1>1, <1>3, <2>1, <2>2
<1> HIDE DEF found
<1>6. found # promised => found > export.from
  <2> SUFFICES ASSUME found # promised PROVE found > export.from
    OBVIOUS
  <2>1. PICK x \in Int, y \in Int : x = promised - 1 /\ y = found - 1
    BY <1>1, <1>3, <1>5
  <2>2. x < y /\ x % Capacity = y % Capacity
    BY <1>1, <1>3, <1>5, <2>1
  <2>3. x + Capacity <= y
    BY <1>1, <2>2, ModApart
  <2> QED  BY <1>1, <1>3, <2>1, <2>3, <1>5
<1>7. /\ export'.n = export.n /\ export'.from = export.from /\ export'.head = export.head
      /\ export'.out = Append(export.out, found) /\ export'.out \in Seq(Nat)
      /\ Len(export'.out) = i /\ export'.out[i] = found
      /\ \A j \in 1 .. Len(export.out) : export'.out[j] = export.out[j]
      /\ export' \in [n : 0 .. Capacity, head : Nat, out : Seq(Nat), from : Nat]
  <2>1. found \in Nat  BY <1>1, <1>3, <1>5
  <2>2. export'.out = Append(export.out, found) /\ export'.out \in Seq(Nat)
    BY <1>1, <1>2, <2>1 DEF RingInv, ExportCounters, found
  <2>3. /\ Len(Append(export.out, found)) = i /\ Append(export.out, found)[i] = found
        /\ \A j \in 1 .. Len(export.out) : Append(export.out, found)[j] = export.out[j]
    BY <1>1, <2>1
  <2> QED  BY <1>1, <1>2, <2>2, <2>3 DEF RingInv, ExportCounters
<1>8. ExportCounters'
  BY <1>1, <1>1a, <1>2, <1>7 DEF ExportCounters
<1>9. ExportNeverStale'
  <2>1. ASSUME NEW j \in 1 .. i
        PROVE  LET wanted == export'.from - export'.n + (j + 1) \div 2 IN
               /\ export'.out[j] >= wanted
               /\ export'.out[j] # wanted => export'.out[j] > export'.from
    <3>1. CASE j = i
      <4>1. export'.from - export'.n + (j + 1) \div 2 = promised /\ promised \in Int
        <5>1. (j + 1) \div 2 = e + 1  BY <1>2a, <3>1
        <5>2. export'.from \in Int /\ export'.n \in Int /\ e + 1 \in Int
          <6>1. export.from \in Int /\ export.n \in Int  BY <1>1
          <6> QED  BY <1>2a, <1>7, <6>1
        <5>3. promised = export'.from - export'.n + (e + 1)  BY <1>7 DEF promised
        <5> HIDE DEF promised
        <5> QED  BY <5>1, <5>2, <5>3
      <4>2. export'.out[j] = found /\ found >= promised /\ found \in Int
        BY <1>1, <1>3, <1>5, <1>7, <3>1
      <4> QED  BY <1>6, <1>7, <4>1, <4>2
    <3>2. CASE j \in 1 .. Len(export.out)
      BY <1>7, <3>2 DEF RingInv, ExportNeverStale
    <3> QED  BY <1>1, <3>1, <3>2, SMTT(30)
  <2> QED  BY <1>7, <2>1 DEF ExportNeverStale
<1> QED  BY <1>2, <1>8, <1>9 DEF RingInv, RingCounters, SlotsAreNewest, Newest

LEMMA RingNext ==
  ASSUME IInv, RingInv, [Next]_vars
  PROVE  RingInv'
<1>1. CASE UNCHANGED traceVars
  BY <1>1
     DEF traceVars, RingInv, RingCounters, SlotsAreNewest, Newest, ExportCounters, ExportNeverStale
<1>2. CASE Snapshot
  <2>1. /\ export' = [n |-> stored, head |-> head, out |-> <<>>, from |-> Len(log)]
        /\ UNCHANGED <<lock, ring, head, stored, dropped, log>>
    BY <1>2 DEF Snapshot
  <2>2. Len(log) \in Nat /\ head \in Nat /\ head = Len(log) % HeadModulus
        /\ stored \in 0 .. Capacity /\ stored <= Len(log) /\ Capacity \in Nat
    <3>1. Len(log) \in Int /\ Len(log) \in Nat  BY DEF RingInv
    <3> QED  BY <3>1, CounterNext, RingNumbers DEF RingInv, RingCounters
  <2>3. ExportCounters' /\ ExportNeverStale'
    BY <2>1, <2>2 DEF ExportCounters, ExportNeverStale
  <2> QED  BY <2>1, <2>3 DEF RingInv, RingCounters, SlotsAreNewest, Newest
<1>3. CASE Copy
  BY <1>3, CopyKeepsExport
<1>4. ASSUME NEW n \in Nodes, Trace(n)
      PROVE  RingInv'
  <2>1. MarkOf(n) \in Marks
    BY DEF MarkOf, Marks, IInv, TypeOK, ResourcesTypeOK
  <2>2. CASE Stamp(n)
    BY <2>2
       DEF Stamp, RingInv, RingCounters, SlotsAreNewest, Newest, ExportCounters, ExportNeverStale
  <2> QED  BY <1>4, <2>1, <2>2, OverwriteKeepsRing, StoreKeepsRing DEF Trace
<1> QED
  BY <1>1, <1>2, <1>3, <1>4 DEF Next, vars, Export, Exporter, Gather, Meet, UseResource

-----------------------------------------------------------------------------
(* The ring is the end of what was traced, and the rest has been counted.  *)
THEOREM RingIsTheEndOfTheLog == Spec => []RingIsLogSuffix
<1>1. ASSUME RingInv PROVE RingIsLogSuffix
  <2>1. /\ stored \in 0 .. Capacity /\ stored <= Len(log) /\ Len(log) \in Nat
        /\ Capacity \in Nat \ {0}
    BY <1>1, RingNumbers DEF RingInv, RingCounters
  <2>2. ASSUME NEW k \in Oldest .. Len(log), NEW p \in Words,
               lock = {} \/ (k - 1) % Capacity # head % Capacity
        PROVE  ring[(k - 1) % Capacity][p] = k
    <3> DEFINE found == ring[(k - 1) % Capacity][p]
    <3>1. k \in 1 .. Len(log) /\ k + Capacity > Len(log)
      BY <2>1, <2>2 DEF Oldest
    <3>2. found \in k .. Newest /\ (found - 1) % Capacity = (k - 1) % Capacity
      BY <1>1, <3>1 DEF RingInv, SlotsAreNewest
    <3> HIDE DEF found
    <3>3. found \in k .. Len(log)
      <4>1. CASE lock = {}  BY <3>2, <4>1 DEF Newest
      <4>2. CASE lock # {}
        <5>1. found \in k .. Len(log) + 1  BY <3>2, <4>2 DEF Newest
        <5>2. found # Len(log) + 1
          <6>1. (Len(log) + 1) - 1 = Len(log)  BY <2>1
          <6>2. Len(log) % Capacity # (k - 1) % Capacity
            BY <1>1, <2>2, <4>2, SlotOfNext
          <6> QED  BY <3>2, <6>1, <6>2
        <5> QED  BY <2>1, <3>1, <5>1, <5>2
      <4> QED  BY <4>1, <4>2
    <3>4. PICK x \in Int, y \in Int : x = k - 1 /\ y = found - 1
      BY <2>1, <3>1, <3>3
    <3>5. x % Capacity = y % Capacity /\ ~ (x + Capacity <= y)
      BY <2>1, <3>1, <3>2, <3>3, <3>4
    <3>6. ~ (x < y)
      BY <2>1, <3>5, ModApart
    <3>7. found = k
      BY <2>1, <3>1, <3>3, <3>4, <3>6
    <3> QED  BY <3>7 DEF found
  <2> QED  BY <1>1, <2>2 DEF RingIsLogSuffix, RingInv, RingCounters
<1> QED  BY <1>1, RingInit, RingNext, InductiveInvariant, PTL DEF Spec

(* An export never shows an event older than it announced, nor a slot that *)
(* was never written, whatever is stored while it runs.                    *)
THEOREM ExportsAreFresh == Spec => []ExportNeverStale
<1>1. RingInv => ExportNeverStale
  BY DEF RingInv
<1> QED  BY <1>1, RingInit, RingNext, InductiveInvariant, PTL DEF Spec

-----------------------------------------------------------------------------
(***************************************************************************)
(* The barriers of the ports, as the node threads use them: for any number *)
(* of threads, whatever groups they form and however often.                *)
(***************************************************************************)

Stages == {"away", "due", "evaluate", "evalWait", "deferred", "commitWait", "dump"}

BarrierTypeOK ==
  /\ port \in {"condition", "turnstile"}
  /\ group \in SUBSET Threads /\ left \in SUBSET group
  /\ stage \in [Threads -> Stages]
  /\ seen \in [Threads -> Nat]
  /\ barrier \in [Rounds -> [waiting : Nat, total : Nat, generation : Nat, tokens : Nat]]

(* Who has come to barrier r, and who is in it.                            *)
ArrivedSet(r) == {m \in group : Arrived(m, r)}
InsideSet(r)  == {m \in group : stage[m] = Inside(r)}

(* A barrier that some have not come to yet.                               *)
Open(r) ==
  /\ barrier[r].waiting = Cardinality(ArrivedSet(r))
  /\ barrier[r].generation = 0
  /\ barrier[r].tokens = 0
  /\ \A m \in group : ~ Passed(m, r)

(* One that all have come to: a turnstile has one token for each in it.    *)
Closed(r) ==
  /\ barrier[r].generation = 1
  /\ barrier[r].tokens = IF port = "turnstile" THEN Cardinality(InsideSet(r)) ELSE 0

RoundInv(r) ==
  /\ barrier[r].total = Cardinality(group)
  /\ \A m \in InsideSet(r) : seen[m] = 0
  /\ IF ArrivedSet(r) = group THEN Closed(r) ELSE Open(r)

(* The inductive invariant.                                                *)
BarrierInv ==
  /\ BarrierTypeOK
  /\ \A n \in Threads : stage[n] = "away" <=> n \notin group \ left
  /\ IF group = {} THEN \A r \in Rounds : barrier[r].tokens = 0
                   ELSE \A r \in Rounds : RoundInv(r)

-----------------------------------------------------------------------------
(* The sets of nodes of a barrier are finite.                              *)
LEMMA SetsOfNodes ==
  ASSUME BarrierTypeOK, NEW S \in SUBSET group
  PROVE  /\ IsFiniteSet(S) /\ Cardinality(S) \in Nat
         /\ IsFiniteSet(group) /\ Cardinality(group) \in Nat
         /\ Cardinality(S) = Cardinality(group) => S = group
<1>1. IsFiniteSet(group)
  BY PortsAssumption, FS_Subset, ThreadsAssumption DEF BarrierTypeOK
<1> QED  BY <1>1, FS_Subset, FS_CardinalityType

(* A step that moves no node in or out of barrier q keeps what is known    *)
(* of it.                                                                  *)
LEMMA OtherRound ==
  ASSUME NEW q \in Rounds, RoundInv(q), group' = group, port' = port,
         barrier'[q] = barrier[q],
         \A m \in group : /\ Arrived(m, q)' <=> Arrived(m, q)
                          /\ Passed(m, q)' <=> Passed(m, q)
                          /\ stage'[m] = Inside(q) <=> stage[m] = Inside(q)
                          /\ stage[m] = Inside(q) => seen'[m] = seen[m]
  PROVE  RoundInv(q)'
<1>1. ArrivedSet(q)' = ArrivedSet(q) /\ InsideSet(q)' = InsideSet(q)
  BY DEF ArrivedSet, InsideSet, Inside
<1>2. \A m \in InsideSet(q)' : seen'[m] = 0
  BY <1>1 DEF RoundInv, InsideSet
<1>3. Closed(q) => Closed(q)'
  BY <1>1 DEF Closed
<1>4. Open(q) => Open(q)'
  BY <1>1 DEF Open
<1> QED  BY <1>1, <1>2, <1>3, <1>4 DEF RoundInv

LEMMA BarrierInvInit == Init => BarrierInv
<1> SUFFICES ASSUME Init PROVE BarrierInv
  OBVIOUS
<1>1. IsFiniteSet(Threads) /\ Cardinality(Threads) \in Nat
  BY PortsAssumption, FS_CardinalityType
<1> QED
  BY <1>1, PortsAssumption DEF Init, BarrierInit, BarrierInv, BarrierTypeOK, Stages, Rounds, Reset

(* activation_group_get resets the slot for its new nodes.                 *)
LEMMA OpenGroupKeeps ==
  ASSUME BarrierInv, NEW members \in SUBSET Threads, OpenGroup(members)
  PROVE  BarrierInv'
<1>1. /\ group = {} /\ members # {} /\ group' = members /\ left' = {}
      /\ stage' = [n \in Threads |-> IF n \in members THEN "due" ELSE stage[n]]
      /\ barrier' = [r \in Rounds |-> Reset(Cardinality(members), barrier[r].tokens)]
      /\ UNCHANGED <<port, seen>>
  BY DEF OpenGroup
<1>2. IsFiniteSet(members) /\ Cardinality(members) \in Nat
  BY PortsAssumption, FS_Subset, FS_CardinalityType
<1>3. \A r \in Rounds : barrier[r].tokens = 0
  BY <1>1 DEF BarrierInv
<1>4. BarrierTypeOK'
  BY <1>1, <1>2, <1>3 DEF BarrierInv, BarrierTypeOK, Stages, Reset
<1>5. \A n \in Threads : stage'[n] = "away" <=> n \notin group' \ left'
  BY <1>1 DEF BarrierInv, BarrierTypeOK
<1>6. ASSUME NEW r \in Rounds
      PROVE  RoundInv(r)'
  <2>1. \A m \in group' : stage'[m] = "due"
    BY <1>1
  <2>2. ArrivedSet(r)' = {} /\ InsideSet(r)' = {} /\ \A m \in group' : ~ Passed(m, r)'
    BY <1>1, <2>1 DEF ArrivedSet, InsideSet, Arrived, Passed, Inside
  <2>3. barrier'[r] = [waiting |-> 0, total |-> Cardinality(members), generation |-> 0,
                       tokens |-> 0]
    BY <1>1, <1>3 DEF Reset
  <2>4. Open(r)'
    BY <2>2, <2>3, FS_EmptySet DEF Open
  <2> QED  BY <1>1, <2>2, <2>3, <2>4 DEF RoundInv
<1> QED  BY <1>1, <1>4, <1>5, <1>6 DEF BarrierInv

LEMMA ComeKeeps ==
  ASSUME BarrierInv, NEW n \in Threads, Come(n)
  PROVE  BarrierInv'
<1>1. /\ stage[n] = "due" /\ stage' = [stage EXCEPT ![n] = "evaluate"]
      /\ UNCHANGED <<port, group, left, seen, barrier>>
  BY DEF Come
<1>2. BarrierTypeOK'
  BY <1>1 DEF BarrierInv, BarrierTypeOK, Stages
<1>3. \A m \in Threads : stage'[m] = "away" <=> m \notin group' \ left'
  BY <1>1 DEF BarrierInv, BarrierTypeOK
<1>4. ASSUME NEW r \in Rounds, RoundInv(r)
      PROVE  RoundInv(r)'
  <2>1. \A m \in group : /\ Arrived(m, r)' <=> Arrived(m, r)
                         /\ Passed(m, r)' <=> Passed(m, r)
                         /\ stage'[m] = Inside(r) <=> stage[m] = Inside(r)
    BY <1>1, <1>4 DEF BarrierInv, BarrierTypeOK, Arrived, Passed, Inside, Rounds
  <2> QED  BY <1>1, <1>4, <2>1, OtherRound
<1> QED  BY <1>1, <1>2, <1>3, <1>4 DEF BarrierInv

(* rx_barrier_wait up to the wait.                                         *)
LEMMA ArriveKeeps ==
  ASSUME BarrierInv, NEW n \in Threads, NEW r \in Rounds, Arrive(n, r)
  PROVE  BarrierInv'
<1> DEFINE b == barrier[r]
           last == b.waiting + 1 = b.total
<1>1. /\ stage[n] = Before(r) /\ seen' = [seen EXCEPT ![n] = b.generation]
      /\ UNCHANGED <<port, group, left>>
  BY DEF Arrive
<1>2. n \in group \ left /\ RoundInv(r) /\ group # {}
  <2>1. n \in group \ left  BY <1>1 DEF Before, BarrierInv
  <2> QED  BY <2>1 DEF BarrierInv
<1>3. ~ Arrived(n, r) /\ ArrivedSet(r) # group /\ Open(r)
  BY <1>1, <1>2 DEF Arrived, Before, ArrivedSet, RoundInv, Rounds
<1>4. /\ b \in [waiting : Nat, total : Nat, generation : Nat, tokens : Nat]
      /\ b.waiting = Cardinality(ArrivedSet(r)) /\ b.total = Cardinality(group)
      /\ b.generation = 0 /\ b.tokens = 0
  BY <1>2, <1>3 DEF Open, RoundInv, BarrierInv, BarrierTypeOK
<1>5. barrier' = [barrier EXCEPT ![r] =
         IF last THEN [b EXCEPT !.waiting = 0, !.generation = @ + 1, !.tokens = @ + Release(b)]
                 ELSE [b EXCEPT !.waiting = @ + 1]]
  BY DEF Arrive, IsLast
<1>6. PICK l \in {Inside(r), After(r)} :
        /\ stage' = [stage EXCEPT ![n] = l]
        /\ l = IF last /\ port = "condition" THEN After(r) ELSE Inside(r)
  BY DEF Arrive, IsLast
<1>7. BarrierTypeOK'
  <2>1. Release(b) \in Nat  BY <1>4 DEF Release
  <2> DEFINE Counters == [waiting : Nat, total : Nat, generation : Nat, tokens : Nat]
  <2>2. barrier' \in [Rounds -> Counters]
    <3>1. [b EXCEPT !.waiting = 0, !.generation = @ + 1, !.tokens = @ + Release(b)] \in Counters
      <4>1. PICK k \in Nat : k = Release(b)  BY <2>1
      <4>2. b.generation + 1 \in Nat /\ b.tokens + k \in Nat  BY <1>4
      <4> QED  BY <1>4, <4>1, <4>2
    <3>2. [b EXCEPT !.waiting = @ + 1] \in Counters
      BY <1>4
    <3>3. barrier \in [Rounds -> Counters]
      BY DEF BarrierInv, BarrierTypeOK
    <3> HIDE DEF Counters, b
    <3> QED  BY <1>5, <3>1, <3>2, <3>3
  <2>3. stage' \in [Threads -> Stages]
    BY <1>6 DEF BarrierInv, BarrierTypeOK, Stages, Inside, After
  <2> QED  BY <1>1, <1>4, <2>2, <2>3 DEF BarrierInv, BarrierTypeOK
<1>8. \A m \in Threads : stage'[m] = "away" <=> m \notin group' \ left'
  BY <1>1, <1>2, <1>6 DEF BarrierInv, BarrierTypeOK, Inside, After
<1>9. ArrivedSet(r)' = ArrivedSet(r) \cup {n}
  <2>1. Arrived(n, r)'
    BY <1>6 DEF BarrierInv, BarrierTypeOK, Arrived, Inside, After, Rounds
  <2>2. \A m \in group : m # n => (Arrived(m, r)' <=> Arrived(m, r))
    BY <1>6 DEF BarrierInv, BarrierTypeOK, Arrived
  <2> QED  BY <1>1, <1>2, <2>1, <2>2 DEF ArrivedSet
<1>10. /\ Cardinality(ArrivedSet(r)') = b.waiting + 1
       /\ last <=> ArrivedSet(r)' = group
  <2>1. ArrivedSet(r) \in SUBSET group /\ ArrivedSet(r) \cup {n} \in SUBSET group
        /\ n \notin ArrivedSet(r)
    BY <1>2, <1>3 DEF ArrivedSet
  <2>2. Cardinality(ArrivedSet(r) \cup {n}) = Cardinality(ArrivedSet(r)) + 1
    BY <2>1, SetsOfNodes, FS_AddElement DEF BarrierInv
  <2>3. Cardinality(ArrivedSet(r) \cup {n}) = Cardinality(group)
          <=> ArrivedSet(r) \cup {n} = group
    BY <2>1, SetsOfNodes DEF BarrierInv
  <2> QED  BY <1>4, <1>9, <2>2, <2>3
<1>11. \A m \in InsideSet(r)' : seen'[m] = 0
  BY <1>1, <1>2, <1>4, <1>6
     DEF InsideSet, RoundInv, BarrierInv, BarrierTypeOK, Inside
<1>12. \A m \in group : m # n => ~ Passed(m, r)'
  BY <1>1, <1>3, <1>6 DEF Open, Passed, BarrierInv, BarrierTypeOK
<1>13. RoundInv(r)'
  <2>1. CASE last
    <3>1. barrier'[r] = [b EXCEPT !.waiting = 0, !.generation = @ + 1,
                                  !.tokens = @ + Release(b)]
      BY <1>5, <2>1 DEF BarrierInv, BarrierTypeOK
    <3>2. /\ barrier'[r].total = b.total /\ barrier'[r].generation = 1
          /\ barrier'[r].tokens = Release(b)
      BY <1>4, <3>1 DEF Release
    <3>3. CASE port = "turnstile"
      <4>1. l = Inside(r)  BY <1>6, <3>3
      <4>2. \A m \in group : stage'[m] = Inside(r)
        <5>1. ASSUME NEW m \in group, m # n PROVE stage'[m] = Inside(r)
          <6>1. Arrived(m, r) /\ ~ Passed(m, r)
            BY <1>3, <1>9, <1>10, <2>1, <5>1 DEF ArrivedSet, Open
          <6>2. stage[m] = "away" => m \in left
            BY DEF BarrierInv, BarrierTypeOK
          <6>3. stage[m] = Inside(r)
            BY <6>1, <6>2 DEF Arrived, Passed, Inside, BarrierInv, BarrierTypeOK, Stages, Rounds
          <6> QED  BY <1>6, <5>1, <6>3 DEF BarrierInv, BarrierTypeOK
        <5> QED  BY <1>6, <4>1, <5>1 DEF BarrierInv, BarrierTypeOK
      <4>3. InsideSet(r)' = group
        BY <1>1, <4>2 DEF InsideSet, Inside
      <4>4. Closed(r)'
        BY <1>1, <1>4, <3>2, <3>3, <4>3 DEF Closed, Release
      <4> QED  BY <1>1, <1>4, <1>10, <1>11, <2>1, <3>2, <4>4 DEF RoundInv
    <3>4. CASE port # "turnstile"
      <4>1. Closed(r)'
        BY <1>1, <3>2, <3>4 DEF Closed, Release
      <4> QED  BY <1>1, <1>4, <1>10, <1>11, <2>1, <3>2, <4>1 DEF RoundInv
    <3> QED  BY <3>3, <3>4
  <2>2. CASE ~ last
    <3>1. barrier'[r] = [b EXCEPT !.waiting = @ + 1] /\ l = Inside(r)
      BY <1>5, <1>6, <2>2 DEF BarrierInv, BarrierTypeOK
    <3>2. ~ Passed(n, r)'
      BY <1>1, <1>2, <1>6, <3>1 DEF Passed, Inside, Rounds, BarrierInv, BarrierTypeOK
    <3>3. Open(r)'
      BY <1>1, <1>4, <1>10, <1>12, <3>1, <3>2 DEF Open
    <3> QED  BY <1>1, <1>4, <1>10, <1>11, <2>2, <3>1, <3>3 DEF RoundInv
  <2> QED  BY <2>1, <2>2
<1>14. ASSUME NEW q \in Rounds, q # r
       PROVE  RoundInv(q)'
  <2>1. RoundInv(q) /\ barrier'[q] = barrier[q]
    BY <1>2, <1>5, <1>14 DEF BarrierInv, BarrierTypeOK
  <2>2. ASSUME NEW m \in group
        PROVE  /\ Arrived(m, q)' <=> Arrived(m, q)
               /\ Passed(m, q)' <=> Passed(m, q)
               /\ stage'[m] = Inside(q) <=> stage[m] = Inside(q)
               /\ stage[m] = Inside(q) => seen'[m] = seen[m]
    <3>1. CASE m = n
      BY <1>1, <1>2, <1>6, <1>14, <3>1
         DEF Arrived, Passed, Inside, After, Before, Rounds, BarrierInv, BarrierTypeOK
    <3>2. CASE m # n
      BY <1>1, <1>6, <3>2 DEF Arrived, Passed, Inside, BarrierInv, BarrierTypeOK
    <3> QED  BY <3>1, <3>2
  <2> QED  BY <1>1, <2>1, <2>2, OtherRound
<1> QED  BY <1>1, <1>2, <1>7, <1>8, <1>13, <1>14 DEF BarrierInv

(* The rest of rx_barrier_wait.                                            *)
LEMMA PassKeeps ==
  ASSUME BarrierInv, NEW n \in Threads, NEW r \in Rounds, Pass(n, r)
  PROVE  BarrierInv'
<1>1. /\ stage[n] = Inside(r) /\ MayPass(n, r)
      /\ stage' = [stage EXCEPT ![n] = After(r)]
      /\ barrier' = IF port = "turnstile"
                      THEN [barrier EXCEPT ![r].tokens = @ - 1] ELSE barrier
      /\ UNCHANGED <<port, group, left, seen>>
  BY DEF Pass
<1>2. n \in group \ left /\ RoundInv(r) /\ group # {} /\ n \in InsideSet(r)
  <2>1. n \in group \ left  BY <1>1 DEF Inside, BarrierInv
  <2> QED  BY <1>1, <2>1 DEF BarrierInv, InsideSet
<1>3. ArrivedSet(r) = group /\ Closed(r)
  BY <1>1, <1>2 DEF RoundInv, Open, MayPass, BarrierInv, BarrierTypeOK
<1>4. /\ barrier[r] \in [waiting : Nat, total : Nat, generation : Nat, tokens : Nat]
      /\ port = "turnstile" => barrier[r].tokens > 0
  BY <1>1 DEF BarrierInv, BarrierTypeOK, MayPass
<1>5. BarrierTypeOK'
  <2> DEFINE Counters == [waiting : Nat, total : Nat, generation : Nat, tokens : Nat]
  <2>1. port = "turnstile" => [barrier[r] EXCEPT !.tokens = @ - 1] \in Counters
    BY <1>4
  <2>2. barrier \in [Rounds -> Counters]
    BY DEF BarrierInv, BarrierTypeOK
  <2> HIDE DEF Counters
  <2>3. barrier' \in [Rounds -> Counters]
    BY <1>1, <2>1, <2>2
  <2>4. stage' \in [Threads -> Stages]
    BY <1>1 DEF BarrierInv, BarrierTypeOK, Stages, After
  <2> QED  BY <1>1, <2>3, <2>4 DEF BarrierInv, BarrierTypeOK, Counters
<1>6. \A m \in Threads : stage'[m] = "away" <=> m \notin group' \ left'
  BY <1>1, <1>2 DEF BarrierInv, BarrierTypeOK, After
<1>7. RoundInv(r)'
  <2>1. ArrivedSet(r)' = group
    <3>1. \A m \in group : Arrived(m, r)'
      BY <1>1, <1>3 DEF ArrivedSet, Arrived, After, Rounds, BarrierInv, BarrierTypeOK
    <3> QED  BY <1>1, <3>1 DEF ArrivedSet
  <2>2. InsideSet(r)' = InsideSet(r) \ {n}
    BY <1>1 DEF InsideSet, Inside, After, Rounds, BarrierInv, BarrierTypeOK
  <2>3. /\ InsideSet(r) \in SUBSET group
        /\ IsFiniteSet(InsideSet(r)) /\ Cardinality(InsideSet(r)) \in Nat
    <3>1. InsideSet(r) \in SUBSET group  BY DEF InsideSet
    <3> QED  BY <3>1, SetsOfNodes DEF BarrierInv
  <2>4. Cardinality(InsideSet(r)') = Cardinality(InsideSet(r)) - 1
    BY <1>2, <2>2, <2>3, FS_RemoveElement
  <2>5. /\ barrier'[r].total = barrier[r].total
        /\ barrier'[r].generation = barrier[r].generation
        /\ barrier'[r].tokens = IF port = "turnstile" THEN barrier[r].tokens - 1
                                                      ELSE barrier[r].tokens
    BY <1>1, <1>4 DEF BarrierInv, BarrierTypeOK
  <2>6. Closed(r)'
    BY <1>1, <1>3, <2>4, <2>5 DEF Closed
  <2>7. \A m \in InsideSet(r)' : seen'[m] = 0
    BY <1>1, <1>2, <2>2 DEF RoundInv
  <2> QED  BY <1>1, <1>2, <2>1, <2>5, <2>6, <2>7 DEF RoundInv
<1>8. ASSUME NEW q \in Rounds, q # r
      PROVE  RoundInv(q)'
  <2>1. RoundInv(q) /\ barrier'[q] = barrier[q]
    BY <1>1, <1>2, <1>8 DEF BarrierInv, BarrierTypeOK
  <2>2. ASSUME NEW m \in group
        PROVE  /\ Arrived(m, q)' <=> Arrived(m, q)
               /\ Passed(m, q)' <=> Passed(m, q)
               /\ stage'[m] = Inside(q) <=> stage[m] = Inside(q)
               /\ stage[m] = Inside(q) => seen'[m] = seen[m]
    BY <1>1, <1>2, <1>8
       DEF Arrived, Passed, Inside, After, Rounds, BarrierInv, BarrierTypeOK
  <2> QED  BY <1>1, <2>1, <2>2, OtherRound
<1> QED  BY <1>1, <1>2, <1>5, <1>6, <1>7, <1>8 DEF BarrierInv

(* activation_group_done.                                                  *)
LEMMA LeaveKeeps ==
  ASSUME BarrierInv, NEW n \in Threads, Leave(n)
  PROVE  BarrierInv'
<1>1. /\ stage[n] = "dump" /\ stage' = [stage EXCEPT ![n] = "away"]
      /\ UNCHANGED <<port, seen, barrier>>
  BY DEF Leave
<1>2. n \in group \ left /\ group # {} /\ \A r \in Rounds : RoundInv(r)
  <2>1. n \in group \ left  BY <1>1 DEF BarrierInv
  <2> QED  BY <2>1 DEF BarrierInv
<1>3. stage' \in [Threads -> Stages]
  BY <1>1 DEF BarrierInv, BarrierTypeOK, Stages
<1>4. CASE left \cup {n} = group
  <2>1. group' = {} /\ left' = {}
    BY <1>4 DEF Leave
  <2>2. \A m \in group : stage[m] = "away" \/ m = n
    BY <1>4 DEF BarrierInv, BarrierTypeOK
  <2>3. ASSUME NEW r \in Rounds PROVE barrier[r].tokens = 0
    <3>1. ArrivedSet(r) = group /\ InsideSet(r) = {}
      BY <1>1, <2>2 DEF ArrivedSet, InsideSet, Arrived, Inside, Rounds
    <3> QED  BY <1>2, <3>1, FS_EmptySet DEF RoundInv, Closed
  <2>4. \A m \in Threads : stage'[m] = "away"
    BY <1>1, <2>2 DEF BarrierInv, BarrierTypeOK
  <2> QED  BY <1>1, <1>3, <2>1, <2>3, <2>4 DEF BarrierInv, BarrierTypeOK
<1>5. CASE left \cup {n} # group
  <2>1. group' = group /\ left' = left \cup {n}
    BY <1>5 DEF Leave
  <2>2. ASSUME NEW r \in Rounds PROVE RoundInv(r)'
    <3>1. \A m \in group : /\ Arrived(m, r)' <=> Arrived(m, r)
                           /\ Passed(m, r)' <=> Passed(m, r)
                           /\ stage'[m] = Inside(r) <=> stage[m] = Inside(r)
      BY <1>1, <2>1 DEF Arrived, Passed, Inside, Rounds, BarrierInv, BarrierTypeOK
    <3> QED  BY <1>1, <1>2, <2>1, <3>1, OtherRound
  <2>3. \A m \in Threads : stage'[m] = "away" <=> m \notin group' \ left'
    BY <1>1, <1>2, <2>1 DEF BarrierInv, BarrierTypeOK
  <2> QED  BY <1>1, <1>2, <1>3, <2>1, <2>2, <2>3 DEF BarrierInv, BarrierTypeOK
<1> QED  BY <1>4, <1>5

LEMMA BarrierInvNext ==
  ASSUME BarrierInv, [Next]_vars
  PROVE  BarrierInv'
<1>1. CASE UNCHANGED barrierVars
  <2>1. UNCHANGED <<port, group, left, stage, seen, barrier>>
    BY <1>1 DEF barrierVars
  <2>2. ASSUME NEW r \in Rounds, RoundInv(r) PROVE RoundInv(r)'
    BY <2>1, <2>2, OtherRound DEF Arrived, Passed
  <2> QED  BY <2>1, <2>2 DEF BarrierInv, BarrierTypeOK
<1>2. ASSUME NEW members \in SUBSET Nodes, OpenGroup(members)
      PROVE  BarrierInv'
  BY <1>2, OpenGroupKeeps, ThreadsAssumption
<1>3. ASSUME NEW n \in Nodes, BarrierStep(n)
      PROVE  BarrierInv'
  BY <1>3, ComeKeeps, ArriveKeeps, PassKeeps, LeaveKeeps, ThreadsAssumption DEF BarrierStep
<1> QED
  BY <1>1, <1>2, <1>3 DEF Next, vars, Export, Gather, UseResource, Trace, Meet

-----------------------------------------------------------------------------
(* Nobody passes a barrier before all have come, nobody is left behind in  *)
(* it, and no token is left for the next group, in any port.               *)
THEOREM BarriersHold == Spec => []BarrierHolds
<1>1. ASSUME BarrierInv PROVE BarrierHolds
  <2>1. ASSUME NEW r \in Rounds, NEW n \in group, NEW m \in group, Passed(n, r)
        PROVE  Arrived(m, r)
    <3>1. RoundInv(r)  BY <1>1 DEF BarrierInv
    <3> QED  BY <2>1, <3>1 DEF RoundInv, Open, ArrivedSet
  <2>2. ASSUME NEW r \in Rounds, NEW n \in group, stage[n] = Inside(r),
               \A m \in group : Arrived(m, r)
        PROVE  MayPass(n, r)
    <3>1. RoundInv(r)  BY <1>1 DEF BarrierInv
    <3>2. ArrivedSet(r) = group  BY <2>2 DEF ArrivedSet
    <3>3. Closed(r) /\ seen[n] = 0  BY <2>2, <3>1, <3>2 DEF RoundInv, InsideSet
    <3>4. Cardinality(InsideSet(r)) > 0
      <4>1. InsideSet(r) \in SUBSET group /\ InsideSet(r) # {}
        BY <2>2 DEF InsideSet
      <4> QED  BY <1>1, <4>1, SetsOfNodes, FS_EmptySet DEF BarrierInv
    <3> QED  BY <3>3, <3>4 DEF Closed, MayPass
  <2>3. ASSUME NEW r \in Rounds, group = {} PROVE barrier[r].tokens = 0
    BY <1>1, <2>3 DEF BarrierInv
  <2> QED  BY <2>1, <2>2, <2>3 DEF BarrierHolds
<1> QED  BY <1>1, BarrierInvInit, BarrierInvNext, PTL DEF Spec
=============================================================================
