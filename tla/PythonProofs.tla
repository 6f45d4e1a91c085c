---------------------------- MODULE PythonProofs ----------------------------
(***************************************************************************)
(* The Python package: the tick of its runtime and the actions, for any    *)
(* nodes, any priorities and a pool of any size, with and without an       *)
(* executor; and the barriers of its threaded executor, for any runtimes,  *)
(* nodes and periods, whatever raises, and whenever a stop or an abort     *)
(* comes.                                                                  *)
(***************************************************************************)
EXTENDS PyRuntime, PyThreadExec, Lemmas, SequenceTheorems, FiniteSetTheorems

(* The actions there are; those of one node have one priority.             *)
Proper ==
  {a \in [node : Nodes, tick : Nat, priority : 0 .. 3, spawned : BOOLEAN] :
     a.priority = Priority[a.node]}

States == {"ready", "waiting", "taken", "running", "exited"}
Busy   == {"taken", "running"}

TypeOK ==
  /\ pooled \in BOOLEAN /\ tick \in Nat
  /\ phase \in {"idle", "latch", "evaluate", "commit", "dispatch", "actions", "dump"}
  /\ todo \subseteq Nodes
  /\ read = [n \in Nodes |-> read[n]]
  /\ proposal \in [Nodes -> BOOLEAN] /\ committed \in [Nodes -> Nat]
  /\ queue \in Seq(Proper) /\ batch \in Seq(Proper) /\ started \in Seq(Proper)
  /\ accepted \subseteq Proper
  /\ heap \subseteq [action : Proper, seq : Nat] /\ sequence \in Nat
  /\ worker \in [Workers -> States]
  /\ task = [w \in Workers |-> task[w]]
  /\ \A w \in Workers : worker[w] \in Busy => task[w] \in Proper

(* The nodes commit the tick one by one, on one snapshot.                  *)
Phased ==
  \A n \in Nodes :
    /\ committed[n] <= tick /\ tick <= committed[n] + 1
    /\ phase \in {"idle", "dispatch", "actions", "dump"} \/ (phase = "commit" /\ n \notin todo)
         => committed[n] = tick
    /\ phase \in {"commit", "dispatch"} \/ (phase = "evaluate" /\ n \notin todo)
         => read[n] = latched

BeforeActions == {"latch", "evaluate", "commit", "dispatch"}

(* What is begun or may begin is of a tick all the nodes have committed;   *)
(* until the actions of this tick are dispatched, of an earlier one.       *)
Ripe(a, commits, now, where) ==
  /\ \A n \in Nodes : commits[n] >= a.tick
  /\ a.tick <= now /\ (where \in BeforeActions => a.tick < now)

AllRipe ==
  /\ \A i \in DOMAIN started : Ripe(started[i], committed, tick, phase)
  /\ \A i \in DOMAIN batch : Ripe(batch[i], committed, tick, phase)
  /\ \A t \in heap : Ripe(t.action, committed, tick, phase)
  /\ \A w \in Workers : worker[w] \in Busy => Ripe(task[w], committed, tick, phase)

(* The queue holds the proposed actions of the tick, one a node, from its  *)
(* commit to the dispatch, and besides them what actions enqueued.         *)
Queued ==
  /\ \A i \in DOMAIN queue :
       /\ queue[i].tick <= tick
       /\ ~ queue[i].spawned =>
            /\ queue[i].tick = tick
            /\ phase = "dispatch" \/ (phase = "commit" /\ queue[i].node \notin todo)
  /\ \A i, j \in DOMAIN queue :
       i # j /\ ~ queue[i].spawned /\ ~ queue[j].spawned => queue[i].node # queue[j].node

Batched ==
  /\ phase # "actions" => batch = <<>>
  /\ \A i, j \in DOMAIN batch :
       i # j /\ ~ batch[i].spawned /\ ~ batch[j].spawned => batch[i].node # batch[j].node

(* Of two proposed actions of a node, the first is that of the older tick. *)
Older(a, b) ==
  a.node = b.node /\ ~ a.spawned /\ ~ b.spawned => a.tick < b.tick

(* What the heap and the batch hold is later than what has left them.      *)
Ahead(a) ==
  /\ \A t \in heap : Older(a, t.action)
  /\ \A j \in DOMAIN batch : Older(a, batch[j])

InOrder ==
  /\ \A i \in DOMAIN started : Ahead(started[i])
  /\ \A w \in Workers : worker[w] = "taken" => Ahead(task[w])
  /\ \A t \in heap :
       /\ \A j \in DOMAIN batch : Older(t.action, batch[j])
       /\ \A u \in heap : t.seq < u.seq => Older(t.action, u.action)
       /\ \A u \in heap : t # u => t.seq # u.seq
       /\ t.seq < sequence

(* An accepted action is never lost between the queue and its run.         *)
In(a, s)  == \E i \in DOMAIN s : s[i] = a
InHeap(a) == \E t \in heap : t.action = a
Taken(a)  == \E w \in Workers : worker[w] = "taken" /\ task[w] = a

Somewhere(a) == In(a, queue) \/ In(a, batch) \/ InHeap(a) \/ Taken(a) \/ In(a, started)

Kept ==
  /\ ~ pooled => heap = {} /\ \A w \in Workers : worker[w] \notin Busy
  /\ \A a \in accepted : Somewhere(a)

(* The inductive invariant.                                                *)
IInv == TypeOK /\ Phased /\ AllRipe /\ Queued /\ Batched /\ InOrder /\ Kept

-----------------------------------------------------------------------------
(* Sequences, one entry at a time.                                         *)
LEMMA Appended ==
  ASSUME NEW S, NEW s \in Seq(S), NEW e \in S
  PROVE  /\ Append(s, e) \in Seq(S)
         /\ DOMAIN Append(s, e) = DOMAIN s \cup {Len(s) + 1}
         /\ Len(s) \in Nat /\ DOMAIN s = 1 .. Len(s)
         /\ \A i \in DOMAIN s : Append(s, e)[i] = s[i] /\ i < Len(s) + 1
         /\ Append(s, e)[Len(s) + 1] = e
OBVIOUS

LEMMA Headed ==
  ASSUME NEW S, NEW s \in Seq(S), s # <<>>
  PROVE  /\ Head(s) \in S /\ Head(s) = s[1] /\ 1 \in DOMAIN s
         /\ Tail(s) \in Seq(S) /\ DOMAIN s = 1 .. Len(s) /\ Len(s) \in Nat \ {0}
         /\ DOMAIN Tail(s) = 1 .. Len(s) - 1
         /\ \A i \in DOMAIN Tail(s) : i + 1 \in DOMAIN s /\ Tail(s)[i] = s[i + 1] /\ i + 1 # 1
         /\ \A i \in DOMAIN s : i # 1 => i - 1 \in DOMAIN Tail(s) /\ Tail(s)[i - 1] = s[i]
OBVIOUS

LEMMA ElementsAreProper ==
  ASSUME TypeOK
  PROVE  /\ \A i \in DOMAIN queue : queue[i] \in Proper
         /\ \A i \in DOMAIN batch : batch[i] \in Proper
         /\ \A i \in DOMAIN started : started[i] \in Proper
         /\ \A t \in heap : t.action \in Proper /\ t.seq \in Nat
BY DEF TypeOK

LEMMA InvInit == Init => IInv
<1> SUFFICES ASSUME Init  PROVE IInv
  OBVIOUS
<1>1. DOMAIN << >> = {}  OBVIOUS
<1>2. TypeOK  BY DEF Init, PoolInit, TypeOK, States, Busy
<1>3. Phased /\ AllRipe /\ Queued /\ Batched /\ InOrder /\ Kept
  BY <1>1 DEF Init, PoolInit, Phased, AllRipe, Queued, Batched, InOrder, Kept, Busy
<1> QED  BY <1>2, <1>3 DEF IInv

-----------------------------------------------------------------------------
(* The nodes.                                                              *)

LEMMA BeginTickKeeps == ASSUME IInv, BeginTick  PROVE IInv'
<1>1. /\ phase = "idle" /\ tick' = tick + 1 /\ phase' = "latch" /\ todo' = Nodes
      /\ UNCHANGED <<poolVars, config, inputs, read, proposal, committed, queue, batch,
                     accepted, started>>
  BY DEF BeginTick
<1>2. tick \in Nat /\ committed \in [Nodes -> Nat] /\ \A n \in Nodes : committed[n] = tick
  BY <1>1 DEF IInv, TypeOK, Phased
<1>3. TypeOK'  BY <1>1 DEF IInv, TypeOK, poolVars, config
<1>4. Phased'  BY <1>1, <1>2 DEF Phased
<1>5. \A a \in Proper : Ripe(a, committed, tick, phase) => Ripe(a, committed', tick', phase')
  BY <1>1, <1>2 DEF Ripe, Proper
<1>6. AllRipe'
  BY <1>1, <1>5, ElementsAreProper DEF IInv, TypeOK, AllRipe, poolVars
<1>7. Queued'
  <2>1. \A i \in DOMAIN queue : queue[i].spawned /\ queue[i].tick <= tick
    BY <1>1 DEF IInv, Queued
  <2>2. \A i \in DOMAIN queue : queue[i].tick \in Nat
    BY ElementsAreProper DEF IInv, Proper
  <2> QED  BY <1>1, <1>2, <2>1, <2>2 DEF Queued
<1>8. Batched' /\ InOrder' /\ Kept'
  BY <1>1 DEF IInv, Batched, InOrder, Ahead, Kept, Somewhere, InHeap, Taken, poolVars, config, In
<1> QED  BY <1>3, <1>4, <1>6, <1>7, <1>8 DEF IInv

(* Where a phase goes when a node has passed it.                           *)
LEMMA PassFacts ==
  ASSUME IInv, NEW n \in Nodes, Pass(n), phase \in {"latch", "evaluate", "commit", "dump"}
  PROVE  /\ n \in todo /\ todo' \subseteq Nodes
         /\ UNCHANGED <<poolVars, config, tick, inputs, latched, batch, started>>
         /\ \/ phase' = phase /\ todo' = todo \ {n}
            \/ /\ todo = {n}
               /\ \/ phase = "latch" /\ phase' = "evaluate" /\ todo' = Nodes
                  \/ phase = "evaluate" /\ phase' = "commit" /\ todo' = Nodes
                  \/ phase = "commit" /\ phase' = "dispatch"
                  \/ phase = "dump" /\ phase' = "idle"
<1>1. /\ n \in todo
      /\ IF todo # {n} THEN phase' = phase /\ todo' = todo \ {n}
         ELSE /\ phase' = NextPhase(phase)
              /\ todo' = IF phase' \in {"dispatch", "idle"} THEN {} ELSE Nodes
      /\ UNCHANGED <<poolVars, config, tick, inputs, latched, batch, started>>
  BY DEF Pass
<1>2. CASE todo # {n}  BY <1>1, <1>2 DEF IInv, TypeOK
<1>3. CASE todo = {n}
  BY <1>1, <1>3 DEF NextPhase
<1> QED  BY <1>2, <1>3

(* A node latches, evaluates or dumps.                                     *)
LEMMA QuietPassKeeps ==
  ASSUME IInv, NEW n \in Nodes, LatchOrDump(n) \/ Evaluate(n)
  PROVE  IInv'
<1>1. /\ phase \in {"latch", "evaluate", "dump"} /\ Pass(n)
      /\ UNCHANGED <<committed, queue, accepted>>
      /\ \/ phase # "evaluate" /\ UNCHANGED <<read, proposal>>
         \/ /\ phase = "evaluate" /\ read' = [read EXCEPT ![n] = latched]
            /\ \E b \in BOOLEAN : proposal' = [proposal EXCEPT ![n] = b]
  BY DEF LatchOrDump, Evaluate
<1>2. /\ n \in todo /\ todo' \subseteq Nodes
      /\ UNCHANGED <<poolVars, config, tick, inputs, latched, batch, started>>
      /\ \/ phase' = phase /\ todo' = todo \ {n}
         \/ todo = {n} /\ phase = "latch" /\ phase' = "evaluate" /\ todo' = Nodes
         \/ todo = {n} /\ phase = "evaluate" /\ phase' = "commit" /\ todo' = Nodes
         \/ todo = {n} /\ phase = "dump" /\ phase' = "idle"
  BY <1>1, PassFacts
<1>3. TypeOK'
  <2>1. read' = [m \in Nodes |-> read'[m]] /\ proposal' \in [Nodes -> BOOLEAN]
    BY <1>1 DEF IInv, TypeOK
  <2> QED  BY <1>1, <1>2, <2>1 DEF IInv, TypeOK, poolVars, config
<1>4. Phased'
  <2> SUFFICES ASSUME NEW m \in Nodes
               PROVE  /\ phase' \in {"idle", "dump"} => committed[m] = tick
                      /\ phase' = "commit" \/ (phase' = "evaluate" /\ m \notin todo')
                           => read'[m] = latched
    BY <1>1, <1>2 DEF IInv, Phased
  <2>1. phase' \in {"idle", "dump"} => committed[m] = tick
    BY <1>1, <1>2 DEF IInv, Phased
  <2>2. phase = "evaluate" /\ (m = n \/ m \notin todo) => read'[m] = latched
    BY <1>1 DEF IInv, Phased, TypeOK
  <2> QED  BY <1>1, <1>2, <2>1, <2>2
<1>5. \A a \in Proper : Ripe(a, committed, tick, phase) => Ripe(a, committed', tick', phase')
  BY <1>1, <1>2 DEF Ripe, BeforeActions
<1>6. AllRipe'
  BY <1>2, <1>5, ElementsAreProper DEF IInv, TypeOK, AllRipe, poolVars
<1>7. Queued'
  BY <1>1, <1>2 DEF IInv, Queued
<1>8. Batched' /\ InOrder' /\ Kept'
  BY <1>1, <1>2
     DEF IInv, Batched, InOrder, Ahead, Kept, Somewhere, InHeap, Taken, poolVars, config, In
<1> QED  BY <1>3, <1>4, <1>6, <1>7, <1>8 DEF IInv

(* A step that adds to the queue loses nothing.                            *)
LEMMA HandedOn ==
  ASSUME Kept, UNCHANGED <<poolVars, config, batch, started>>,
         \A a : In(a, queue) => In(a, queue'),
         \A a \in accepted' : a \in accepted \/ In(a, queue')
  PROVE  Kept'
<1>1. \A a : Somewhere(a) \/ In(a, queue') => Somewhere(a)'
  BY DEF Somewhere, InHeap, Taken, poolVars, In
<1> QED  BY <1>1 DEF Kept, poolVars, config

LEMMA CommitKeeps == ASSUME IInv, NEW n \in Nodes, Commit(n)  PROVE IInv'
<1> DEFINE asked == ActionOf(n)
<1>1. /\ phase = "commit" /\ Pass(n) /\ committed' = [committed EXCEPT ![n] = tick]
      /\ \/ UNCHANGED <<queue, accepted>>
         \/ queue' = Append(queue, asked) /\ accepted' = accepted \cup {asked}
      /\ UNCHANGED <<read, proposal>>
  BY DEF Commit
<1>2. /\ n \in todo /\ todo' \subseteq Nodes
      /\ UNCHANGED <<poolVars, config, tick, inputs, latched, batch, started>>
      /\ \/ phase' = "commit" /\ todo' = todo \ {n}
         \/ todo = {n} /\ phase' = "dispatch"
  BY <1>1, PassFacts
<1>3. /\ asked \in Proper /\ asked.node = n /\ asked.tick = tick /\ ~ asked.spawned
      /\ tick \in Nat
  BY RuntimeAssumption DEF ActionOf, Proper, IInv, TypeOK
<1> HIDE DEF asked
<1>4. queue \in Seq(Proper) /\ \A i \in DOMAIN queue : queue[i] \in Proper
  BY ElementsAreProper DEF IInv, TypeOK
<1>5. TypeOK'
  <2>1. queue' \in Seq(Proper) /\ accepted' \subseteq Proper
    <3>1. accepted \subseteq Proper /\ Append(queue, asked) \in Seq(Proper)
      BY <1>3, <1>4, Appended DEF IInv, TypeOK
    <3> QED  BY <1>1, <1>3, <1>4, <3>1
  <2>2. committed' \in [Nodes -> Nat]  BY <1>1, <1>3 DEF IInv, TypeOK
  <2> QED  BY <1>1, <1>2, <2>1, <2>2 DEF IInv, TypeOK, poolVars, config
<1>6. \A m \in Nodes : /\ committed'[m] = (IF m = n THEN tick ELSE committed[m])
                        /\ committed[m] \in Nat /\ committed[m] <= tick
                        /\ committed'[m] >= committed[m]
  BY <1>1, <1>3 DEF IInv, TypeOK, Phased
<1>7. Phased'
  BY <1>1, <1>2, <1>3, <1>6 DEF IInv, Phased
<1>8. \A a \in Proper : Ripe(a, committed, tick, phase) => Ripe(a, committed', tick', phase')
  <2> SUFFICES ASSUME NEW a \in Proper, Ripe(a, committed, tick, phase)
               PROVE  Ripe(a, committed', tick', phase')
    OBVIOUS
  <2>1. a.tick \in Nat  BY DEF Proper
  <2>2. \A m \in Nodes : committed'[m] >= a.tick
    <3> TAKE m \in Nodes
    <3>1. committed[m] >= a.tick /\ committed'[m] \in Nat  BY <1>3, <1>6 DEF Ripe
    <3> QED  BY <1>6, <2>1, <3>1
  <2> QED  BY <1>1, <1>2, <2>2 DEF Ripe, BeforeActions
<1>9. AllRipe'
  BY <1>2, <1>8, ElementsAreProper DEF IInv, TypeOK, AllRipe, poolVars
<1>10. ASSUME NEW i \in DOMAIN queue, ~ queue[i].spawned
       PROVE  queue[i].tick = tick /\ queue[i].node # n /\ queue[i].node \notin todo
  BY <1>1, <1>2, <1>10 DEF IInv, Queued
<1>11. Queued'
  <2>1. CASE UNCHANGED <<queue, accepted>>
    BY <1>1, <1>2, <1>10, <2>1 DEF IInv, Queued
  <2>2. CASE queue' = Append(queue, asked)
    <3>1. \A i \in DOMAIN queue' :
            \/ i \in DOMAIN queue /\ queue'[i] = queue[i]
            \/ i = Len(queue) + 1 /\ queue'[i] = asked
      BY <1>3, <1>4, <2>2, Appended
    <3>2. \A i \in DOMAIN queue' :
            /\ queue'[i].tick <= tick
            /\ ~ queue'[i].spawned =>
                 /\ queue'[i].tick = tick
                 /\ phase' = "dispatch" \/ (phase' = "commit" /\ queue'[i].node \notin todo')
      BY <1>1, <1>2, <1>3, <1>10, <3>1 DEF IInv, Queued
    <3>3. ASSUME NEW i \in DOMAIN queue', NEW j \in DOMAIN queue', i # j,
                 ~ queue'[i].spawned, ~ queue'[j].spawned
          PROVE  queue'[i].node # queue'[j].node
      BY <1>3, <1>10, <3>1, <3>3 DEF IInv, Queued
    <3> QED  BY <1>2, <3>2, <3>3 DEF Queued
  <2> QED  BY <1>1, <2>1, <2>2
<1>12. Batched' /\ InOrder'
  BY <1>1, <1>2 DEF IInv, Batched, InOrder, Ahead, poolVars
<1>13. Kept'
  <2>1. \A a : In(a, queue) => In(a, queue')
    BY <1>1, <1>3, <1>4, Appended DEF In
  <2>2. \A a \in accepted' : a \in accepted \/ In(a, queue')
    BY <1>1, <1>3, <1>4, Appended DEF In
  <2> QED  BY <1>2, <2>1, <2>2, HandedOn DEF IInv
<1> QED  BY <1>5, <1>7, <1>9, <1>11, <1>12, <1>13 DEF IInv

-----------------------------------------------------------------------------
(* The actions.                                                            *)

LEMMA RipeStays ==
  ASSUME UNCHANGED <<committed, tick>>, phase' \in BeforeActions => phase \in BeforeActions
  PROVE  \A a : Ripe(a, committed, tick, phase) => Ripe(a, committed', tick', phase')
BY DEF Ripe

(* dispatch_deferred: the batch holds each entry of the queue once.        *)
LEMMA TakeQueueKeeps == ASSUME IInv, TakeQueue  PROVE IInv'
<1>1. /\ phase = "dispatch" /\ phase' = "actions" /\ queue' = <<>>
      /\ batch' = IF pooled THEN queue ELSE SortDescending(queue)
      /\ UNCHANGED <<poolVars, config, tick, todo, nodeVars, accepted, started>>
  BY DEF TakeQueue
<1>2. queue \in Seq(Proper) /\ \A i \in DOMAIN queue : queue[i] \in Proper
  BY ElementsAreProper DEF IInv, TypeOK
<1>3. PICK from \in [DOMAIN queue -> DOMAIN queue] :
        /\ batch' \in Seq(Proper) /\ DOMAIN batch' = DOMAIN queue
        /\ \A k \in DOMAIN queue : batch'[k] = queue[from[k]]
        /\ \A i \in DOMAIN queue : \E k \in DOMAIN queue : from[k] = i
        /\ \A k, l \in DOMAIN queue : k # l => from[k] # from[l]
  <2>1. CASE pooled
    <3> DEFINE same == [i \in DOMAIN queue |-> i]
    <3>1. /\ same \in [DOMAIN queue -> DOMAIN queue]
          /\ \A i \in DOMAIN queue : same[i] = i
      OBVIOUS
    <3> HIDE DEF same
    <3> QED  BY <1>1, <1>2, <2>1, <3>1
  <2>2. CASE ~ pooled
    <3>1. \A i \in DOMAIN queue : queue[i].priority \in Int  BY <1>2 DEF Proper
    <3>2. /\ SortDescending(queue) \in Seq(Proper)
          /\ DOMAIN SortDescending(queue) = DOMAIN queue
          /\ \E from \in [DOMAIN queue -> DOMAIN queue] : SortedFrom(queue, from)
      BY <1>2, <3>1, SortFacts
    <3>3. batch' = SortDescending(queue)  BY <1>1, <2>2
    <3> QED  BY <3>2, <3>3 DEF SortedFrom
  <2> QED  BY <2>1, <2>2
<1>4. TypeOK'
  BY <1>1, <1>3 DEF IInv, TypeOK, poolVars, config, nodeVars
<1>5. tick \in Nat /\ committed' = committed /\ tick' = tick
      /\ \A n \in Nodes : committed[n] = tick /\ read[n] = latched
  BY <1>1 DEF IInv, TypeOK, Phased, nodeVars
<1>6. Phased'
  BY <1>1, <1>5 DEF IInv, Phased, nodeVars
<1>7. \A i \in DOMAIN queue :
        queue[i].tick <= tick /\ (~ queue[i].spawned => queue[i].tick = tick)
  BY DEF IInv, Queued
<1>8. AllRipe'
  <2>1. \A a : Ripe(a, committed, tick, phase) => Ripe(a, committed', tick', phase')
    BY <1>1, <1>5, RipeStays DEF BeforeActions
  <2>2. \A k \in DOMAIN batch' : Ripe(batch'[k], committed', tick', phase')
    BY <1>1, <1>3, <1>5, <1>7, SMTT(30) DEF Ripe, BeforeActions
  <2> QED  BY <1>1, <2>1, <2>2 DEF IInv, AllRipe, poolVars
<1>9. Queued' /\ Batched'
  <2>1. ASSUME NEW k \in DOMAIN batch', NEW l \in DOMAIN batch', k # l,
               ~ batch'[k].spawned, ~ batch'[l].spawned
        PROVE  batch'[k].node # batch'[l].node
    <3>1. from[k] \in DOMAIN queue /\ from[l] \in DOMAIN queue /\ from[k] # from[l]
      BY <1>3, <2>1
    <3>2. batch'[k] = queue[from[k]] /\ batch'[l] = queue[from[l]]  BY <1>3, <2>1
    <3> QED  BY <2>1, <3>1, <3>2 DEF IInv, Queued
  <2>2. Batched'  BY <1>1, <2>1 DEF Batched
  <2> QED  BY <1>1, <2>2 DEF Queued
<1>10. InOrder'
  <2>1. \A k \in DOMAIN batch' : ~ batch'[k].spawned => batch'[k].tick = tick
    BY <1>3, <1>7
  <2>2. /\ \A i \in DOMAIN started : started[i].tick < tick
        /\ \A w \in Workers : worker[w] = "taken" => task[w].tick < tick
        /\ \A t \in heap : t.action.tick < tick
    BY <1>1 DEF IInv, AllRipe, Ripe, BeforeActions, Busy
  <2>3. \A a : a.tick < tick => \A k \in DOMAIN batch' : Older(a, batch'[k])
    BY <2>1 DEF Older
  <2> QED  BY <1>1, <2>2, <2>3 DEF IInv, InOrder, Ahead, poolVars
<1>11. Kept'
  <2>1. \A a : In(a, queue) => In(a, batch')  BY <1>3 DEF In
  <2>2. \A a : ~ In(a, batch)  BY <1>1 DEF IInv, Batched, In
  <2>3. \A a : Somewhere(a) => Somewhere(a)'
    BY <1>1, <2>1, <2>2 DEF Somewhere, InHeap, Taken, poolVars, In
  <2> QED  BY <1>1, <2>3 DEF IInv, Kept, poolVars, config
<1> QED  BY <1>4, <1>6, <1>8, <1>9, <1>10, <1>11 DEF IInv

LEMMA EndDispatchKeeps == ASSUME IInv, EndDispatch  PROVE IInv'
<1>1. /\ phase = "actions" /\ batch = <<>> /\ phase' = "dump" /\ todo' = Nodes
      /\ UNCHANGED <<poolVars, config, tick, nodeVars, queue, batch, accepted, started>>
  BY DEF EndDispatch
<1>2. TypeOK'  BY <1>1 DEF IInv, TypeOK, poolVars, config, nodeVars
<1>3. Phased'  BY <1>1 DEF IInv, Phased, nodeVars
<1>4. AllRipe'
  <2>1. \A a : Ripe(a, committed, tick, phase) => Ripe(a, committed', tick', phase')
    BY <1>1, RipeStays DEF BeforeActions, nodeVars
  <2> QED  BY <1>1, <2>1 DEF IInv, AllRipe, poolVars
<1>5. Queued' /\ Batched' /\ InOrder' /\ Kept'
  BY <1>1
     DEF IInv, Queued, Batched, InOrder, Ahead, Kept, Somewhere, InHeap, Taken, In, poolVars, config
<1> QED  BY <1>2, <1>3, <1>4, <1>5 DEF IInv

(* What an action enqueues is of its own tick, and not a proposed action.  *)
LEMMA FurtherFacts ==
  ASSUME NEW a \in Proper
  PROVE  /\ Further(a) \in Proper /\ Further(a).spawned /\ Further(a).tick = a.tick
         /\ Further(a).node = a.node
BY DEF Further, Proper

LEMMA QueueGrows ==
  ASSUME IInv, NEW f \in Proper, f.spawned, f.tick <= tick,
         queue' = Append(queue, f), UNCHANGED <<tick, phase, todo>>
  PROVE  /\ Queued' /\ queue' \in Seq(Proper) /\ In(f, queue')
         /\ \A a : In(a, queue) => In(a, queue')
<1>1. queue \in Seq(Proper)  BY DEF IInv, TypeOK
<1>2. /\ queue' \in Seq(Proper) /\ DOMAIN queue \subseteq DOMAIN queue'
      /\ \A i \in DOMAIN queue : queue'[i] = queue[i]
      /\ Len(queue) + 1 \in DOMAIN queue' /\ queue'[Len(queue) + 1] = f
      /\ \A i \in DOMAIN queue' :
           \/ i \in DOMAIN queue /\ queue'[i] = queue[i]
           \/ i = Len(queue) + 1 /\ queue'[i] = f
  <2> DEFINE q == Append(queue, f)
  <2>1. /\ q \in Seq(Proper) /\ DOMAIN q = DOMAIN queue \cup {Len(queue) + 1}
        /\ \A i \in DOMAIN queue : q[i] = queue[i]
        /\ q[Len(queue) + 1] = f
    BY <1>1, Appended
  <2>3. /\ DOMAIN queue \subseteq DOMAIN q /\ Len(queue) + 1 \in DOMAIN q
        /\ \A i \in DOMAIN q :
             \/ i \in DOMAIN queue /\ q[i] = queue[i]
             \/ i = Len(queue) + 1 /\ q[i] = f
    BY <2>1
  <2>2. queue' = q  OBVIOUS
  <2> HIDE DEF q
  <2> QED  BY <2>1, <2>2, <2>3
<1>3. Queued'  BY <1>2 DEF IInv, Queued
<1> QED  BY <1>2, <1>3 DEF In

(* The tick runs the first action of its batch.                            *)
LEMMA RunActionKeeps == ASSUME IInv, RunAction  PROVE IInv'
<1> DEFINE h == Head(batch)
<1>1. /\ phase = "actions" /\ batch # <<>> /\ ~ pooled
      /\ batch' = Tail(batch) /\ started' = Append(started, h)
      /\ \/ UNCHANGED <<queue, accepted>>
         \/ queue' = Append(queue, Further(h)) /\ accepted' = accepted \cup {Further(h)}
      /\ UNCHANGED <<poolVars, config, tick, phase, todo, latched, read, proposal, committed>>
  BY DEF RunAction
<1>2. /\ h \in Proper /\ h = batch[1] /\ 1 \in DOMAIN batch
      /\ batch' \in Seq(Proper)
      /\ \A i \in DOMAIN batch' : i + 1 \in DOMAIN batch /\ batch'[i] = batch[i + 1] /\ i + 1 # 1
      /\ \A i \in DOMAIN batch : i # 1 => i - 1 \in DOMAIN batch' /\ batch'[i - 1] = batch[i]
      /\ DOMAIN batch \subseteq Nat /\ DOMAIN batch' \subseteq Nat
  BY <1>1, Headed DEF IInv, TypeOK
<1>3. /\ started' \in Seq(Proper) /\ DOMAIN started \subseteq DOMAIN started'
      /\ \A i \in DOMAIN started : started'[i] = started[i] /\ i < Len(started) + 1
      /\ Len(started) + 1 \in DOMAIN started' /\ started'[Len(started) + 1] = h
      /\ \A i \in DOMAIN started' : i \in DOMAIN started \/ i = Len(started) + 1
      /\ DOMAIN started' \subseteq Nat /\ Len(started) \in Nat
  BY <1>1, <1>2, Appended, SMTT(30) DEF IInv, TypeOK
<1> HIDE DEF h
<1>4. Ripe(h, committed, tick, phase)  BY <1>2 DEF IInv, AllRipe
<1>5. /\ Queued' /\ queue' \in Seq(Proper) /\ accepted' \subseteq Proper
      /\ \A a : In(a, queue) => In(a, queue')
      /\ \A a \in accepted' : a \in accepted \/ In(a, queue')
  <2>1. CASE UNCHANGED <<queue, accepted>>
    BY <1>1, <2>1 DEF IInv, TypeOK, Queued
  <2>2. CASE queue' = Append(queue, Further(h)) /\ accepted' = accepted \cup {Further(h)}
    <3>1. /\ Further(h) \in Proper /\ Further(h).spawned /\ Further(h).tick <= tick
      BY <1>2, <1>4, FurtherFacts DEF Ripe
    <3>2. /\ Queued' /\ queue' \in Seq(Proper) /\ In(Further(h), queue')
          /\ \A a : In(a, queue) => In(a, queue')
      BY <1>1, <2>2, <3>1, QueueGrows
    <3> QED  BY <2>2, <3>1, <3>2 DEF IInv, TypeOK
  <2> QED  BY <1>1, <2>1, <2>2
<1>6. TypeOK'  BY <1>1, <1>2, <1>3, <1>5 DEF IInv, TypeOK, poolVars, config
<1>7. Phased'  BY <1>1 DEF IInv, Phased
<1>8. AllRipe'
  <2>1. \A a : Ripe(a, committed, tick, phase) => Ripe(a, committed', tick', phase')
    BY <1>1, RipeStays
  <2>2. \A i \in DOMAIN started' : Ripe(started'[i], committed', tick', phase')
    BY <1>3, <1>4, <2>1 DEF IInv, AllRipe
  <2>3. \A i \in DOMAIN batch' : Ripe(batch'[i], committed', tick', phase')
    BY <1>2, <2>1 DEF IInv, AllRipe
  <2> QED  BY <1>1, <2>1, <2>2, <2>3 DEF IInv, AllRipe, poolVars
<1>9. Batched'
  BY <1>1, <1>2 DEF IInv, Batched
<1>10. heap = {} /\ UNCHANGED <<heap, worker, task>> /\ \A w \in Workers : worker[w] \notin Busy
  BY <1>1 DEF IInv, Kept, poolVars
<1>11. InOrder'
  <2>1. \A i \in DOMAIN started' : \A j \in DOMAIN batch' : Older(started'[i], batch'[j])
    <3> SUFFICES ASSUME NEW i \in DOMAIN started', NEW j \in DOMAIN batch'
                 PROVE  Older(started'[i], batch'[j])
      OBVIOUS
    <3>1. CASE i \in DOMAIN started  BY <1>2, <1>3, <3>1 DEF IInv, InOrder, Ahead
    <3>2. CASE i = Len(started) + 1
      <4>1. started'[i] = batch[1] /\ batch'[j] = batch[j + 1] /\ j + 1 \in DOMAIN batch
            /\ 1 \in DOMAIN batch /\ j + 1 # 1
        BY <1>2, <1>3, <3>2
      <4> QED  BY <4>1 DEF IInv, Batched, Older
    <3> QED  BY <1>3, <3>1, <3>2
  <2> QED  BY <1>10, <2>1 DEF InOrder, Ahead, Busy
<1>12. Kept'
  <2>1. \A a : In(a, started) => In(a, started')  BY <1>3 DEF In
  <2>2. \A a : In(a, batch) => In(a, batch') \/ In(a, started')
    <3> SUFFICES ASSUME NEW a, NEW i \in DOMAIN batch, batch[i] = a
                 PROVE  In(a, batch') \/ In(a, started')
      BY DEF In
    <3>1. CASE i = 1  BY <1>2, <1>3, <3>1 DEF In
    <3>2. CASE i # 1  BY <1>2, <3>2 DEF In
    <3> QED  BY <3>1, <3>2
  <2>3. \A a : Somewhere(a) \/ In(a, queue') => Somewhere(a)'
    BY <1>5, <1>10, <2>1, <2>2 DEF Somewhere, InHeap, Taken, In
  <2> QED  BY <1>1, <1>5, <1>10, <2>3 DEF IInv, Kept, config
<1> QED  BY <1>5, <1>6, <1>7, <1>8, <1>9, <1>11, <1>12 DEF IInv

-----------------------------------------------------------------------------
(* The pool.                                                               *)

(* Waking threads leaves alone what runs.                                  *)
LEMMA WakeFacts ==
  ASSUME TypeOK, NEW ws \in SUBSET Waiting
  PROVE  /\ Wake(ws) \in [Workers -> States]
         /\ \A w \in Workers : \A b \in Busy : Wake(ws)[w] = b <=> worker[w] = b
BY DEF TypeOK, Wake, Waiting, States, Busy

LEMMA SubmitFacts ==
  ASSUME TypeOK, NEW a, Submit(a)
  PROVE  /\ heap' = heap \cup {[action |-> a, seq |-> sequence]} /\ sequence' = sequence + 1
         /\ worker' \in [Workers -> States]
         /\ \A w \in Workers : \A b \in Busy : worker'[w] = b <=> worker[w] = b
         /\ task' = task
<1>1. Notify /\ task' = task /\ sequence' = sequence + 1
      /\ heap' = heap \cup {[action |-> a, seq |-> sequence]}
  BY DEF Submit
<1>2. CASE worker' = worker  BY <1>1, <1>2 DEF TypeOK
<1>3. ASSUME NEW w \in Waiting, worker' = Wake({w})
      PROVE  /\ worker' \in [Workers -> States]
             /\ \A v \in Workers : \A b \in Busy : worker'[v] = b <=> worker[v] = b
  BY <1>3, WakeFacts
<1> QED  BY <1>1, <1>2, <1>3 DEF Notify

(* The batch goes to the pool, one action after the other.                 *)
LEMMA PostActionKeeps == ASSUME IInv, PostAction  PROVE IInv'
<1> DEFINE h == Head(batch)
           new == [action |-> h, seq |-> sequence]
<1>1. /\ phase = "actions" /\ batch # <<>> /\ pooled /\ batch' = Tail(batch)
      /\ Submit(h)
      /\ UNCHANGED <<config, tick, phase, todo, nodeVars, queue, accepted, started>>
  BY DEF PostAction
<1>2. /\ h \in Proper /\ h = batch[1] /\ 1 \in DOMAIN batch
      /\ batch' \in Seq(Proper)
      /\ \A i \in DOMAIN batch' : i + 1 \in DOMAIN batch /\ batch'[i] = batch[i + 1] /\ i + 1 # 1
      /\ \A i \in DOMAIN batch : i # 1 => i - 1 \in DOMAIN batch' /\ batch'[i - 1] = batch[i]
      /\ DOMAIN batch' \subseteq Nat
  BY <1>1, Headed DEF IInv, TypeOK
<1>3. /\ heap' = heap \cup {new} /\ sequence' = sequence + 1 /\ task' = task
      /\ worker' \in [Workers -> States]
      /\ \A w \in Workers : \A b \in Busy : worker'[w] = b <=> worker[w] = b
  BY <1>1, SubmitFacts DEF IInv
<1>4. new \in [action : Proper, seq : Nat] /\ new.action = h /\ new.seq = sequence
      /\ sequence \in Nat
  BY <1>2 DEF IInv, TypeOK
<1> HIDE DEF h, new
<1>5. TypeOK'
  BY <1>1, <1>2, <1>3, <1>4 DEF IInv, TypeOK, config, nodeVars, Busy
<1>6. Phased' /\ Queued'  BY <1>1 DEF IInv, Phased, Queued, nodeVars
<1>7. AllRipe'
  <2>1. \A a : Ripe(a, committed, tick, phase) => Ripe(a, committed', tick', phase')
    BY <1>1, RipeStays DEF nodeVars
  <2>2. \A t \in heap' : Ripe(t.action, committed', tick', phase')
    BY <1>2, <1>3, <1>4, <2>1 DEF IInv, AllRipe
  <2>3. \A i \in DOMAIN batch' : Ripe(batch'[i], committed', tick', phase')
    BY <1>2, <2>1 DEF IInv, AllRipe
  <2> QED  BY <1>1, <1>3, <2>1, <2>2, <2>3 DEF IInv, AllRipe, Busy
<1>8. Batched'  BY <1>1, <1>2 DEF IInv, Batched
<1>9. InOrder'
  <2>1. \A a : Ahead(a) => Ahead(a)'  BY <1>2, <1>3, <1>4 DEF Ahead
  <2>2. \A t \in heap : /\ Older(t.action, new.action) /\ t.seq < new.seq /\ t.seq \in Nat
                        /\ t.seq < sequence'
    BY <1>2, <1>3, <1>4, ElementsAreProper DEF IInv, InOrder
  <2>3. \A t \in heap' : \A j \in DOMAIN batch' : Older(t.action, batch'[j])
    <3>1. \A j \in DOMAIN batch' : Older(h, batch'[j])
      BY <1>2 DEF IInv, Batched, Older
    <3> QED  BY <1>2, <1>3, <1>4, <3>1 DEF IInv, InOrder
  <2>4. \A t, u \in heap' :
          /\ t.seq < u.seq => Older(t.action, u.action)
          /\ t # u => t.seq # u.seq
    <3> SUFFICES ASSUME NEW t \in heap', NEW u \in heap'
                 PROVE  /\ t.seq < u.seq => Older(t.action, u.action)
                        /\ t # u => t.seq # u.seq
      OBVIOUS
    <3>1. CASE t \in heap /\ u \in heap  BY <3>1 DEF IInv, InOrder
    <3>2. CASE t \in heap /\ u = new  BY <1>4, <2>2, <3>2
    <3>3. CASE t = new /\ u \in heap  BY <1>4, <2>2, <3>3
    <3>4. CASE t = new /\ u = new  BY <1>4, <3>4
    <3> QED  BY <1>3, <3>1, <3>2, <3>3, <3>4
  <2>5. \A t \in heap' : t.seq < sequence'  BY <1>3, <1>4, <2>2
  <2> QED  BY <1>1, <1>3, <2>1, <2>3, <2>4, <2>5 DEF IInv, InOrder, Busy
<1>10. Kept'
  <2>1. \A a : In(a, batch) => In(a, batch') \/ InHeap(a)'
    <3> SUFFICES ASSUME NEW a, NEW i \in DOMAIN batch, batch[i] = a
                 PROVE  In(a, batch') \/ InHeap(a)'
      BY DEF In
    <3>1. CASE i = 1  BY <1>2, <1>3, <1>4, <3>1 DEF InHeap
    <3>2. CASE i # 1  BY <1>2, <3>2 DEF In
    <3> QED  BY <3>1, <3>2
  <2>2. \A a : (InHeap(a) => InHeap(a)') /\ (Taken(a) => Taken(a)')
    BY <1>3 DEF InHeap, Taken, Busy
  <2>3. \A a : Somewhere(a) => Somewhere(a)'  BY <1>1, <2>1, <2>2 DEF Somewhere, In
  <2> QED  BY <1>1, <2>3 DEF IInv, Kept, config
<1> QED  BY <1>5, <1>6, <1>7, <1>8, <1>9, <1>10 DEF IInv

(* A thread takes the task that goes first: of a node, the oldest.         *)
LEMMA TakeTaskKeeps == ASSUME IInv, pooled, NEW w \in Workers, TakeTask(w)  PROVE IInv'
<1>1. PICK t \in heap : Take(w, t)
  BY DEF TakeTask
<1>2. /\ heap' = heap \ {t} /\ \A s \in heap \ {t} : Before(t, s)
      /\ worker[w] = "ready" /\ worker' = [worker EXCEPT ![w] = "taken"]
      /\ task' = [task EXCEPT ![w] = t.action] /\ sequence' = sequence
      /\ UNCHANGED tickVars
  BY <1>1 DEF Take, TakeTask
<1> DEFINE h == t.action
<1>3. h \in Proper /\ \A s \in heap : s.action \in Proper /\ s.seq \in Nat
  BY <1>1, ElementsAreProper DEF IInv
<1>4. /\ task' = [v \in Workers |-> task'[v]] /\ task'[w] = h
      /\ worker' \in [Workers -> States] /\ worker'[w] = "taken"
      /\ \A v \in Workers : v # w => task'[v] = task[v] /\ worker'[v] = worker[v]
  BY <1>2 DEF IInv, TypeOK, States
<1>5. TypeOK'
  <2>1. \A v \in Workers : worker'[v] \in Busy => task'[v] \in Proper
    BY <1>3, <1>4 DEF IInv, TypeOK
  <2> QED  BY <1>2, <1>4, <2>1 DEF IInv, TypeOK, tickVars, config, nodeVars
<1>6. Phased' /\ Queued' /\ Batched'
  BY <1>2 DEF IInv, Phased, Queued, Batched, tickVars, nodeVars
<1>7. Ripe(h, committed, tick, phase)  BY DEF IInv, AllRipe
<1>8. AllRipe'
  BY <1>2, <1>4, <1>7 DEF IInv, AllRipe, tickVars, nodeVars
<1>9. \A s \in heap \ {t} : Older(h, s.action)
  <2> SUFFICES ASSUME NEW s \in heap \ {t}, h.node = s.action.node
               PROVE  Older(h, s.action)
    BY DEF Older
  <2>1. h.priority = s.action.priority /\ h.priority \in 0 .. 3  BY <1>3 DEF Proper
  <2>2. t.seq < s.seq  BY <1>2, <2>1 DEF Before
  <2> QED  BY <2>2 DEF IInv, InOrder
<1>10. InOrder'
  <2> DEFINE Ahead1(a) == /\ \A s \in heap' : Older(a, s.action)
                         /\ \A j \in DOMAIN batch' : Older(a, batch'[j])
  <2>1. \A a : Ahead(a) => Ahead1(a)  BY <1>2 DEF Ahead, tickVars
  <2>2. Ahead1(h)  BY <1>2, <1>9 DEF IInv, InOrder, tickVars
  <2>3. \A i \in DOMAIN started' : Ahead1(started'[i])
    BY <1>2, <2>1 DEF IInv, InOrder, tickVars
  <2> HIDE DEF Ahead1
  <2>4. \A v \in Workers : worker'[v] = "taken" => Ahead1(task'[v])
    BY <1>4, <2>1, <2>2 DEF IInv, InOrder
  <2>5. \A s \in heap' :
          /\ \A j \in DOMAIN batch' : Older(s.action, batch'[j])
          /\ \A u \in heap' : s.seq < u.seq => Older(s.action, u.action)
          /\ \A u \in heap' : s # u => s.seq # u.seq
          /\ s.seq < sequence'
    BY <1>2 DEF IInv, InOrder, tickVars
  <2> QED  BY <2>3, <2>4, <2>5 DEF InOrder, Ahead, Ahead1
<1>11. Kept'
  <2>1. \A a : InHeap(a) => InHeap(a)' \/ Taken(a)'
    BY <1>2, <1>4 DEF InHeap, Taken
  <2>2. \A a : Taken(a) => Taken(a)'  BY <1>2, <1>4 DEF Taken
  <2>3. \A a : Somewhere(a) => Somewhere(a)'
    BY <1>2, <2>1, <2>2 DEF Somewhere, In, tickVars
  <2> QED  BY <1>2, <2>3 DEF IInv, Kept, tickVars, config
<1> QED  BY <1>5, <1>6, <1>8, <1>10, <1>11 DEF IInv

(* It begins it.                                                           *)
LEMMA BeginTaskKeeps == ASSUME IInv, pooled, NEW w \in Workers, BeginTask(w)  PROVE IInv'
<1> DEFINE h == task[w]
<1>1. /\ worker[w] = "taken" /\ worker' = [worker EXCEPT ![w] = "running"]
      /\ started' = Append(started, h)
      /\ UNCHANGED <<heap, sequence, task, config, tick, phase, todo, nodeVars, queue, batch,
                     accepted>>
  BY DEF BeginTask, Begin
<1>2. h \in Proper /\ Ripe(h, committed, tick, phase) /\ Ahead(h)
  BY <1>1 DEF IInv, TypeOK, AllRipe, InOrder, Busy
<1>3. /\ started' \in Seq(Proper)
      /\ \A i \in DOMAIN started : i \in DOMAIN started' /\ started'[i] = started[i]
      /\ Len(started) + 1 \in DOMAIN started' /\ started'[Len(started) + 1] = h
      /\ \A i \in DOMAIN started' : i \in DOMAIN started \/ i = Len(started) + 1
  BY <1>1, <1>2, Appended DEF IInv, TypeOK
<1>4. /\ worker' \in [Workers -> States] /\ worker'[w] = "running"
      /\ \A v \in Workers : v # w => worker'[v] = worker[v]
      /\ \A v \in Workers : worker'[v] \in Busy <=> worker[v] \in Busy
  BY <1>1 DEF IInv, TypeOK, States, Busy
<1> HIDE DEF h
<1>5. TypeOK'  BY <1>1, <1>3, <1>4 DEF IInv, TypeOK, config, nodeVars
<1>6. Phased' /\ Queued' /\ Batched'
  BY <1>1 DEF IInv, Phased, Queued, Batched, nodeVars
<1>7. AllRipe'
  <2>1. \A i \in DOMAIN started' : Ripe(started'[i], committed, tick, phase)
    BY <1>2, <1>3 DEF IInv, AllRipe
  <2> QED  BY <1>1, <1>4, <2>1 DEF IInv, AllRipe, nodeVars
<1>8. InOrder'
  <2>1. \A i \in DOMAIN started' : Ahead(started'[i])
    BY <1>2, <1>3 DEF IInv, InOrder
  <2>2. \A v \in Workers : worker'[v] = "taken" => Ahead(task[v])
    BY <1>4 DEF IInv, InOrder
  <2> QED  BY <1>1, <2>1, <2>2 DEF IInv, InOrder, Ahead
<1>9. Kept'
  <2>1. \A a : In(a, started) => In(a, started')  BY <1>3 DEF In
  <2>2. \A a : Taken(a) => Taken(a)' \/ In(a, started')
    <3> SUFFICES ASSUME NEW a, NEW v \in Workers, worker[v] = "taken", task[v] = a
                 PROVE  Taken(a)' \/ In(a, started')
      BY DEF Taken
    <3>1. CASE v = w  BY <1>3, <3>1 DEF In, h
    <3>2. CASE v # w  BY <1>1, <1>4, <3>2 DEF Taken
    <3> QED  BY <3>1, <3>2
  <2>3. \A a : Somewhere(a) => Somewhere(a)'
    BY <1>1, <2>1, <2>2 DEF Somewhere, In, InHeap
  <2> QED  BY <1>1, <1>4, <2>3 DEF IInv, Kept, config
<1> QED  BY <1>5, <1>6, <1>7, <1>8, <1>9 DEF IInv

(* What leaves the actions where they are: an action returns, a thread     *)
(* waits or exits, the pool is shut down.                                  *)
LEMMA IdleStepKeeps ==
  ASSUME IInv, UNCHANGED <<heap, sequence, pooled, tick, phase, todo, committed, read, latched,
                           proposal, queue, batch, accepted, started>>,
         worker' \in [Workers -> States],
         task' = [w \in Workers |-> task'[w]],
         \A w \in Workers :
           /\ worker'[w] \in Busy => worker'[w] = worker[w] /\ task'[w] = task[w]
           /\ worker[w] = "taken" => worker'[w] = "taken"
  PROVE  IInv'
<1>1. TypeOK' /\ Phased' /\ Queued' /\ Batched'
  BY DEF IInv, TypeOK, Phased, Queued, Batched
<1>2. AllRipe'  BY DEF IInv, AllRipe
<1>3. InOrder'  BY DEF IInv, InOrder, Ahead, Busy
<1>4. Kept'
  <2>1. \A a : Taken(a) => Taken(a)'  BY DEF Taken, Busy
  <2>2. \A a : Somewhere(a) => Somewhere(a)'  BY <2>1 DEF Somewhere, In, InHeap
  <2> QED  BY <2>2 DEF IInv, Kept
<1> QED  BY <1>1, <1>2, <1>3, <1>4 DEF IInv

LEMMA WorkerKeeps ==
  ASSUME IInv, NEW w \in Workers, WorkerStep(w)
  PROVE  IInv'
<1>0. /\ worker \in [Workers -> States]
      /\ task = [v \in Workers |-> task[v]]
  BY DEF IInv, TypeOK
<1>1. CASE pooled /\ (TakeTask(w) \/ BeginTask(w))  BY <1>1, TakeTaskKeeps, BeginTaskKeeps
<1>2. CASE FinishTask(w)
  <2>1. /\ worker[w] = "running"
        /\ worker' = [worker EXCEPT ![w] = "ready"] /\ task' = [task EXCEPT ![w] = NoTask]
        /\ UNCHANGED <<heap, sequence, pooled, tick, phase, todo, committed, read, latched,
                       proposal, queue, batch, accepted, started>>
    BY <1>2 DEF FinishTask, Finish, config
  <2>2. /\ worker' \in [Workers -> States]
        /\ task' = [v \in Workers |-> task'[v]]
        /\ \A v \in Workers :
             /\ worker'[v] \in Busy => worker'[v] = worker[v] /\ task'[v] = task[v]
             /\ worker[v] = "taken" => worker'[v] = "taken"
    BY <1>0, <2>1 DEF States, Busy
  <2> QED  BY <2>1, <2>2, IdleStepKeeps
<1>3. CASE (Wait(w) \/ Exit(w)) /\ UNCHANGED tickVars
  <2>1. /\ worker[w] = "ready"
        /\ \/ worker' = [worker EXCEPT ![w] = "waiting"]
           \/ worker' = [worker EXCEPT ![w] = "exited"]
        /\ UNCHANGED <<heap, sequence, task, pooled, tick, phase, todo, committed, read,
                       latched, proposal, queue, batch, accepted, started>>
    BY <1>3 DEF Wait, Exit, tickVars, config, nodeVars
  <2>2. /\ worker' \in [Workers -> States]
        /\ \A v \in Workers :
             /\ worker'[v] \in Busy => worker'[v] = worker[v]
             /\ worker[v] = "taken" => worker'[v] = "taken"
    BY <1>0, <2>1 DEF States, Busy
  <2> QED  BY <1>0, <2>1, <2>2, IdleStepKeeps
<1> QED  BY <1>1, <1>2, <1>3 DEF WorkerStep

(* A running action hands on a further one.                                *)
LEMMA SpawnKeeps == ASSUME IInv, NEW w \in Workers, Spawn(w)  PROVE IInv'
<1> DEFINE f == Further(task[w])
           new == [action |-> f, seq |-> sequence]
<1>1. /\ worker[w] = "running" /\ accepted' = accepted \cup {f}
      /\ \/ queue' = Append(queue, f) /\ UNCHANGED poolVars
         \/ Submit(f) /\ UNCHANGED queue
      /\ UNCHANGED <<config, tick, phase, todo, nodeVars, batch, started>>
  BY DEF Spawn
<1>2. task[w] \in Proper /\ Ripe(task[w], committed, tick, phase)
  BY <1>1 DEF IInv, TypeOK, AllRipe, Busy
<1>3. /\ f \in Proper /\ f.spawned /\ f.tick <= tick /\ Ripe(f, committed, tick, phase)
  BY <1>2, FurtherFacts DEF Ripe
<1>4. pooled /\ pooled' = pooled  BY <1>1 DEF IInv, TypeOK, Kept, config, Busy
<1>6. accepted' \subseteq Proper  BY <1>1, <1>3 DEF IInv, TypeOK
<1> HIDE DEF f
<1>7. CASE queue' = Append(queue, f) /\ UNCHANGED poolVars
  <2>1. /\ Queued' /\ queue' \in Seq(Proper) /\ In(f, queue')
        /\ \A a : In(a, queue) => In(a, queue')
    BY <1>1, <1>3, <1>7, QueueGrows
  <2>2. TypeOK'  BY <1>1, <1>6, <1>7, <2>1 DEF IInv, TypeOK, poolVars, config, nodeVars
  <2>3. Phased' /\ Batched' /\ InOrder' /\ AllRipe'
    BY <1>1, <1>7 DEF IInv, Phased, Batched, InOrder, Ahead, AllRipe, poolVars, nodeVars
  <2>4. Kept'  BY <1>1, <1>7, <2>1, HandedOn DEF IInv
  <2> QED  BY <2>1, <2>2, <2>3, <2>4 DEF IInv
<1>8. CASE Submit(f) /\ UNCHANGED queue
  <2>1. /\ heap' = heap \cup {new} /\ sequence' = sequence + 1 /\ task' = task
        /\ worker' \in [Workers -> States]
        /\ \A v \in Workers : \A b \in Busy : worker'[v] = b <=> worker[v] = b
    BY <1>8, SubmitFacts DEF IInv
  <2>2. new \in [action : Proper, seq : Nat] /\ new.action = f /\ new.seq = sequence
        /\ sequence \in Nat
    BY <1>3 DEF IInv, TypeOK
  <2> HIDE DEF new
  <2>3. TypeOK'  BY <1>1, <1>6, <1>8, <2>1, <2>2 DEF IInv, TypeOK, config, nodeVars, Busy
  <2>4. Phased' /\ Queued' /\ Batched'
    BY <1>1, <1>8 DEF IInv, Phased, Queued, Batched, nodeVars
  <2>5. AllRipe'
    BY <1>1, <1>3, <2>1, <2>2 DEF IInv, AllRipe, nodeVars, Busy
  <2>6. InOrder'
    <3>1. \A a : Older(a, f) /\ Older(f, a)  BY <1>3 DEF Older
    <3>2. \A t \in heap : t.seq < new.seq /\ t.seq \in Nat /\ t.seq < sequence'
      BY <2>1, <2>2, ElementsAreProper DEF IInv, InOrder
    <3>3. \A t, u \in heap' :
            /\ t.seq < u.seq => Older(t.action, u.action)
            /\ t # u => t.seq # u.seq
      <4> SUFFICES ASSUME NEW t \in heap', NEW u \in heap'
                   PROVE  /\ t.seq < u.seq => Older(t.action, u.action)
                          /\ t # u => t.seq # u.seq
        OBVIOUS
      <4>1. CASE t \in heap /\ u \in heap  BY <4>1 DEF IInv, InOrder
      <4>2. CASE t \in heap /\ u = new  BY <2>2, <3>1, <3>2, <4>2
      <4>3. CASE t = new /\ u \in heap  BY <2>2, <3>1, <3>2, <4>3
      <4>4. CASE t = new /\ u = new  BY <2>2, <4>4
      <4> QED  BY <2>1, <4>1, <4>2, <4>3, <4>4
    <3>4. \A t \in heap' : t.seq < sequence'  BY <2>1, <2>2, <3>2
    <3>5. \A t \in heap' : \A j \in DOMAIN batch : Older(t.action, batch[j])
      BY <2>1, <2>2, <3>1 DEF IInv, InOrder
    <3>6. \A a : Ahead(a) => Ahead(a)'  BY <1>1, <2>1, <2>2, <3>1 DEF Ahead
    <3> QED  BY <1>1, <2>1, <3>3, <3>4, <3>5, <3>6 DEF IInv, InOrder, Busy
  <2>7. Kept'
    <3>1. \A a : (InHeap(a) => InHeap(a)') /\ (Taken(a) => Taken(a)')
      BY <2>1 DEF InHeap, Taken, Busy
    <3>2. \A a : Somewhere(a) => Somewhere(a)'
      BY <1>1, <1>8, <3>1 DEF Somewhere, In
    <3>3. \A a : a = f => Somewhere(a)'  BY <2>1, <2>2 DEF Somewhere, InHeap
    <3> QED  BY <1>1, <1>4, <3>2, <3>3 DEF IInv, Kept
  <2> QED  BY <2>3, <2>4, <2>5, <2>6, <2>7 DEF IInv
<1> QED  BY <1>1, <1>7, <1>8

LEMMA InvNext == IInv /\ [Next]_vars => IInv'
<1> SUFFICES ASSUME IInv, [Next]_vars  PROVE IInv'
  OBVIOUS
<1>1. CASE TickStep
  BY <1>1, BeginTickKeeps, QuietPassKeeps, CommitKeeps, TakeQueueKeeps, RunActionKeeps,
     PostActionKeeps, EndDispatchKeeps DEF TickStep
<1>2. ASSUME NEW w \in Workers, WorkerStep(w) \/ Spawn(w)  PROVE IInv'
  BY <1>2, WorkerKeeps, SpawnKeeps
<1>3. CASE ShutDown \/ UNCHANGED vars
  <2>0. /\ worker \in [Workers -> States]
        /\ task = [v \in Workers |-> task[v]]
    BY DEF IInv, TypeOK
  <2>1. /\ worker' = worker \/ worker' = Wake(Waiting)
        /\ UNCHANGED <<heap, sequence, task, pooled, tick, phase, todo, committed, read,
                       latched, proposal, queue, batch, accepted, started>>
    BY <1>3 DEF ShutDown, Shutdown, vars, poolVars, tickVars, config, nodeVars
  <2>2. /\ worker' \in [Workers -> States]
        /\ \A v \in Workers :
             /\ worker'[v] \in Busy => worker'[v] = worker[v]
             /\ worker[v] = "taken" => worker'[v] = "taken"
    BY <2>0, <2>1, WakeFacts DEF IInv, Busy
  <2> QED  BY <2>0, <2>1, <2>2, IdleStepKeeps
<1> QED  BY <1>1, <1>2, <1>3 DEF Next

-----------------------------------------------------------------------------
(* The order of the actions on their way from the commits to their run.    *)
THEOREM InductiveInvariant == Spec => []IInv
BY InvInit, InvNext, PTL DEF Spec

(* TickIsSynchronous: with any nodes and any pool, the nodes of a tick     *)
(* evaluate one snapshot, and none of its actions begins before the last   *)
(* of them has committed (runtime.py:442-500).                             *)
THEOREM TicksAreSynchronous == Spec => []TickIsSynchronous
<1>1. ASSUME IInv  PROVE TickIsSynchronous
  <2>1. \A i \in DOMAIN started : \A n \in Nodes : committed[n] >= started[i].tick
    BY <1>1 DEF IInv, AllRipe, Ripe
  <2>2. ASSUME ~ pooled, phase = "dump", NEW a \in accepted, ~ a.spawned
        PROVE  \E i \in DOMAIN started : started[i] = a
    <3>1. ~ In(a, queue)  BY <1>1, <2>2 DEF IInv, Queued, In
    <3>2. ~ In(a, batch)  BY <1>1, <2>2 DEF IInv, Batched, In
    <3>3. ~ InHeap(a) /\ ~ Taken(a)  BY <1>1, <2>2 DEF IInv, Kept, InHeap, Taken, Busy
    <3> QED  BY <1>1, <2>2, <3>1, <3>2, <3>3 DEF IInv, Kept, Somewhere, In
  <2>3. phase \in {"commit", "dispatch"} => \A n, m \in Nodes : read[n] = read[m]
    BY <1>1 DEF IInv, Phased
  <2> QED  BY <2>1, <2>2, <2>3 DEF TickIsSynchronous
<1> QED  BY <1>1, InductiveInvariant, PTL

(* OvertakenOnlyWhenTaken: with a pool of any size, an action that a later *)
(* one of its node has overtaken has been popped by a worker which has not *)
(* begun it yet (worker_pool.py:142-143).                                  *)
THEOREM OvertakenActionsAreTaken == Spec => []OvertakenOnlyWhenTaken
<1>1. ASSUME IInv  PROVE OvertakenOnlyWhenTaken
  <2> SUFFICES ASSUME NEW i \in DOMAIN started, NEW a \in accepted,
                      a.node = started[i].node, a.tick < started[i].tick,
                      ~ a.spawned, ~ started[i].spawned, Times(a, started) = 0
               PROVE  \E w \in Workers : worker[w] = "taken" /\ task[w] = a
    BY DEF OvertakenOnlyWhenTaken
  <2>1. a.tick \in Nat /\ started[i].tick \in Nat /\ started[i].tick <= tick /\ tick \in Nat
    BY <1>1, ElementsAreProper DEF IInv, TypeOK, Proper, AllRipe, Ripe
  <2>2. ~ Older(started[i], a)  BY <2>1 DEF Older
  <2>3. ~ In(a, batch) /\ ~ InHeap(a)
    BY <1>1, <2>2 DEF IInv, InOrder, Ahead, In, InHeap
  <2>4. ~ In(a, queue)
    BY <1>1, <2>1 DEF IInv, Queued, In
  <2>5. ~ In(a, started)
    <3> SUFFICES ASSUME NEW j \in DOMAIN started, started[j] = a  PROVE FALSE
      BY DEF In
    <3> DEFINE at == {k \in DOMAIN started : started[k] = a}
    <3>1. DOMAIN started = 1 .. Len(started) /\ Len(started) \in Nat
      BY <1>1 DEF IInv, TypeOK
    <3>2. IsFiniteSet(at)
      <4>1. IsFiniteSet(1 .. Len(started))  BY <3>1, FS_Interval
      <4>2. at \subseteq 1 .. Len(started)  BY <3>1
      <4> QED  BY <4>1, <4>2, FS_Subset
    <3>3. at = {}  BY <3>2, FS_EmptySet DEF Times
    <3> QED  BY <3>3
  <2> QED  BY <1>1, <2>3, <2>4, <2>5 DEF IInv, Kept, Somewhere, Taken
<1> QED  BY <1>1, InductiveInvariant, PTL

-----------------------------------------------------------------------------
(***************************************************************************)
(* The threaded executor.                                                  *)
(***************************************************************************)

Places == {"sleep", "evaluate", "evaluated", "commit", "committed", "dump", "ended"}

ThreadTypeOK ==
  /\ pc \in [Threads -> Places]
  /\ act \in [Threads -> Nat]
  /\ arrived \in [Kinds -> [Groups -> SUBSET Threads]]
  /\ barrier \in [Kinds -> [Groups -> {"filling", "open", "broken"}]]
  /\ reached \in [Threads -> Int]
  /\ stop \in BOOLEAN

(* A node is at an instant of its own, and the groups reach that far.      *)
OnInstants ==
  \A n \in Threads :
    /\ act[n] % Period[n] = 0 /\ reached[n] <= act[n]
    /\ pc[n] # "ended" => act[n] <= MaxInstant + Period[n]
    /\ pc[n] \notin {"sleep", "ended"} => act[n] <= MaxInstant \/ stop

AllCommitted(g) == \A m \in Members(g) : reached[m] >= g[2]

(* Who is counted by a barrier belongs to it, and has committed before it  *)
(* is counted by the second one.                                           *)
Counted ==
  \A g \in Groups :
    /\ \A b \in Kinds : arrived[b][g] \subseteq Members(g)
    /\ \A n \in arrived["commit"][g] : reached[n] >= g[2]

(* An open barrier may be broken later, by an abort: what the threads that *)
(* it let pass rely on is about the nodes, not about the barrier.          *)
OpenHolds == \A g \in Groups : barrier["commit"][g] = "open" => AllCommitted(g)
DumpHolds == \A n \in Threads : pc[n] = "dump" => AllCommitted(GroupOf(n))
PastHolds ==
  \A n \in Threads : \A k \in Instants :
    k % Period[n] = 0 /\ act[n] > k => AllCommitted(<<RuntimeOf[n], k>>)

(* The inductive invariant.                                                *)
ThreadInv == ThreadTypeOK /\ OnInstants /\ Counted /\ OpenHolds /\ DumpHolds /\ PastHolds

-----------------------------------------------------------------------------
(* The longest period is one of them: a smallest set of nodes without one  *)
(* loses that property with any node taken away.                           *)
LEMMA LongestFacts ==
  /\ Longest \in Nat /\ \A n \in Threads : Period[n] <= Longest
<1>1. Period \in [Threads -> Nat] /\ Threads # {} /\ IsFiniteSet(Threads)
  BY PyThreadAssumption
<1> DEFINE HasLongest(T) == \E p \in T : \A q \in T : Period[q] <= Period[p]
           without == {T \in SUBSET Threads : T # {} /\ ~ HasLongest(T)}
           sizes   == {Cardinality(T) : T \in without}
<1>2. ASSUME without # {}  PROVE FALSE
  <2>1. \A T \in SUBSET Threads : IsFiniteSet(T) /\ Cardinality(T) \in Nat
    BY <1>1, FS_Subset, FS_CardinalityType
  <2>2. sizes \in SUBSET Nat /\ sizes # {}
    BY <1>2, <2>1
  <2>3. PICK T \in without : \A U \in without : Cardinality(T) <= Cardinality(U)
    <3> HIDE DEF without
    <3>1. PICK c \in sizes : \A d \in sizes : c <= d  BY <2>2, Least, Zenon
    <3> QED  BY <3>1
  <2>4. T \in SUBSET Threads /\ T # {} /\ ~ HasLongest(T)  BY <2>3
  <2>5. PICK x \in T : TRUE  BY <2>4
  <2>6. Cardinality(T \ {x}) < Cardinality(T)
    <3>1. Cardinality(T \ {x}) = Cardinality(T) - 1  BY <2>1, <2>4, <2>5, FS_RemoveElement
    <3> QED  BY <2>1, <2>4, <3>1
  <2>7. T \ {x} \notin without
    <3>1. Cardinality(T) \in Nat /\ Cardinality(T \ {x}) \in Nat  BY <2>1, <2>4
    <3>2. ~ (Cardinality(T) <= Cardinality(T \ {x}))  BY <2>6, <3>1
    <3> HIDE DEF without
    <3> QED  BY <2>3, <3>2
  <2>8. CASE T \ {x} = {}
    <3>1. \A q \in T : q = x  BY <2>8
    <3>2. \A q \in T : Period[q] <= Period[x]  BY <1>1, <2>4, <2>5, <3>1
    <3> QED  BY <2>4, <2>5, <3>2
  <2>9. CASE HasLongest(T \ {x})
    <3>1. PICK p \in T \ {x} : \A q \in T \ {x} : Period[q] <= Period[p]  BY <2>9
    <3>2. \A q \in T : Period[q] \in Nat  BY <1>1, <2>4
    <3>3. CASE Period[x] <= Period[p]
      <4>1. \A q \in T : Period[q] <= Period[p]  BY <3>1, <3>3
      <4> QED  BY <2>4, <4>1
    <3>4. CASE Period[p] < Period[x]
      <4>1. \A q \in T : Period[q] <= Period[x]  BY <3>1, <3>2, <3>4, <2>5
      <4> QED  BY <2>4, <2>5, <4>1
    <3> QED  BY <3>2, <3>3, <3>4, <2>5
  <2> QED  BY <2>4, <2>7, <2>8, <2>9
<1>3. HasLongest(Threads)  BY <1>1, <1>2
<1>4. \E p \in {Period[n] : n \in Threads} : \A n \in Threads : Period[n] <= p  BY <1>3
<1>5. Longest \in {Period[n] : n \in Threads} /\ \A n \in Threads : Period[n] <= Longest
  BY <1>4 DEF Longest
<1> QED  BY <1>1, <1>5

(* A node that has not ended is in a group of its own instant.             *)
LEMMA GroupFacts ==
  ASSUME ThreadInv, NEW n \in Threads
  PROVE  /\ act[n] \in Nat /\ Period[n] \in Nat \ {0} /\ act[n] % Period[n] = 0
         /\ n \in Members(GroupOf(n)) /\ GroupOf(n)[2] = act[n]
         /\ pc[n] # "ended" => GroupOf(n) \in Groups /\ act[n] \in Instants
<1>1. act[n] \in Nat /\ Period[n] \in Nat \ {0} /\ act[n] % Period[n] = 0
      /\ RuntimeOf[n] \in Runtimes /\ MaxInstant \in Nat
  BY PyThreadAssumption DEF ThreadInv, ThreadTypeOK, OnInstants
<1>2. n \in Members(GroupOf(n)) /\ GroupOf(n)[2] = act[n]  BY <1>1 DEF Members, GroupOf
<1>3. ASSUME pc[n] # "ended"  PROVE act[n] \in Instants
  <2>1. act[n] <= MaxInstant + Period[n]  BY <1>3 DEF ThreadInv, OnInstants
  <2>2. Period[n] <= Longest /\ Longest \in Nat  BY LongestFacts
  <2> QED  BY <1>1, <2>1, <2>2 DEF Instants
<1> QED  BY <1>1, <1>2, <1>3 DEF Groups, GroupOf

LEMMA ThreadInvInit == ThreadsInit => ThreadInv
<1> SUFFICES ASSUME ThreadsInit  PROVE ThreadInv
  OBVIOUS
<1>1. ThreadTypeOK
  <2>1. pc \in [Threads -> Places] /\ act \in [Threads -> Nat] /\ stop \in BOOLEAN
    BY DEF ThreadsInit, Places
  <2>2. [g \in Groups |-> {}] \in [Groups -> SUBSET Threads]  OBVIOUS
  <2>3. arrived \in [Kinds -> [Groups -> SUBSET Threads]]  BY <2>2 DEF ThreadsInit
  <2>4. [g \in Groups |-> "filling"] \in [Groups -> {"filling", "open", "broken"}]  OBVIOUS
  <2>5. barrier \in [Kinds -> [Groups -> {"filling", "open", "broken"}]]  BY <2>4 DEF ThreadsInit
  <2>6. reached \in [Threads -> Int]
    <3>1. reached = [n \in Threads |-> -1]  BY DEF ThreadsInit
    <3>2. -1 \in Int  OBVIOUS
    <3> QED  BY <3>1, <3>2
  <2> QED  BY <2>1, <2>3, <2>5, <2>6 DEF ThreadTypeOK
<1>2. OnInstants
  <2> SUFFICES ASSUME NEW n \in Threads
               PROVE  0 % Period[n] = 0 /\ 0 <= MaxInstant + Period[n] /\ -1 <= 0
    BY DEF ThreadsInit, OnInstants
  <2>1. Period[n] \in Nat \ {0} /\ MaxInstant \in Nat  BY PyThreadAssumption
  <2>2. (Period[n] * 0) % Period[n] = 0  BY <2>1, MultipleIsZero
  <2> QED  BY <2>1, <2>2
<1>3. Counted  BY DEF ThreadsInit, Counted, Kinds
<1>4. OpenHolds /\ DumpHolds  BY DEF ThreadsInit, OpenHolds, DumpHolds, Kinds
<1>5. PastHolds
  <2>1. \A k \in Instants : ~ (0 > k)  BY LongestFacts, PyThreadAssumption DEF Instants
  <2> QED  BY <2>1 DEF ThreadsInit, PastHolds
<1> QED  BY <1>1, <1>2, <1>3, <1>4, <1>5 DEF ThreadInv

-----------------------------------------------------------------------------
(* The steps.                                                              *)

(* A step that does not commit, count or advance.                          *)
LEMMA PlainKeeps ==
  ASSUME ThreadInv, UNCHANGED <<act, arrived, reached>>,
         \A n \in Threads : pc'[n] # "ended" /\ pc[n] = "sleep" /\ pc'[n] # "sleep" =>
           act[n] <= MaxInstant \/ stop',
         pc' \in [Threads -> Places], stop' \in BOOLEAN, stop => stop',
         barrier' \in [Kinds -> [Groups -> {"filling", "open", "broken"}]],
         \A n \in Threads : pc[n] = "ended" => pc'[n] = "ended",
         \A g \in Groups : barrier'["commit"][g] = "open" => barrier["commit"][g] = "open",
         \A n \in Threads : pc'[n] = "dump" =>
           pc[n] = "dump" \/ AllCommitted(GroupOf(n))
  PROVE  ThreadInv'
<1>1. ThreadTypeOK'  BY DEF ThreadInv, ThreadTypeOK
<1>2. OnInstants'  BY DEF ThreadInv, OnInstants
<1>3. \A g : AllCommitted(g)' = AllCommitted(g)  BY DEF AllCommitted, Members
<1>4. Counted'  BY DEF ThreadInv, Counted, Members
<1>5. OpenHolds' /\ PastHolds'  BY <1>3 DEF ThreadInv, OpenHolds, PastHolds
<1>6. DumpHolds'
  <2>1. \A n \in Threads : GroupOf(n)' = GroupOf(n)  BY DEF GroupOf
  <2>2. \A n \in Threads : AllCommitted(GroupOf(n))' = AllCommitted(GroupOf(n))
    BY <2>1 DEF AllCommitted, Members
  <2> QED  BY <2>2 DEF ThreadInv, DumpHolds
<1> QED  BY <1>1, <1>2, <1>4, <1>5, <1>6 DEF ThreadInv

(* A barrier that a thread enters: the group is one that exists, the place *)
(* it goes to follows from the barrier.                                    *)
LEMMA EvaluateKeeps == ASSUME ThreadInv, NEW n \in Threads, EvaluateNode(n)  PROVE ThreadInv'
<1> DEFINE g == GroupOf(n)
<1>1. g \in Groups /\ n \in Members(g)  BY GroupFacts DEF EvaluateNode
<1>2. UNCHANGED <<act, active, reached, runVars>> /\ pc[n] = "evaluate"
      /\ Arrive(n, "eval", "commit", "evaluated")
  BY DEF EvaluateNode
<1>3. \/ arrived' = arrived \/ arrived' = [arrived EXCEPT !["eval"][g] = @ \cup {n}]
  BY <1>2 DEF Arrive
<1>4. \/ barrier' = barrier \/ barrier' = [barrier EXCEPT !["eval"][g] = "open"]
  BY <1>2 DEF Arrive
<1>5. \E where \in {"commit", "evaluated", "ended"} : pc' = [pc EXCEPT ![n] = where]
  BY <1>2 DEF Arrive, Goto
<1> HIDE DEF g
<1>6. ThreadTypeOK'
  <2>1. arrived' \in [Kinds -> [Groups -> SUBSET Threads]]  BY <1>1, <1>3 DEF ThreadInv, ThreadTypeOK, Kinds
  <2>2. barrier' \in [Kinds -> [Groups -> {"filling", "open", "broken"}]]
    BY <1>1, <1>4 DEF ThreadInv, ThreadTypeOK, Kinds
  <2>3. pc' \in [Threads -> Places]  BY <1>5 DEF ThreadInv, ThreadTypeOK, Places
  <2> QED  BY <1>2, <2>1, <2>2, <2>3 DEF ThreadInv, ThreadTypeOK, runVars
<1>7. \A m \in Threads : m # n => pc'[m] = pc[m]  BY <1>5 DEF ThreadInv, ThreadTypeOK
<1>8. pc'[n] \in {"commit", "evaluated", "ended"}  BY <1>5 DEF ThreadInv, ThreadTypeOK
<1>9. OnInstants'  BY <1>2, <1>7, <1>8 DEF ThreadInv, OnInstants, runVars
<1>10. \A h : AllCommitted(h)' = AllCommitted(h) /\ Members(h)' = Members(h)
  BY <1>2 DEF AllCommitted, Members
<1>11. /\ arrived'["commit"] = arrived["commit"] /\ barrier'["commit"] = barrier["commit"]
       /\ \A h \in Groups :
            \/ arrived'["eval"][h] = arrived["eval"][h]
            \/ h = g /\ arrived'["eval"][h] = arrived["eval"][h] \cup {n}
  BY <1>1, <1>3, <1>4 DEF ThreadInv, ThreadTypeOK, Kinds
<1>12. Counted'
  <2>1. \A h \in Groups : arrived'["eval"][h] \subseteq Members(h)
    BY <1>1, <1>11 DEF ThreadInv, Counted, Kinds
  <2> QED  BY <1>2, <1>10, <1>11, <2>1 DEF ThreadInv, Counted, Kinds
<1>13. OpenHolds' /\ PastHolds'  BY <1>2, <1>10, <1>11 DEF ThreadInv, OpenHolds, PastHolds
<1>14. DumpHolds'
  <2>1. \A m \in Threads : GroupOf(m)' = GroupOf(m)  BY <1>2 DEF GroupOf
  <2>2. \A m \in Threads : AllCommitted(GroupOf(m))' = AllCommitted(GroupOf(m))
    BY <1>2, <2>1 DEF AllCommitted, Members
  <2> QED  BY <1>7, <1>8, <2>2 DEF ThreadInv, DumpHolds
<1> QED  BY <1>6, <1>9, <1>12, <1>13, <1>14 DEF ThreadInv

(* The commits only grow: nothing that was committed is lost.              *)
LEMMA CommitsGrow ==
  ASSUME ThreadInv, NEW n \in Threads, CommitNode(n)
  PROVE  /\ reached' \in [Threads -> Int] /\ reached'[n] = act[n]
         /\ \A m \in Threads : reached'[m] >= reached[m] /\ reached'[m] <= act[m]
         /\ \A g \in Groups : AllCommitted(g) => AllCommitted(g)'
<1>1. /\ reached' = [reached EXCEPT ![n] = act[n]] /\ act' = act
      /\ reached \in [Threads -> Int] /\ act \in [Threads -> Nat]
      /\ \A m \in Threads : reached[m] <= act[m]
  BY DEF CommitNode, ThreadInv, ThreadTypeOK, OnInstants
<1>2. \A m \in Threads : reached'[m] >= reached[m] /\ reached'[m] <= act[m]
  BY <1>1
<1>3. ASSUME NEW g \in Groups, AllCommitted(g)  PROVE AllCommitted(g)'
  <2>1. SUFFICES ASSUME NEW m \in Members(g)  PROVE reached'[m] >= g[2]
    BY DEF AllCommitted, Members
  <2>2. m \in Threads /\ reached[m] >= g[2]  BY <1>3, <2>1 DEF AllCommitted, Members
  <2>3. g[2] \in Int
    BY LongestFacts, PyThreadAssumption DEF Groups, Instants
  <2>4. reached[m] \in Int /\ reached'[m] \in Int  BY <1>1, <2>2
  <2> QED  BY <1>2, <2>2, <2>3, <2>4
<1> QED  BY <1>1, <1>2, <1>3

LEMMA CommitNodeKeeps == ASSUME ThreadInv, NEW n \in Threads, CommitNode(n)  PROVE ThreadInv'
<1> DEFINE g == GroupOf(n)
<1>1. g \in Groups /\ n \in Members(g) /\ g[2] = act[n]  BY GroupFacts DEF CommitNode
<1>2. UNCHANGED <<act, active, runVars>> /\ pc[n] = "commit"
      /\ Arrive(n, "commit", "dump", "committed")
  BY DEF CommitNode
<1>3. \/ arrived' = arrived /\ barrier' = barrier /\ pc' = [pc EXCEPT ![n] = "ended"]
      \/ /\ arrived' = [arrived EXCEPT !["commit"][g] = @ \cup {n}]
         /\ \/ barrier' = barrier /\ pc' = [pc EXCEPT ![n] = "committed"]
            \/ /\ Cardinality(arrived'["commit"][g]) = Parties(g)
               /\ barrier' = [barrier EXCEPT !["commit"][g] = "open"]
               /\ pc' = [pc EXCEPT ![n] = "dump"]
  BY <1>2 DEF Arrive, Goto
<1>4. \A h : Members(h)' = Members(h) /\ Members(h) \subseteq Threads  BY DEF Members
<1>14. g' = g  BY <1>2 DEF GroupOf
<1> HIDE DEF g
<1>5. ThreadTypeOK'
  <2>1. arrived' \in [Kinds -> [Groups -> SUBSET Threads]]  BY <1>1, <1>3 DEF ThreadInv, ThreadTypeOK, Kinds
  <2>2. barrier' \in [Kinds -> [Groups -> {"filling", "open", "broken"}]]
    BY <1>1, <1>3 DEF ThreadInv, ThreadTypeOK, Kinds
  <2>3. pc' \in [Threads -> Places]  BY <1>3 DEF ThreadInv, ThreadTypeOK, Places
  <2>4. act' \in [Threads -> Nat] /\ stop' \in BOOLEAN  BY <1>2 DEF ThreadInv, ThreadTypeOK, runVars
  <2> QED  BY CommitsGrow, <2>1, <2>2, <2>3, <2>4 DEF ThreadTypeOK
<1>6. /\ \A m \in Threads : m # n => pc'[m] = pc[m]
      /\ pc'[n] \in {"committed", "dump", "ended"}
  BY <1>3 DEF ThreadInv, ThreadTypeOK
<1>7. OnInstants'  BY CommitsGrow, <1>2, <1>6 DEF ThreadInv, OnInstants, runVars
<1>8. \A h \in Groups :
        /\ arrived'["eval"][h] = arrived["eval"][h]
        /\ \/ arrived'["commit"][h] = arrived["commit"][h]
           \/ h = g /\ arrived'["commit"][h] = arrived["commit"][h] \cup {n}
  BY <1>1, <1>3 DEF ThreadInv, ThreadTypeOK, Kinds
<1>9. Counted'
  <2>1. \A h \in Groups : \A b \in Kinds : arrived'[b][h] \subseteq Members(h)
    BY <1>1, <1>8 DEF ThreadInv, Counted, Kinds
  <2>2. ASSUME NEW h \in Groups, NEW m \in arrived'["commit"][h]
        PROVE  reached'[m] >= h[2]
    <3>1. m \in Threads  BY <1>4, <2>1, <2>2 DEF Kinds
    <3>2. CASE m \in arrived["commit"][h]
      <4>1. reached[m] >= h[2] /\ reached'[m] >= reached[m]
        BY CommitsGrow, <3>1, <3>2 DEF ThreadInv, Counted
      <4>2. h[2] \in Int  BY LongestFacts, PyThreadAssumption DEF Groups, Instants
      <4>3. reached[m] \in Int /\ reached'[m] \in Int
        BY CommitsGrow, <3>1 DEF ThreadInv, ThreadTypeOK
      <4> QED  BY <4>1, <4>2, <4>3
    <3>3. CASE h = g /\ m = n
      <4>1. act[n] \in Nat  BY DEF ThreadInv, ThreadTypeOK
      <4> QED  BY CommitsGrow, <1>1, <3>3, <4>1
    <3> QED  BY <1>8, <2>2, <3>2, <3>3
  <2> QED  BY <1>4, <2>1, <2>2 DEF Counted
<1>10. ASSUME Cardinality(arrived'["commit"][g]) = Parties(g)  PROVE AllCommitted(g)'
  <2>1. arrived'["commit"][g] \subseteq Members(g)  BY <1>1, <1>4, <1>9 DEF Counted, Kinds
  <2>2. IsFiniteSet(Members(g))  BY <1>4, FS_Subset, PyThreadAssumption
  <2>3. arrived'["commit"][g] = Members(g)
    BY <1>10, <2>1, <2>2, FS_Subset DEF Parties
  <2>4. \A m \in Members(g) : reached'[m] >= g[2]  BY <1>1, <1>9, <2>3 DEF Counted
  <2> QED  BY <1>4, <1>14, <2>4 DEF AllCommitted
<1>11. OpenHolds'
  <2> SUFFICES ASSUME NEW h \in Groups, barrier'["commit"][h] = "open"
               PROVE  AllCommitted(h)'
    BY DEF OpenHolds, AllCommitted, Members
  <2>1. CASE barrier["commit"][h] = "open"  BY CommitsGrow, <2>1 DEF ThreadInv, OpenHolds
  <2>2. CASE h = g /\ Cardinality(arrived'["commit"][g]) = Parties(g)
    BY <1>10, <1>14, <2>2 DEF AllCommitted, Members
  <2> QED  BY <1>1, <1>3, <2>1, <2>2 DEF ThreadInv, ThreadTypeOK, Kinds
<1>12. DumpHolds'
  <2> SUFFICES ASSUME NEW m \in Threads, pc'[m] = "dump"
               PROVE  \A o \in Members(GroupOf(m)) : reached'[o] >= GroupOf(m)[2]
    BY <1>2 DEF DumpHolds, AllCommitted, Members, GroupOf
  <2>1. CASE m = n
    <3>1. AllCommitted(g)'  BY <1>3, <1>10, <2>1 DEF ThreadInv, ThreadTypeOK
    <3> QED  BY <2>1, <3>1, <1>2 DEF AllCommitted, Members, g, GroupOf
  <2>2. CASE m # n
    <3>1. pc[m] = "dump" /\ AllCommitted(GroupOf(m))  BY <1>6, <2>2 DEF ThreadInv, DumpHolds
    <3>2. GroupOf(m) \in Groups  BY GroupFacts, <3>1
    <3> QED  BY CommitsGrow, <3>1, <3>2, <1>2 DEF AllCommitted, Members, GroupOf
  <2> QED  BY <2>1, <2>2
<1>13. PastHolds'
  <2> SUFFICES ASSUME NEW m \in Threads, NEW k \in Instants, k % Period[m] = 0, act[m] > k
               PROVE  AllCommitted(<<RuntimeOf[m], k>>)'
    BY <1>2 DEF PastHolds, AllCommitted, Members
  <2>1. AllCommitted(<<RuntimeOf[m], k>>)  BY DEF ThreadInv, PastHolds
  <2>2. <<RuntimeOf[m], k>> \in Groups  BY PyThreadAssumption DEF Groups
  <2> QED  BY CommitsGrow, <2>1, <2>2
<1> QED  BY <1>5, <1>7, <1>9, <1>11, <1>12, <1>13 DEF ThreadInv

(* The next instant of a node: what it has gone past is what it dumped.    *)
LEMMA DumpKeeps == ASSUME ThreadInv, NEW n \in Threads, Dump(n)  PROVE ThreadInv'
<1>1. /\ act[n] \in Nat /\ Period[n] \in Nat \ {0} /\ act[n] % Period[n] = 0
      /\ GroupOf(n) = <<RuntimeOf[n], act[n]>> /\ AllCommitted(GroupOf(n))
  BY GroupFacts DEF Dump, ThreadInv, DumpHolds, GroupOf
<1>2. /\ act' = [act EXCEPT ![n] = @ + Period[n]]
      /\ UNCHANGED <<arrived, barrier, reached, stop>>
      /\ pc[n] = "dump" /\ pc' = [pc EXCEPT ![n] = IF stop THEN "ended" ELSE "sleep"]
  BY DEF Dump, Goto, runVars
<1>3. act'[n] = act[n] + Period[n] /\ \A m \in Threads : m # n => act'[m] = act[m]
  BY <1>2 DEF ThreadInv, ThreadTypeOK
<1>4. ThreadTypeOK'
  <2>1. act' \in [Threads -> Nat]  BY <1>1, <1>2 DEF ThreadInv, ThreadTypeOK
  <2>2. pc' \in [Threads -> Places]  BY <1>2 DEF ThreadInv, ThreadTypeOK, Places
  <2> QED  BY <1>2, <2>1, <2>2 DEF ThreadInv, ThreadTypeOK
<1>5. /\ \A m \in Threads : m # n => pc'[m] = pc[m]
      /\ pc'[n] = IF stop THEN "ended" ELSE "sleep"
  BY <1>2 DEF ThreadInv, ThreadTypeOK
<1>6. OnInstants'
  <2>1. \A m \in Threads : m # n =>
          /\ act'[m] % Period[m] = 0 /\ reached'[m] <= act'[m]
          /\ pc'[m] # "ended" => act'[m] <= MaxInstant + Period[m]
          /\ pc'[m] \notin {"sleep", "ended"} => act'[m] <= MaxInstant \/ stop'
    BY <1>2, <1>3, <1>5 DEF ThreadInv, OnInstants
  <2>2. act'[n] % Period[n] = 0  BY <1>1, <1>3, MultipleNext
  <2>3. reached'[n] <= act'[n]
    <3>1. reached[n] \in Int /\ reached[n] <= act[n]  BY DEF ThreadInv, ThreadTypeOK, OnInstants
    <3> QED  BY <1>1, <1>2, <1>3, <3>1
  <2>4. pc'[n] # "ended" => act'[n] <= MaxInstant + Period[n]
    <3>1. act[n] <= MaxInstant \/ stop  BY <1>2 DEF ThreadInv, OnInstants
    <3>2. MaxInstant \in Nat  BY PyThreadAssumption
    <3> QED  BY <1>1, <1>3, <1>5, <3>1, <3>2
  <2> QED  BY <1>5, <2>1, <2>2, <2>3, <2>4 DEF OnInstants
<1>7. \A h : AllCommitted(h)' = AllCommitted(h)  BY <1>2 DEF AllCommitted, Members
<1>8. Counted' /\ OpenHolds'  BY <1>2, <1>7 DEF ThreadInv, Counted, OpenHolds, Members
<1>9. DumpHolds'
  <2> SUFFICES ASSUME NEW m \in Threads, pc'[m] = "dump"  PROVE AllCommitted(GroupOf(m))'
    BY DEF DumpHolds
  <2>1. m # n /\ pc[m] = "dump"  BY <1>5
  <2> QED  BY <1>2, <1>3, <2>1 DEF ThreadInv, DumpHolds, AllCommitted, GroupOf, Members
<1>10. PastHolds'
  <2> SUFFICES ASSUME NEW m \in Threads, NEW k \in Instants, k % Period[m] = 0, act'[m] > k
               PROVE  AllCommitted(<<RuntimeOf[m], k>>)
    BY <1>7 DEF PastHolds
  <2>1. CASE m # n  BY <1>3, <2>1 DEF ThreadInv, PastHolds
  <2>2. CASE m = n /\ act[n] > k  BY <2>2 DEF ThreadInv, PastHolds
  <2>3. CASE m = n /\ ~ (act[n] > k)
    <3>1. k \in Nat /\ act[n] <= k /\ k < act[n] + Period[n]
      BY <1>1, <1>3, <2>3, LongestFacts, PyThreadAssumption DEF Instants
    <3>2. act[n] < k => act[n] + Period[n] <= k  BY <1>1, <2>3, <3>1, MultipleGap
    <3>3. k = act[n]  BY <1>1, <3>1, <3>2
    <3> QED  BY <1>1, <2>3, <3>3
  <2> QED  BY <2>1, <2>2, <2>3
<1> QED  BY <1>4, <1>6, <1>8, <1>9, <1>10 DEF ThreadInv

LEMMA WakeUpKeeps == ASSUME ThreadInv, NEW n \in Threads, WakeUp(n)  PROVE ThreadInv'
<1> DEFINE g == GroupOf(n)
<1>1. g \in Groups  BY GroupFacts DEF WakeUp
<1>2. UNCHANGED <<act, active, arrived, barrier, reached, runVars>>
  BY DEF WakeUp, WakeFrom
<1>3. /\ pc[n] \in {"evaluated", "committed"}
      /\ \/ pc' = [pc EXCEPT ![n] = "commit"] \/ pc' = [pc EXCEPT ![n] = "ended"]
         \/ pc' = [pc EXCEPT ![n] = "dump"] /\ barrier["commit"][g] = "open"
  BY DEF WakeUp, WakeFrom, Goto
<1> HIDE DEF g
<1>4. pc' \in [Threads -> Places]  BY <1>3 DEF ThreadInv, ThreadTypeOK, Places
<1>5. \A m \in Threads : m # n => pc'[m] = pc[m]  BY <1>3 DEF ThreadInv, ThreadTypeOK
<1>6. pc'[n] = "dump" => AllCommitted(g)  BY <1>1, <1>3 DEF ThreadInv, ThreadTypeOK, OpenHolds
<1>7. \A m \in Threads : pc'[m] = "dump" => pc[m] = "dump" \/ AllCommitted(GroupOf(m))
  BY <1>5, <1>6 DEF g
<1>8. stop' = stop /\ stop \in BOOLEAN
      /\ barrier' \in [Kinds -> [Groups -> {"filling", "open", "broken"}]]
      /\ barrier'["commit"] = barrier["commit"]
  BY <1>2 DEF ThreadInv, ThreadTypeOK, runVars
<1>9. \A m \in Threads : pc[m] = "ended" => pc'[m] = "ended"  BY <1>3, <1>5
<1>10. \A m \in Threads : ~ (pc'[m] # "ended" /\ pc[m] = "sleep" /\ pc'[m] # "sleep")
  BY <1>3, <1>5
<1> QED  BY <1>2, <1>4, <1>7, <1>8, <1>9, <1>10, PlainKeeps

(* The other steps of a node, and those of run.                            *)
LEMMA OthersKeep ==
  ASSUME ThreadInv, Stop \/ FinallyStep \/ (\E n \in Threads : Activate(n) \/ Raise(n))
  PROVE  ThreadInv'
<1>0. /\ pc \in [Threads -> Places] /\ stop \in BOOLEAN
      /\ barrier \in [Kinds -> [Groups -> {"filling", "open", "broken"}]]
  BY DEF ThreadInv, ThreadTypeOK
<1>1. CASE Stop
  BY <1>0, <1>1, PlainKeeps DEF Stop, threadVars
<1>2. CASE Finally
  BY <1>0, <1>2, PlainKeeps DEF Finally, threadVars
<1>3. CASE Collect \/ Return
  BY <1>0, <1>3, PlainKeeps DEF Collect, Return, threadVars
<1>4. ASSUME NEW b \in Kinds, NEW g \in Groups, Abort(b, g)  PROVE ThreadInv'
  <2>1. barrier' = [barrier EXCEPT ![b][g] = "broken"]
        /\ UNCHANGED <<pc, act, arrived, reached, stop>>
    BY <1>4 DEF Abort
  <2>2. barrier' \in [Kinds -> [Groups -> {"filling", "open", "broken"}]]
    BY <1>0, <2>1
  <2>3. \A h \in Groups : barrier'["commit"][h] = "open" => barrier["commit"][h] = "open"
    BY <1>0, <2>1 DEF Kinds
  <2> QED  BY <1>0, <2>1, <2>2, <2>3, PlainKeeps
<1>5. ASSUME NEW n \in Threads, Activate(n)  PROVE ThreadInv'
  <2>1. /\ pc[n] = "sleep" /\ (act[n] <= MaxInstant \/ stop)
        /\ pc' = [pc EXCEPT ![n] = "evaluate"]
        /\ UNCHANGED <<act, arrived, barrier, reached, stop>>
    BY <1>5 DEF Activate, Goto, runVars
  <2>2. pc' \in [Threads -> Places]  BY <1>0, <2>1 DEF Places
  <2>3. pc'[n] = "evaluate" /\ \A m \in Threads : m # n => pc'[m] = pc[m]  BY <1>0, <2>1
  <2> QED  BY <1>0, <2>1, <2>2, <2>3, PlainKeeps
<1>6. ASSUME NEW n \in Threads, Raise(n)  PROVE ThreadInv'
  <2>1. /\ pc' = [pc EXCEPT ![n] = "ended"]
        /\ UNCHANGED <<act, arrived, barrier, reached, stop>>
    BY <1>6 DEF Raise, Goto, runVars
  <2>2. pc' \in [Threads -> Places]  BY <1>0, <2>1 DEF Places
  <2>3. pc'[n] = "ended" /\ \A m \in Threads : m # n => pc'[m] = pc[m]  BY <1>0, <2>1
  <2> QED  BY <1>0, <2>1, <2>2, <2>3, PlainKeeps
<1> QED  BY <1>1, <1>2, <1>3, <1>4, <1>5, <1>6 DEF FinallyStep

LEMMA InvStep == ThreadInv /\ [ThreadsNext]_allVars => ThreadInv'
<1> SUFFICES ASSUME ThreadInv, [ThreadsNext]_allVars  PROVE ThreadInv'
  OBVIOUS
<1>1. CASE Stop \/ FinallyStep  BY <1>1, OthersKeep
<1>2. ASSUME NEW n \in Threads, NodeStep(n) \/ Raise(n)  PROVE ThreadInv'
  BY <1>2, EvaluateKeeps, CommitNodeKeeps, DumpKeeps, WakeUpKeeps, OthersKeep DEF NodeStep
<1>3. CASE UNCHANGED allVars
  <2>1. UNCHANGED <<pc, act, arrived, barrier, reached, stop>>
    BY <1>3 DEF allVars, threadVars, runVars
  <2> QED  BY <2>1, PlainKeeps DEF ThreadInv, ThreadTypeOK
<1> QED  BY <1>1, <1>2, <1>3 DEF ThreadsNext

-----------------------------------------------------------------------------
(* The counting of the barriers and what the threads past them rely on.    *)
THEOREM ThreadInvariant == ThreadsSpec => []ThreadInv
BY ThreadInvInit, InvStep, PTL DEF ThreadsSpec

(* TornInstantIsLast: for any nodes, periods and runtimes, and whatever    *)
(* raises, stops or aborts, a node that dumps an instant or goes past it   *)
(* does so after every node of its runtime active then has committed it    *)
(* (thread.py:274-301).                                                    *)
THEOREM NoNodePassesATornInstant == ThreadsSpec => []TornInstantIsLast
<1>1. ASSUME ThreadInv  PROVE TornInstantIsLast
  <2> SUFFICES ASSUME NEW n \in Threads, NEW m \in Threads, NEW k \in Instants,
                      RuntimeOf[n] = RuntimeOf[m], k % Period[n] = 0, k % Period[m] = 0,
                      act[n] > k \/ (act[n] = k /\ pc[n] = "dump")
               PROVE  reached[m] >= k
    BY DEF TornInstantIsLast
  <2> DEFINE g == <<RuntimeOf[n], k>>
  <2>1. m \in Members(g) /\ g[2] = k  BY DEF Members
  <2>2. CASE act[n] > k  BY <1>1, <2>1, <2>2 DEF ThreadInv, PastHolds, AllCommitted
  <2>3. CASE act[n] = k /\ pc[n] = "dump"
    BY <1>1, <2>1, <2>3 DEF ThreadInv, DumpHolds, GroupOf, AllCommitted
  <2> QED  BY <2>2, <2>3
<1> QED  BY <1>1, ThreadInvariant, PTL
=============================================================================
