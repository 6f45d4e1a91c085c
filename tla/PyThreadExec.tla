---------------------------- MODULE PyThreadExec ----------------------------
(***************************************************************************)
(* The threaded executor of the Python package (rxnet/thread.py): one      *)
(* thread per node, the last node of the last runtime in the thread that   *)
(* called run, and two threading.Barrier objects per activation instant.   *)
(*                                                                         *)
(* Unlike the C executor it survives a callback that raises in the calling *)
(* thread: run then sets the stop flag, aborts the barriers of the active  *)
(* groups, joins the threads with a timeout and returns.  Time is left     *)
(* out: a thread may be late by any amount.                                *)
(***************************************************************************)
EXTENDS Integers, FiniteSets

CONSTANTS
  Runtimes,     \* 1 .. the number of runtimes, in the order of add
  Threads,      \* their nodes, each with a thread of its own
  RuntimeOf,    \* the runtime of each node
  Period,       \* the period of each node
  Main,         \* the node that runs in the calling thread
  Raising,      \* bound: the nodes whose callbacks may raise
  MaxInstant    \* bound: no thread goes past it unless a stop is requested

ASSUME PyThreadAssumption ==
  /\ Runtimes = 1 .. Cardinality(Runtimes) /\ IsFiniteSet(Threads)
  /\ RuntimeOf \in [Threads -> Runtimes] /\ Period \in [Threads -> Nat \ {0}]
  /\ Main \in Threads /\ Raising \subseteq Threads /\ MaxInstant \in Nat
  /\ \A n \in Threads : RuntimeOf[n] <= RuntimeOf[Main]

VARIABLES
  pc,           \* where the loop of each node is
  act,          \* its activation_us
  active,       \* the groups in the dictionaries of the runtimes
  arrived,      \* the threads counted by each barrier
  barrier,      \* the state of each barrier
  stop,         \* _stop_requested
  main,         \* where run is: in its node loop or in its finally block
  collected,    \* the runtimes whose active groups run has copied
  left,         \* the barriers of the copy that it has still to abort
  reached       \* history: the last instant each node has committed, or -1

threadVars == <<pc, act, active, arrived, barrier, reached>>
runVars    == <<stop, main, collected, left>>
allVars    == <<threadVars, runVars>>

Longest  == CHOOSE p \in {Period[n] : n \in Threads} : \A n \in Threads : Period[n] <= p
Instants == 0 .. MaxInstant + 2 * Longest
Groups   == Runtimes \X Instants
Kinds    == {"eval", "commit"}

(* active_count_at, as the set that is counted.                            *)
Members(g) == {n \in Threads : RuntimeOf[n] = g[1] /\ g[2] % Period[n] = 0}

PartiesShort(g) == Cardinality(Members(g)) - 1   \* mutant: one too few

Parties(g) == Cardinality(Members(g))

GroupOf(n) == <<RuntimeOf[n], act[n]>>

ThreadsInit ==
  /\ pc = [n \in Threads |-> "sleep"] /\ act = [n \in Threads |-> 0]
  /\ active = {}
  /\ arrived = [b \in Kinds |-> [g \in Groups |-> {}]]
  /\ barrier = [b \in Kinds |-> [g \in Groups |-> "filling"]]
  /\ reached = [n \in Threads |-> -1]
  /\ stop = FALSE /\ main = "loop" /\ collected = 0 /\ left = {}

Goto(n, where) == pc' = [pc EXCEPT ![n] = where]

(* sleep_until and get_activation_group.                                   *)
Activate(n) ==
  /\ pc[n] = "sleep" /\ (act[n] <= MaxInstant \/ stop)
  /\ active' = active \cup {GroupOf(n)}
  /\ Goto(n, "evaluate")
  /\ UNCHANGED <<act, arrived, barrier, reached, runVars>>

(* Barrier.wait: the last of the parties opens the barrier and goes on, a  *)
(* broken barrier raises BrokenBarrierError and the loop returns.          *)
Arrive(n, b, passed, waiting) ==
  LET g == GroupOf(n) IN
  IF barrier[b][g] = "broken" THEN Goto(n, "ended") /\ UNCHANGED <<arrived, barrier>>
  ELSE /\ arrived' = [arrived EXCEPT ![b][g] = @ \cup {n}]
       /\ IF Cardinality(arrived'[b][g]) = Parties(g)
          THEN barrier' = [barrier EXCEPT ![b][g] = "open"] /\ Goto(n, passed)
          ELSE barrier' = barrier /\ Goto(n, waiting)

(* A waiting thread wakes up; an abort that comes before it does breaks a  *)
(* barrier for it that others have passed.                                 *)
WakeFrom(n, b, passed) ==
  /\ \/ barrier[b][GroupOf(n)] = "open" /\ Goto(n, passed)
     \/ barrier[b][GroupOf(n)] = "broken" /\ Goto(n, "ended")
  /\ UNCHANGED <<act, active, arrived, barrier, reached, runVars>>

EvaluateNode(n) ==
  /\ pc[n] = "evaluate"
  /\ Arrive(n, "eval", "commit", "evaluated")
  /\ UNCHANGED <<act, active, reached, runVars>>

(* Commit, then the deferred actions of the node's own context.            *)
CommitNode(n) ==
  /\ pc[n] = "commit"
  /\ reached' = [reached EXCEPT ![n] = act[n]]
  /\ Arrive(n, "commit", "dump", "committed")
  /\ UNCHANGED <<act, active, runVars>>

WakeUp(n) ==
  \/ pc[n] = "evaluated" /\ WakeFrom(n, "eval", "commit")
  \/ pc[n] = "committed" /\ WakeFrom(n, "commit", "dump")

(* dump_outputs, finish_activation_group (the last member removes the      *)
(* group), the next activation and the test of the stop flag.              *)
Dump(n) ==
  /\ pc[n] = "dump"
  /\ act' = [act EXCEPT ![n] = @ + Period[n]]
  /\ active' = IF \A m \in Members(GroupOf(n)) : act'[m] > act[n]
               THEN active \ {GroupOf(n)} ELSE active
  /\ Goto(n, IF stop THEN "ended" ELSE "sleep")
  /\ UNCHANGED <<arrived, barrier, reached, runVars>>

(* A callback raises: the thread ends where it is, and nobody is told.     *)
Raise(n) ==
  /\ n \in Raising
  /\ pc[n] \in {"evaluate", "commit", "dump"}
  /\ Goto(n, "ended")
  /\ UNCHANGED <<act, active, arrived, barrier, reached, runVars>>

NodeStep(n) == Activate(n) \/ EvaluateNode(n) \/ CommitNode(n) \/ WakeUp(n) \/ Dump(n)
-----------------------------------------------------------------------------
Stop ==
  /\ ~stop /\ stop' = TRUE
  /\ UNCHANGED <<threadVars, main, collected, left>>

FinallyWithoutSet ==                     \* mutant: the flag is not set
  /\ main = "loop" /\ pc[Main] = "ended"
  /\ main' = "finally" /\ UNCHANGED <<threadVars, stop, collected, left>>

(* The loop of the calling thread has returned or raised.                  *)
Finally ==
  /\ main = "loop" /\ pc[Main] = "ended"
  /\ main' = "finally" /\ stop' = TRUE
  /\ UNCHANGED <<threadVars, collected, left>>

(* The groups of the next runtime are copied under its lock, ...           *)
Collect ==
  /\ main = "finally" /\ left = {} /\ collected < Cardinality(Runtimes)
  /\ collected' = collected + 1
  /\ left' = Kinds \X {g \in active : g[1] = collected + 1}
  /\ UNCHANGED <<threadVars, stop, main>>

(* ... and then the two barriers of each are aborted, without it.          *)
Abort(b, g) ==
  /\ <<b, g>> \in left /\ (b = "commit" => <<"eval", g>> \notin left)
  /\ barrier' = [barrier EXCEPT ![b][g] = "broken"]
  /\ left' = left \ {<<b, g>>}
  /\ UNCHANGED <<pc, act, active, arrived, reached, stop, main, collected>>

ReturnWhenJoined ==                      \* mutant: join without a timeout
  /\ main = "finally" /\ left = {} /\ collected = Cardinality(Runtimes)
  /\ \A n \in Threads : pc[n] = "ended"
  /\ main' = "returned" /\ UNCHANGED <<threadVars, stop, collected, left>>

(* join returns when the thread has ended or after two seconds.            *)
Return ==
  /\ main = "finally" /\ left = {} /\ collected = Cardinality(Runtimes)
  /\ main' = "returned" /\ UNCHANGED <<threadVars, stop, collected, left>>

FinallyStep == Finally \/ Collect \/ Return \/ \E b \in Kinds, g \in Groups : Abort(b, g)

ThreadsNext == Stop \/ FinallyStep \/ \E n \in Threads : NodeStep(n) \/ Raise(n)

(* Threads are scheduled and callbacks return or raise.                    *)
ThreadFairness == WF_allVars(FinallyStep) /\ \A n \in Threads : WF_allVars(NodeStep(n))

ThreadsSpec == ThreadsInit /\ [][ThreadsNext]_allVars /\ ThreadFairness
-----------------------------------------------------------------------------
Peers(n) == {m \in Threads \ {n} : RuntimeOf[m] = RuntimeOf[n]}

(* A node dumps an instant, or goes past it, only when every node of its   *)
(* runtime active then has committed it, though a stop, an abort or an     *)
(* exception may end any of them in between: a torn instant is the last    *)
(* one of all its nodes (thread.py:274-301).                               *)
TornInstantIsLast ==
  \A n \in Threads, m \in Threads : \A k \in Instants :
    /\ RuntimeOf[n] = RuntimeOf[m] /\ k % Period[n] = 0 /\ k % Period[m] = 0
    /\ act[n] > k \/ (act[n] = k /\ pc[n] = "dump")
    => reached[m] >= k

(* A stop request makes run return, whatever the other runtimes and the    *)
(* timing of their threads; only a thread of the runtime of the calling    *)
(* thread that ends before it can keep run waiting (thread.py:307-327).    *)
StopReturnsUnlessAPeerEnded ==
  stop ~> main = "returned" \/ \E m \in Peers(Main) : pc[m] = "ended"

Blocked(n) ==
  \/ pc[n] = "evaluated" /\ barrier["eval"][GroupOf(n)] = "filling"
  \/ pc[n] = "committed" /\ barrier["commit"][GroupOf(n)] = "filling"

(* Once run has returned no thread goes on calling its node: in the end    *)
(* each has returned, or it is left in a barrier of a group that was       *)
(* created after run copied the active ones (thread.py:317-325).           *)
QuietAfterReturn ==
  main = "returned" ~> [](\A n \in Threads : pc[n] = "ended" \/ Blocked(n))
=============================================================================
