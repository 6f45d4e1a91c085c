--------------------------- MODULE Schedulability ---------------------------
(***************************************************************************)
(* The three schedulability checks (rx_thread_exec_check_schedulability    *)
(* and its cooperative and cyclic twins) against what the executors do     *)
(* with the same tasks on one processor.                                   *)
(*                                                                         *)
(* A task is the one node of a runtime of its own, so that no barrier ties *)
(* it to another; tasks are numbered in the order their runtimes were      *)
(* added.  Its tick takes its measured worst case, always.                 *)
(***************************************************************************)
EXTENDS Integers, FiniteSets, FiniteSetsExt, Sums

CONSTANTS
  Resources,    \* the shared resources of the records of accesses
  Timings,      \* bound: the sets of tasks analysed, by executor
  Accesses,     \* bound: the records of accesses analysed
  Horizon       \* bound: the processor is watched until then

Policies == {"thread", "coop", "cyclic"}

(* A tick takes a microsecond at least (touch_wcet), a period is positive  *)
(* (async nodes are not analysed) and a deadline not longer (build).       *)
Params == [period : Nat \ {0}, deadline : Nat \ {0}, wcet : Nat \ {0}]

AreTasks(T) == IsFiniteSet(T) /\ T # {} /\ T \subseteq Nat

ASSUME AnalysedAssumption ==
  /\ IsFiniteSet(Resources) /\ Horizon \in Nat \ {0}
  /\ \A executor \in Policies : \A p \in Timings[executor] :
       /\ AreTasks(DOMAIN p) /\ p \in [DOMAIN p -> Params]
       /\ \A i \in DOMAIN p : p[i].deadline <= p[i].period
       /\ executor = "cyclic" =>     \* the watch spans a hyperperiod
            \E t \in 1 .. Horizon : \A i \in DOMAIN p : t % p[i].period = 0
  /\ \A a \in Accesses : AreTasks(DOMAIN a) /\ a \in [DOMAIN a -> [Resources -> Nat]]

VARIABLES
  policy,       \* the executor: "thread", "coop" or "cyclic"
  param,        \* period_us, deadline_us and wcet_us of each task
  access,       \* resource_accesses of each task: max_us, or 0
  accepted,     \* the check returned RX_SCHED_SCHEDULABLE
  now,          \* the clock
  left,         \* what is left of the current activation of each thread
  due,          \* next_tick of each task of the other two executors
  polled,       \* local now of the cooperative one, activation_us of the cyclic one
  todo,         \* the runtimes the pass, or the slot, has still to visit
  missed        \* history: an activation ended after its deadline

checkVars == <<policy, param, access, accepted, now, left, due, polled, todo, missed>>

Tasks == DOMAIN param

(* thread_task_less: by effective deadline, then by the addresses of the   *)
(* runtimes, which are taken to lie in the order of their registration.    *)
Less(i, j) ==
  \/ param[i].deadline < param[j].deadline
  \/ param[i].deadline = param[j].deadline /\ i < j

Higher(i) == {j \in Tasks : Less(j, i)}
Lower(i)  == {j \in Tasks : Less(i, j)}
-----------------------------------------------------------------------------
(* The tasks of R in the order of their priority begin with this one.      *)
FirstOf(R) == CHOOSE i \in R : \A j \in R \ {i} : Less(i, j)

BlockingSharing(S) ==                    \* mutant: used_resources is not kept
  LET best[R \in SUBSET S] ==
        LET i == FirstOf(R) IN
        IF R = {} THEN 0
        ELSE Max({best[R \ {i}]} \cup {access[i][r] + best[R \ {i}] : r \in Resources})
  IN  best[S]

(* max_thread_blocking_rec: task by task, one of its sections on a         *)
(* resource that no earlier task has used, or none.                        *)
ThreadBlocking(S) ==
  LET best[R \in SUBSET S] ==
        LET i    == FirstOf(R)
            rest == best[R \ {i}] IN
        [used \in SUBSET Resources |->
           IF R = {} THEN 0
           ELSE Max({rest[used]} \cup
                    {access[i][r] + rest[used \cup {r}] :
                       r \in {q \in Resources \ used : access[i][q] > 0}})]
  IN  best[S][{}]

(* The cooperative executor: the longest tick of lower priority.           *)
CoopBlocking(S) == Max({0} \cup {param[j].wcet : j \in S})

Blocking(i) ==
  IF policy = "thread" THEN ThreadBlocking(Lower(i)) ELSE CoopBlocking(Lower(i))

JobsTooMany(r, j) == r \div param[j].period + 1  \* mutant: one more at a multiple

(* ceil(r / T), the activations of task j that can delay a response of r.  *)
Jobs(r, j) == (r + param[j].period - 1) \div param[j].period

(* What task i has to wait for, and itself, in r units from its release.   *)
Demand(i, blocking, r) ==
  param[i].wcet + blocking
    + SumOver([j \in Tasks |-> Jobs(r, j) * param[j].wcet], Higher(i))

(* The iteration, to the fixed point or until the deadline is exceeded:    *)
(* ri_prev after k rounds.  A round adds at least one.                     *)
Response(i) ==
  LET blocking == Blocking(i)
      limit    == param[i].deadline
      start    == param[i].wcet + blocking + SumOver([j \in Tasks |-> param[j].wcet], Higher(i))
      Round(r) == IF Demand(i, blocking, r) > limit THEN r ELSE Demand(i, blocking, r)
      prev[k \in 0 .. limit] == IF k = 0 THEN start ELSE Round(prev[k - 1])
  IN  Demand(i, blocking, prev[limit])

(* The cyclic executive: base_us and hyperperiod_us, and the tasks of the  *)
(* slot at t, which finish one after the other in the order of the table.  *)
IsMultiple(t, d) == t % d = 0
Base == Max({d \in 1 .. Horizon : \A i \in Tasks : IsMultiple(param[i].period, d)})
Hyperperiod == Min({t \in 1 .. Horizon : \A i \in Tasks : IsMultiple(t, param[i].period)})
Slots == {t \in 0 .. Hyperperiod - 1 : IsMultiple(t, Base)}

InSlot(t) == {i \in Tasks : IsMultiple(t, param[i].period)}
SlotCost(S) == SumOver([i \in Tasks |-> param[i].wcet], S)
FinishAlone(i, t) == param[i].wcet   \* mutant: elapsed_us is not accumulated

Finish(i, t) == SlotCost(InSlot(t) \cap Higher(i)) + param[i].wcet

Accepts ==
  IF policy = "cyclic"
  THEN \A t \in Slots : \A i \in InSlot(t) : Finish(i, t) <= param[i].deadline
  ELSE \A i \in Tasks : Response(i) <= param[i].deadline

(* What the check of the cyclic executive takes for granted: its runtimes  *)
(* run in the order they were added, and a slot may overrun the next one.  *)
TableIsRun ==
  /\ \A i, j \in Tasks : i < j => Less(i, j)
  /\ \A t \in Slots : SlotCost(InSlot(t)) <= Base
-----------------------------------------------------------------------------
CheckInit ==
  /\ policy \in Policies
  /\ \/ param \in Timings[policy] /\ access = [i \in Tasks |-> [r \in Resources |-> 0]]
     \/ /\ access \in Accesses /\ policy = "thread"
        /\ param = [i \in DOMAIN access |-> [period |-> Horizon, deadline |-> Horizon, wcet |-> 1]]
  /\ accepted = Accepts
  /\ now = 0 /\ polled = 0 /\ missed = FALSE
  /\ left = [i \in Tasks |-> 0] /\ due = [i \in Tasks |-> 0] /\ todo = Tasks

(* SCHED_FIFO: the thread of highest priority that is ready runs.          *)
RunThreads ==
  LET ready == [i \in Tasks |-> IF now % param[i].period = 0 THEN param[i].wcet ELSE left[i]]
      Ready == {i \in Tasks : ready[i] > 0}
      Late(i) == now + 1 - (now \div param[i].period) * param[i].period >= param[i].deadline
  IN
  /\ policy = "thread" /\ now < Horizon /\ ~missed
  /\ left' = [i \in Tasks |->
                IF i \in Ready /\ Higher(i) \cap Ready = {} THEN ready[i] - 1 ELSE ready[i]]
  /\ missed' = \E i \in Tasks : left'[i] > 0 /\ Late(i)
  /\ now' = now + 1
  /\ UNCHANGED <<policy, param, access, accepted, due, polled, todo>>

(* rx_coop_exec_run, rx_cyclic_exec_run: one runtime of the pass or of the *)
(* slot, in registration order.                                            *)
Visit(i) ==
  /\ policy # "thread" /\ now < Horizon /\ ~missed
  /\ i \in todo /\ \A j \in todo : i <= j
  /\ todo' = todo \ {i}
  /\ IF due[i] <= polled
     THEN /\ now' = now + param[i].wcet
          /\ due' = [due EXCEPT ![i] = @ + param[i].period]
          /\ missed' = (now' > due[i] + param[i].deadline)
     ELSE UNCHANGED <<now, due, missed>>
  /\ UNCHANGED <<policy, param, access, accepted, left, polled>>

(* The end of the pass: sleep until the nearest time, and poll the clock;  *)
(* the end of the slot: sleep until the next one is to begin.              *)
NextPass ==
  /\ policy # "thread" /\ now < Horizon /\ ~missed
  /\ todo = {} /\ todo' = Tasks
  /\ IF policy = "coop"
     THEN /\ now' = Max({now, Min({due[i] : i \in Tasks})})
          /\ polled' = now'
     ELSE /\ polled' = polled + Base
          /\ now' = Max({now, polled'})
  /\ UNCHANGED <<policy, param, access, accepted, left, due, missed>>

CheckNext == RunThreads \/ NextPass \/ \E i \in Tasks : Visit(i)

CheckSpec == CheckInit /\ [][CheckNext]_checkVars
-----------------------------------------------------------------------------
(* Tasks that a check accepts never miss a deadline (user-c.md, 6.3): of   *)
(* the cooperative executor this holds for two runtimes, of the cyclic one *)
(* where the table is what is run; see README.                             *)
AcceptedMeetDeadlines ==
  /\ accepted
  /\ policy = "coop" => Cardinality(Tasks) <= 2
  /\ policy = "cyclic" => TableIsRun
  => ~missed

(* A check is exact where no time is lost to blocking: what it rejects has *)
(* missed a deadline by the end of the critical instant or hyperperiod.    *)
RejectedMissDeadlines ==
  /\ ~accepted
  /\ \/ /\ policy = "thread"
        /\ \A i \in Tasks : ThreadBlocking(Lower(i)) = 0 /\ now >= param[i].deadline
     \/ policy = "cyclic" /\ TableIsRun /\ polled >= Hyperperiod
  => missed

(* Sections on the resources of R, no two of one task nor of one resource. *)
Combos(S, R) == {C \in SUBSET (S \X R) : \A c, d \in C : c[1] = d[1] \/ c[2] = d[2] => c = d}

Length(C) == SumOver([c \in Tasks \X Resources |-> access[c[1]][c[2]]], C)

(* user-c.md, 6.3: the blocking is the largest sum of critical sections of *)
(* tasks of lower priority, no two of one task nor of one resource.        *)
BlockingIsLargest ==
  now = 0 => \A S \in {Lower(i) : i \in Tasks} :
    ThreadBlocking(S) = Max({Length(C) : C \in Combos(S, Resources)})
=============================================================================
