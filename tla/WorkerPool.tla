----------------------------- MODULE WorkerPool -----------------------------
(***************************************************************************)
(* The priority thread pool of the Python runtime (rxnet/worker_pool.py).  *)
(* Everything under the lock of the pool is one step; a worker that waits  *)
(* on the condition has to be notified, and then looks at the heap again.  *)
(* A worker pops a task under the lock and calls it after leaving it:      *)
(* between the two any other worker may pop a later task, and begin it.    *)
(***************************************************************************)
EXTENDS Naturals, FiniteSets

CONSTANTS
  Workers,      \* the threads of the pool
  NoTask        \* what a worker runs when it runs nothing

VARIABLES
  heap,         \* _heap: the tasks submitted and not yet taken
  sequence,     \* _sequence
  shutdown,     \* _shutdown
  worker,       \* where each thread of _loop is
  task          \* the action it has popped or runs

poolVars == <<heap, sequence, shutdown, worker, task>>

PoolInit ==
  /\ heap = {} /\ sequence = 0 /\ shutdown = FALSE
  /\ worker = [w \in Workers |-> "ready"]
  /\ task = [w \in Workers |-> NoTask]

Waiting == {w \in Workers : worker[w] = "waiting"}

Wake(ws) == [w \in Workers |-> IF w \in ws THEN "ready" ELSE worker[w]]

(* Condition.notify wakes one of the threads that wait, if there is one.   *)
Notify ==
  IF Waiting = {} THEN worker' = worker
  ELSE \E w \in Waiting : worker' = Wake({w})

SubmitSilently(a) ==                     \* mutant: without notify
  /\ heap' = heap \cup {[action |-> a, seq |-> sequence]}
  /\ sequence' = sequence + 1
  /\ UNCHANGED <<worker, shutdown, task>>

(* submit, by any thread; it does not look at _shutdown.                   *)
Submit(a) ==
  /\ heap' = heap \cup {[action |-> a, seq |-> sequence]}
  /\ sequence' = sequence + 1
  /\ Notify
  /\ UNCHANGED <<shutdown, task>>

ShutdownNotifyingOne ==                  \* mutant: notify instead of notify_all
  /\ ~shutdown
  /\ shutdown' = TRUE
  /\ Notify
  /\ UNCHANGED <<heap, sequence, task>>

Shutdown ==
  /\ ~shutdown
  /\ shutdown' = TRUE
  /\ worker' = Wake(Waiting)
  /\ UNCHANGED <<heap, sequence, task>>

BeforeNewest(s, t) ==                    \* mutant: the newest of a priority first
  \/ s.action.priority > t.action.priority
  \/ s.action.priority = t.action.priority /\ s.seq > t.seq

(* The order of the heap: the higher priority first, then the older.       *)
Before(s, t) ==
  \/ s.action.priority > t.action.priority
  \/ s.action.priority = t.action.priority /\ s.seq < t.seq

Wait(w) ==
  /\ worker[w] = "ready" /\ heap = {} /\ ~shutdown
  /\ worker' = [worker EXCEPT ![w] = "waiting"]
  /\ UNCHANGED <<heap, sequence, shutdown, task>>

(* heappop, under the condition, ...                                       *)
Take(w, t) ==
  /\ worker[w] = "ready"
  /\ t \in heap /\ \A s \in heap \ {t} : Before(t, s)
  /\ heap' = heap \ {t}
  /\ worker' = [worker EXCEPT ![w] = "taken"]
  /\ task' = [task EXCEPT ![w] = t.action]
  /\ UNCHANGED <<sequence, shutdown>>

(* ... and task.fn, outside it.                                            *)
Begin(w) ==
  /\ worker[w] = "taken"
  /\ worker' = [worker EXCEPT ![w] = "running"]
  /\ UNCHANGED <<heap, sequence, shutdown, task>>

(* The action has returned.                                                *)
Finish(w) ==
  /\ worker[w] = "running"
  /\ worker' = [worker EXCEPT ![w] = "ready"]
  /\ task' = [task EXCEPT ![w] = NoTask]
  /\ UNCHANGED <<heap, sequence, shutdown>>

Exit(w) ==
  /\ worker[w] = "ready" /\ shutdown /\ heap = {}
  /\ worker' = [worker EXCEPT ![w] = "exited"]
  /\ UNCHANGED <<heap, sequence, shutdown, task>>

(* shutdown(wait=True) returns when every thread has been joined.          *)
Joined == shutdown /\ \A w \in Workers : worker[w] = "exited"
=============================================================================
