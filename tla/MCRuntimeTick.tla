--------------------------- MODULE MCRuntimeTick ----------------------------
(***************************************************************************)
(* A door machine, an alarm machine that watches it, and a net of a room   *)
(* with one free and some taken seats, whose transitions are in conflict.  *)
(***************************************************************************)
EXTENDS RuntimeTick

MCMachines == {0, 1}
MCNets     == {2}

Arc(place, weight) == [place |-> place, weight |-> weight]

MCTransitions ==
  (0 :> << [from |-> 0, to |-> 1, action |-> TRUE],
           [from |-> 0, to |-> 0, action |-> TRUE],
           [from |-> 1, to |-> 0, action |-> FALSE] >>) @@
  (1 :> << [from |-> 0, to |-> 1, action |-> FALSE],
           [from |-> 1, to |-> 0, action |-> TRUE] >>) @@
  (2 :> << [consume |-> <<Arc("free", 1)>>, produce |-> <<Arc("taken", 1)>>,
            action |-> TRUE],
           [consume |-> <<Arc("free", 2)>>, produce |-> <<Arc("taken", 2)>>,
            action |-> FALSE],
           [consume |-> <<Arc("taken", 1)>>, produce |-> <<Arc("free", 1)>>,
            action |-> TRUE] >>)

(* The door opens on input; the alarm follows the door; seats are taken    *)
(* through an open door, and left when the input or the alarm says so.     *)
MCGuard(n, t, in, view) ==
  CASE n = 0 /\ t = 1 -> in = 1
    [] n = 1 /\ t = 1 -> view[0] = 1
    [] n = 1 /\ t = 2 -> view[0] = 0
    [] n = 2 /\ t = 1 -> view[0] = 1
    [] n = 2 /\ t = 2 -> in = 1
    [] n = 2 /\ t = 3 -> in = 1 \/ view[1] = 1
    [] OTHER -> TRUE

MCInitial == (0 :> 0) @@ (1 :> 0) @@ (2 :> [free |-> 2, taken |-> 0])

MCActiveLists == {<<0, 1, 2>>, <<2, 1, 0>>, <<1, 2>>, <<0>>}

(* At most one action a callback, above or below the transitions' NORMAL.  *)
MCRequests == (0 :> {<<>>}) @@ (1 :> {<<>>, <<2>>}) @@ (2 :> {<<>>, <<0>>})

(* The insertion sort of the source, entry by entry, behind its equals,    *)
(* leaves a queue in the order of SortDescending.                          *)
Insert(s, e) ==
  SelectSeq(s, LAMBDA x : x.priority >= e.priority) \o <<e>>
    \o SelectSeq(s, LAMBDA x : x.priority < e.priority)

Queues ==
  {[i \in DOMAIN priorities |-> [priority |-> priorities[i], id |-> i]] :
     priorities \in UNION {[1 .. k -> 0 .. 3] : k \in 0 .. 5}}

ASSUME InsertionSortOfTheQueue ==
  \A q \in Queues : FoldLeft(Insert, <<>>, q) = SortDescending(q)
=============================================================================
