----------------------------- MODULE StableSort -----------------------------
(***************************************************************************)
(* The order in which deferred actions are run: by descending priority,    *)
(* first come first served among equals.  It is what the insertion sort of *)
(* c/src/runtime.c leaves in the queue and what sorted makes of it in      *)
(* rxnet/runtime.py, said by where each entry goes.                        *)
(***************************************************************************)
EXTENDS Naturals, FiniteSets

GoesFirst(q, i, j) ==
  q[i].priority > q[j].priority \/ (q[i].priority = q[j].priority /\ i < j)

PlaceOf(q, i) == 1 + Cardinality({j \in DOMAIN q : GoesFirst(q, j, i)})

SortDescending(q) ==
  [place \in DOMAIN q |-> q[CHOOSE i \in DOMAIN q : PlaceOf(q, i) = place]]

(* A finite set of numbers, the least of them first.                       *)
Ascending(S) ==
  [place \in 1 .. Cardinality(S) |->
     CHOOSE x \in S : Cardinality({y \in S : y <= x}) = place]
=============================================================================
