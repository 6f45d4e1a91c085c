-------------------------- MODULE MCSchedulability --------------------------
(***************************************************************************)
(* Every set of three tasks with periods of 2 to 4 (for the cooperative    *)
(* executor of 2 to 3, and of two tasks with periods of 2 to 6), and every *)
(* record of the accesses of four tasks to two resources of which the      *)
(* first uses none.                                                        *)
(***************************************************************************)
EXTENDS Schedulability, TLC

UpTo(periods) ==
  {p \in [period : periods, deadline : 1 .. 6, wcet : 1 .. 6] :
     p.wcet <= p.deadline /\ p.deadline <= p.period}

MCResources == {1, 2}
MCTimings   == ("thread" :> [1 .. 3 -> UpTo(2 .. 4)])
                 @@ ("coop" :> [1 .. 2 -> UpTo(2 .. 6)] \cup [1 .. 3 -> UpTo(2 .. 3)])
                 @@ ("cyclic" :> [1 .. 3 -> UpTo(2 .. 4)])
MCAccesses  == {a \in [1 .. 4 -> [MCResources -> 0 .. 2]] : a[1] = <<0, 0>>}
=============================================================================
