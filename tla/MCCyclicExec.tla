---------------------------- MODULE MCCyclicExec ----------------------------
(***************************************************************************)
(* Periods with a hyperperiod of twelve base ticks, an asynchronous node   *)
(* in the runtime that is not active in every slot.                        *)
(***************************************************************************)
EXTENDS CyclicExec, Sequences, SequencesExt, TLC

MCNodesOf  == (0 :> {0, 1}) @@ (1 :> {2, 3})
MCPeriod   == (0 :> 4) @@ (1 :> 2) @@ (2 :> 0) @@ (3 :> 3)
MCDeadline == (0 :> 2) @@ (1 :> 1) @@ (2 :> 0) @@ (3 :> 3)

(* The helpers against their definitions.                                  *)
ASSUME HelpersOfTheTable ==
  \A a, b \in 1 .. 12 :
    /\ gcd[<<a, b>>] = Max({d \in 1 .. a : a % d = 0 /\ b % d = 0})
    /\ lcm(a, b) = Min({h \in 1 .. a * b : h % a = 0 /\ h % b = 0})

(* The loop of rx_cyclic_exec_build over the periods, in node order, ends  *)
(* with the base and the number of slots of CyclicExec.                    *)
PeriodList == [i \in 1 .. Cardinality(PeriodicNodes) |->
                Period[SetToSortSeq(PeriodicNodes, <)[i]]]

ASSUME BaseAndSlotsOfTheLoop ==
  LET base_us  == FoldLeft(LAMBDA a, b : gcd[<<a, b>>], PeriodList[1], PeriodList)
      hyper_us == FoldLeft(lcm, PeriodList[1], PeriodList)
  IN  /\ base_us = Base
      /\ IF hyper_us \div base_us <= MaxSlots THEN SlotCount = hyper_us \div base_us
                                             ELSE SlotCounts = {}
=============================================================================
