------------------------------ MODULE MCSetup ------------------------------
(* A small instance of Setup for TLC: a node without a period, periods 2,  *)
(* 3 and 4 (2 and 4 fit the four slots, 2 and 3 do not), and a deadline    *)
(* longer than its period.                                                 *)
EXTENDS Setup

CONSTANTS r1, r2

MCRuntimes  == {r1, r2}
MCExecutors == {"coop", "cyclic", "thread"}
MCSettings  == {[period |-> 0, deadline |-> 0], [period |-> 2, deadline |-> 2],
                [period |-> 2, deadline |-> 3], [period |-> 3, deadline |-> 1],
                [period |-> 4, deadline |-> 0]}
=============================================================================
