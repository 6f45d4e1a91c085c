---------------------------- MODULE MCPyRuntime -----------------------------
(***************************************************************************)
(* Two nodes of different priority and two workers, for two ticks; the     *)
(* actions of the first node create further ones.                          *)
(***************************************************************************)
EXTENDS PyRuntime

CONSTANTS w1, w2

MCWorkers  == {w1, w2}
MCNodes    == 1 .. 2
MCPriority == <<1, 2>>
MCSpawning == {1}
=============================================================================
