---------------------------- MODULE MCThreadExec ----------------------------
(* Small instances of ThreadExec for TLC.                                  *)
EXTENDS ThreadExecInv

(* Periods whose instants overlap in every combination up to 6.            *)
NonHarmonic == <<2, 3, 4>>
Pair        == <<2, 3>>

Indexed(s) == [n \in Nodes |-> s[n + 1]]

MCNonHarmonic == Indexed(NonHarmonic)
MCPair        == Indexed(Pair)
=============================================================================
