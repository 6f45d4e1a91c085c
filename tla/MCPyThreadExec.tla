--------------------------- MODULE MCPyThreadExec ---------------------------
(***************************************************************************)
(* A runtime of two nodes, whose second one runs in the calling thread and *)
(* may raise, and another of one node; periods 1 and 2.                    *)
(***************************************************************************)
EXTENDS PyThreadExec

CONSTANTS n1, n2, n3

MCNodes     == {n1, n2, n3}
MCRuntimes  == 1 .. 2
MCRuntimeOf == [n \in MCNodes |-> IF n = n1 THEN 1 ELSE 2]
MCPeriod    == [n \in MCNodes |-> IF n = n2 THEN 2 ELSE 1]
MCRaising   == {n2, n3}
=============================================================================
