----------------------------- MODULE MCCoopExec -----------------------------
(***************************************************************************)
(* Two runtimes: one whose periods divide each other, with an asynchronous *)
(* node, and one whose periods do not.                                     *)
(***************************************************************************)
EXTENDS CoopExec, TLC

MCNodesOf  == (0 :> {0, 1, 2}) @@ (1 :> {3, 4})
MCPeriod   == (0 :> 4) @@ (1 :> 2) @@ (2 :> 0) @@ (3 :> 3) @@ (4 :> 2)
MCDeadline == (0 :> 2) @@ (1 :> 2) @@ (2 :> 0) @@ (3 :> 3) @@ (4 :> 2)
=============================================================================
