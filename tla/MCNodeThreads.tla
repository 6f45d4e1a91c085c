--------------------------- MODULE MCNodeThreads ---------------------------
(***************************************************************************)
(* Two node threads, one resource more than the table has entries, and a   *)
(* ring that fills, drops events and wraps its counters.                   *)
(***************************************************************************)
EXTENDS NodeThreads, TLC

CONSTANTS n1, n2, r1, r2

MCNodes     == {n1, n2}
MCResources == {r1, r2}
MCPorts     == {"condition", "turnstile"}
MCCallbacks == {"deferred"}
MCSymmetry  == Permutations(MCNodes) \cup Permutations(MCResources)
=============================================================================
