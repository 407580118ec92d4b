----------------------- MODULE MCCommandBufferTracker -----------------------
(***************************************************************************)
(* TLC instance of CommandBufferTracker: two threads that share their      *)
(* handles and pools, and a thread that dumps.                             *)
(***************************************************************************)
EXTENDS CommandBufferTracker, TLC

CONSTANTS t1, t2, w1, h1, h2, q1, q2

MCThreads == {t1, t2}
MCWatchdog == {w1}
MCHandles == {h1, h2}
MCPools == {q1, q2}

MCSymmetry ==
  Permutations(MCThreads) \cup Permutations(MCHandles) \cup Permutations(MCPools)
=============================================================================
