-------------------------- MODULE MCSemaphoreTracker --------------------------
(***************************************************************************)
(* TLC instances of SemaphoreTracker.                                      *)
(***************************************************************************)
EXTENDS SemaphoreTracker, TLC

CONSTANTS b, t, h1, h2, q1, q2

MCSemaphores == {b, t}
MCBinary == {b}
MCThreads == {h1, h2}
MCQueues == {q1, q2}

\* 3 and 4 differ in both words of a marker of 4 times 4 values, and a host
\* signal may follow one of 3 and one of 4.
MCValues == {3, 4, 5}
MCWaitValues == {4}

Of(waits, signals) == [waits |-> waits, signals |-> signals]

\* Each semaphore is signaled with and without the other one waited for.
MCUses == {Of(<<>>, b :> 1), Of(b :> 1, t :> 4), Of(t :> 3, b :> 1)}

MCSymmetry == Permutations(MCThreads) \cup Permutations(MCQueues)
=============================================================================
