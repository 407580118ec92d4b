-------------------------- MODULE MCQueueBindSparse --------------------------
(***************************************************************************)
(* TLC instances of QueueBindSparse: two binary semaphores and a timeline  *)
(* semaphore; a bind info waits for one and signals one, or neither.       *)
(***************************************************************************)
EXTENDS QueueBindSparse

CONSTANTS b1, b2, t1

MCBinary == {b1, b2}
MCSemaphores == {b1, b2, t1}

AtMostOne(S) == {{}} \cup {{s} : s \in S}

MCBindInfos == [waits : AtMostOne(MCSemaphores) \cup {{b1, t1}}, signals : AtMostOne(MCSemaphores)]
=============================================================================
