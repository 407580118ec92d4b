---------------------------- MODULE SparseBinding ----------------------------
(***************************************************************************)
(* What an application asks of vkQueueBindSparse: the queue takes its bind *)
(* infos in order, each of them once, and the fence with the last of them. *)
(***************************************************************************)
EXTENDS Integers

VARIABLES
  count,   \* bindInfoCount
  bound,   \* how many of the bind infos the queue has taken
  fenced   \* the fence has been given to the queue

vars == <<count, bound, fenced>>

Init == count \in Nat /\ bound = 0 /\ fenced = FALSE

Give ==
  /\ bound' \in bound + 1 .. count
  /\ fenced' = (bound' = count)
  /\ UNCHANGED count

Spec == Init /\ [][Give]_vars
=============================================================================
