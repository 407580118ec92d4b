------------------------------- MODULE Vectors -------------------------------
(***************************************************************************)
(* The loops that erase elements of a std::vector while they go through it,*)
(* and std::remove followed by erase.                                      *)
(***************************************************************************)
EXTENDS Integers, Sequences

\* The elements of a vector that such a loop leaves in it, in their order.
\* SelectSeq, written as a function that the proofs can expand.
Kept(s, S) ==
  LET kept[n \in 0 .. Len(s)] ==
        IF n = 0 THEN <<>>
        ELSE IF s[n] \in S THEN Append(kept[n - 1], s[n]) ELSE kept[n - 1]
  IN kept[Len(s)]
=============================================================================
