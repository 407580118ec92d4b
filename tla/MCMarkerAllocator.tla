-------------------------- MODULE MCMarkerAllocator --------------------------
(***************************************************************************)
(* TLC instance of MarkerAllocator.                                        *)
(***************************************************************************)
EXTENDS MarkerAllocator, TLC

CONSTANTS o1, o2, o3

MCOwners == {o1, o2, o3}

OwnerSymmetry == Permutations(MCOwners)
=============================================================================
