-------------------------- MODULE MCCommandRecorder --------------------------
(***************************************************************************)
(* TLC instance of CommandRecorder: a call of each shape.                  *)
(***************************************************************************)
EXTENDS CommandRecorder

Call(shape, data) == [shape |-> shape, data |-> data]

MCCalls ==
  {Call("scalars", <<Value(1)>>), Call("array", <<Value(1), Value(2), Value(1), Value(2)>>),
   Call("nested", <<Value(2), Value(1)>>), Call("label", <<Value(2)>>),
   Call("untyped", <<Value(1)>>)}

MCBases == {0}
=============================================================================
