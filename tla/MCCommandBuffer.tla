--------------------------- MODULE MCCommandBuffer ---------------------------
(***************************************************************************)
(* TLC instances of CommandBuffer.                                         *)
(***************************************************************************)
EXTENDS CommandBuffer, TLC

CONSTANTS p1, p2, s1

MCPrimaries == {p1, p2}
MCSecondaries == {s1}

\* A log of everything, and recordings that are executed once: a primary
\* that may execute a secondary of one command.
Nested ==
  [InstrumentAll |-> FALSE, DumpAll |-> TRUE, OneTime |-> TRUE, Failures |-> {},
   MaxCommands |-> p1 :> 1 @@ s1 :> 1]

\* Two commands in one primary, and calls that fail.
TwoCommands ==
  [InstrumentAll |-> FALSE, DumpAll |-> TRUE, OneTime |-> TRUE,
   Failures |-> {"markers", "begin", "end"}, MaxCommands |-> p1 :> 2]

\* The same with every command instrumented.
Instrumenting == [TwoCommands EXCEPT !.InstrumentAll = TRUE]

\* The default log of two primaries.
TwoPrimaries ==
  [InstrumentAll |-> FALSE, DumpAll |-> FALSE, OneTime |-> TRUE,
   Failures |-> {"markers", "begin"}, MaxCommands |-> p1 :> 0 @@ p2 :> 0]

\* Recordings that are executed again.
Resubmitting ==
  [InstrumentAll |-> FALSE, DumpAll |-> FALSE, OneTime |-> FALSE, Failures |-> {},
   MaxCommands |-> p1 :> 1 @@ s1 :> 1]

MCConfigs == {Nested, TwoCommands, Instrumenting, TwoPrimaries}
MCResubmitting == {Resubmitting}
=============================================================================
