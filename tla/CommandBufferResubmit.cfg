SPECIFICATION Spec
CONSTANTS
  p1 = p1
  p2 = p2
  s1 = s1
  Primaries <- MCPrimaries
  Secondaries <- MCSecondaries
  LowRange = 8
  HighRange = 2
  Configs <- MCResubmitting
INVARIANT IncompleteIsDumped
