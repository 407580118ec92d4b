SPECIFICATION Spec
CONSTANTS
  kDefaultBlockSize = 3
  kAlignment = 2
  Bases <- MCBases
  Calls <- MCCalls
  MaxPieces = 4
  MaxResets = 2
INVARIANTS
  TypeOK
  PiecesKept
  ParametersArePassed
PROPERTY RerecordingDoesNotGrow
CHECK_DEADLOCK FALSE
