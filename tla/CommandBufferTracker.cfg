SPECIFICATION Spec
CONSTANTS
  t1 = t1
  t2 = t2
  w1 = w1
  h1 = h1
  h2 = h2
  q1 = q1
  q2 = q2
  Threads <- MCThreads
  Watchdog <- MCWatchdog
  Handles <- MCHandles
  Pools <- MCPools
  MaxObjects = 4
SYMMETRY MCSymmetry
INVARIANTS
  TypeOK
  LookupsAreCoherent
  RegistriesAgree
