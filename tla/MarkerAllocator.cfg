SPECIFICATION Spec
CONSTANTS
  o1 = o1
  o2 = o2
  o3 = o3
  Owners <- MCOwners
  EventCount = 4
  HeapSize = 14
  Failures = {"create", "bind", "map"}
SYMMETRY OwnerSymmetry
INVARIANTS
  TypeOK
  LiveMarkersDisjoint
  LiveMarkersInBounds
  BuffersDisjointInHeap
