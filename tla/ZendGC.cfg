SPECIFICATION GCSpec
CONSTANTS
  Object = {o1, o2, o3}
  HasDtor = {o1, o2}
  MaxVars = 1
  MaxNested = 1
  MaxProps = 3
SYMMETRY Symmetry
INVARIANTS
  GCTypeOK
  RefcountsExact
  NothingLiveFreed
  GarbageRooted
PROPERTIES
  DestroyedRight
