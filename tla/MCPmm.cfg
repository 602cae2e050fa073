SPECIFICATION Spec
CONSTANTS
  MemMap <- MCMemMap
  Requests <- MCRequests
  CounterMod = 4
  MaxErrors = 1
INVARIANTS
  TypeOK
  BlocksDisjoint
  NoPageLost
  RestoredWhenAllFreed
PROPERTIES
  FailsOnlyWhenFull
  CallsReturn
  ImplementsAbs
