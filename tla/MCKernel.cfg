SPECIFICATION KernelSpec
CONSTANTS
  Cells = {c1, c2, c3}
  Null = Null
  MaxIds = 3
  TableEntries = 2
  PageBytes = 2
  FreeAtStart = {3, 4, 5, 6, 7}
  Roots = {1, 2}
  kernel_cr3 = 1
  MapAddrs = {3, 4}
  MapLens = {2}
  MmapFrames = {0, 2}
  MmapPages = {1, 2}
  MmapCounts = {1, 2}
  MaxLevel = 2
  Owners = {"a", "b"}
  MaxSize = 5
INVARIANTS
  KernelTypeOK
  EventsAreSound
  
  OneOwner
  VectorIsSequence
 
CHECK_DEADLOCK FALSE
