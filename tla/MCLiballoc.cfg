SPECIFICATION Spec
CONSTANTS
  MINEXP = 1
  MAXEXP = 5
  MAXCOMPLETE = 5
  MinRegion = 12
  Sizes = {1, 3, 7}
  MaxRegions = 2
  MaxLive = 3
INVARIANT LiveApart
CHECK_DEADLOCK FALSE
