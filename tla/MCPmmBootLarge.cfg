SPECIFICATION Spec
CONSTANT MemMaps <- LargeMaps
INVARIANT FreeListInBounds
CHECK_DEADLOCK FALSE
