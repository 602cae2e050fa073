SPECIFICATION Spec
CONSTANT MemMaps <- MCMemMaps
INVARIANTS SegmentsSound LoopBuildsSegtab
CHECK_DEADLOCK FALSE
