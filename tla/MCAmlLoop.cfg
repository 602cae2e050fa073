SPECIFICATION ExecSpec
CONSTANTS
  AmlThread = {"t1", "t2"}
  AmlCode <- Code
  AmlEntry <- Entries
  AmlTable = {"tbl"}
  Serialized = {"ser"}
  SyncLevel <- SyncLevels
  AmlName = {"n1", "n2", "n3", "n4"}
  CallDepth = 4
  LoopTimeout = 1
  AmlClock = FALSE
  FieldBits = 64
  FieldSpans <- Spans
  FieldWidths = {1, 2, 4}
  ValueBytes = {1, 2, 4}
  FieldThread = {"u1", "u2"}
  FieldLocked = TRUE
PROPERTY EvaluationsEnd
CHECK_DEADLOCK FALSE
