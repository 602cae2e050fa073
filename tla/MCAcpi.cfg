SPECIFICATION AcpiSpec
CONSTANTS
  LockThread = {t1, t2, t3}
  MaxDepth = 2
  MaxSpins = 2
  MaxSeq = 2
  Free = Free
  Readers = Readers
  Firmware = Firmware
  Firmware_Table <- FirmwareTables
  InlineCapacity = 1
  EarlyCapacity = 1
  MaxRefs = 2
  BadCsumFatal = TRUE
  Dispositions = {"ALLOW", "DENY", "VIRTUAL_OVERRIDE", "PHYSICAL_OVERRIDE"}
  MaxTables = 2
  SubtableBytes = 8
  SubtableHdr = {2, 6, 7, 9}
  GpeDevice = {"GPE", "d1", "d2"}
  FadtDevice = "GPE"
  Irq = {9, 11}
  SciIrq = 9
  NumEvents = 2
  FadtBlocks <- Blocks
  NsDynamic = {"x", "y"}
  NsPredefined = {"sb"}
  NsOsi = "osi"
  NsName = {"A", "B"}
  NsNoOsi = FALSE
  NsHolds = FALSE
  MaxObject = 4
  MaxStorage = 2
  MaxHands = 1
  ObjCareful = TRUE
  NotifyHandler = {"h1", "h2"}
  NotifyDriver = {"n1", "n2"}
  MaxNotify = 2
  HandlersNotify = FALSE
  OpDevice <- Devices
  OpSpace = {"EC"}
  OpNeedsReg = {"EC"}
  OpRegion <- OpRegions
  OpWidth = {0, 1, 2}
  OsiPredefined <- Interfaces
  OsiExtra = {"x", "y"}
  InitDevice <- InitDevices
  InitDepth <- InitDepths
  InitTable <- InitTables
  Evaluator = {e1, e2}
  EvalMethod = {m1}
INVARIANTS
  AcpiTypeOK
  LocksAreSound
  TablesAreSound
  FindsItsEvent
  NamespaceIsSound
  RefsAreCounted
  NotifiesLiveHandlers
  RegionsAreServed
  AnswersAsConfigured
  StartIsSound
CHECK_DEADLOCK FALSE
