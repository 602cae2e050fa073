SPECIFICATION PowerSpec
CONSTANTS
  HasB = TRUE
  Implemented = {"GBL", "PWRBTN", "RTC"}
  Raised = {"PWRBTN", "RTC"}
  Gpe = {0}
  Device = {d1}
  AmlGpe = {0}
  DriverGpe = {0}
  MaxUsers = 2
  MaxWork = 1
  Disciplined = TRUE
INVARIANTS EnabledIsHandled SleepIsPrepared
PROPERTIES AwakeIsRestored BlockedIsRestored
CHECK_DEADLOCK FALSE
