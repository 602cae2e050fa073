SPECIFICATION GpeSpec
CONSTANTS
  Gpe = {0, 1}
  Device = {d1}
  AmlGpe = {1}
  DriverGpe = {0}
  MaxUsers = 1
  MaxWork = 1
  Disciplined = TRUE
INVARIANTS GpesAreSound
