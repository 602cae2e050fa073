SPECIFICATION Spec
CONSTANTS
  Irqs = {0, 5}
  Drivers = {d1, d2, d3}
  Keys = {k1, k2, k3}
  Null = Null
  KeepsKey = FALSE
SYMMETRY Symmetry
INVARIANTS MaskedIrqRunsOwner
PROPERTY OnlyOwnerManages
