CONSTANTS
  NCpu = 2
  C2D_COUNTERS = 1
  AMD_COUNTERS = 3
  NUM_FIXED_COUNTERS = 2
  W = 3
  Task = {t1, t2, t3}
  INST_THRESHOLD = 2
  MaxWork = 2
  OtherCpu = {0}
  OtherFix = {0}
SPECIFICATION Spec
INVARIANTS ChargedToRunner CountersOwned NoStrayInterrupt
PROPERTY OthersUndisturbed
SYMMETRY Symm
CHECK_DEADLOCK FALSE
