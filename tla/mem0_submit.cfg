SPECIFICATION Spec
CONSTANTS
  Threads = {t1, t2}
  MaxCalls = 1
CHECK_DEADLOCK FALSE
INVARIANTS Restored
