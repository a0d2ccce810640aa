SPECIFICATION Spec
CONSTANTS
  i1 = i1
  i2 = i2
  A = A
  B = B
  d1 = d1
  d2 = d2
  Nil = Nil
  EmptyConfig = EmptyConfig
  Garbled = Garbled
  Ids = {i1}
  Conns = {c1, c2}
  Requests = {r1}
  Configs = {A}
  Descriptions = {d1, d2}
  SeqModulus = 2
  Spellings = {lower}
  Canonical = lower
  Messages <- SaveMessages
  MaxOutbox = 1
  MaxCrashes = 0
  DiskFaults = FALSE
INVARIANT PersistedIsOnDisk
SYMMETRY ConnSymmetry
CHECK_DEADLOCK FALSE
