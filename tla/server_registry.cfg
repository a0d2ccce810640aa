SPECIFICATION Spec
CONSTANTS
  i1 = i1
  i2 = i2
  A = A
  B = B
  d1 = d1
  d2 = d2
  Nil = Nil
  EmptyConfig = EmptyConfig
  Garbled = Garbled
  Ids = {i1, i2}
  Conns = {c1, c2}
  Requests = {r1}
  Configs = {A}
  Descriptions = {d1, d2}
  SeqModulus = 2
  Spellings = {lower, upper}
  Canonical = lower
  Messages <- RegistryMessages
  MaxOutbox = 1
  MaxCrashes = 1
  DiskFaults = TRUE
INVARIANTS TypeOK RegistryConsistent RemoteConfigCurrent ConfigProvenance WaiterNotForgotten ChannelHasRoom OfferHoldsRegistry
PROPERTIES ObjectsAreFresh SavedFileKept
SYMMETRY ConnSymmetry
CHECK_DEADLOCK FALSE
