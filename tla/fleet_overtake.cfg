SPECIFICATION FleetSpec
CONSTANTS
  Nil = Nil
  EmptyConfig = EmptyConfig
  Garbled = Garbled
  Ids = {i1}
  Conns = {c1}
  Requests = {r1, r2}
  Configs = {A}
  Descriptions = {d1, d2}
  SeqModulus = 2
  Spellings = {lower}
  Canonical = lower
  Messages <- Reports
  MaxOutbox = 1
  MaxCrashes = 0
  DiskFaults = FALSE
  Caps <- SupervisorCaps
  MaxChanges = 1
PROPERTIES FleetConverges ViewConverges
