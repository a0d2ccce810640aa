SPECIFICATION OrderedSpec
CONSTANTS
  Nil = Nil
  EmptyConfig = EmptyConfig
  Garbled = Garbled
  Ids = {i1}
  Conns = {c1, c2}
  Requests = {r1}
  Configs = {A}
  Descriptions = {d1}
  SeqModulus = 3
  Spellings = {lower}
  Canonical = lower
  Messages <- Reports
  MaxOutbox = 1
  MaxCrashes = 1
  DiskFaults = FALSE
  Caps <- SupervisorCaps
  MaxChanges = 1
PROPERTIES FleetConverges EffectiveConverges
