SPECIFICATION FairSpec
CONSTANTS
  Worlds = {w1, w2, w3, w4, w5}
  NoEvent = NoEvent
INVARIANTS
  CountersExact
  WriterExcludesAll
  SleepersBlocked
  SomeoneCanMove
PROPERTIES
  UpgradeIsAtomic
  WaitsEnd
