SPECIFICATION TimersSpec
CONSTANTS
  NumTimers = 2
  NumSpokes = 3
  SpokeWidth = 1
  Period = 1
  Callers = {c1}
  g1 = g1
  Groups = {g1}
  Kinds <- TwoKinds
  Default = Default
  MaxTime = 3
  MaxAdds = 3
INVARIANTS
  PlacesExact
  RemovalKept
PROPERTIES
  NoneLeftBehind
  PendingNeverReturns
CHECK_DEADLOCK FALSE
