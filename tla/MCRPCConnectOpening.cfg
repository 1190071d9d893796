SPECIFICATION Spec
CONSTANTS
  Threads = {t1, t2, t3}
  Worlds = {w1}
  Names = {n1}
  NoName = NoName
  NoWorld = NoWorld
  NumSlots = 2
  GenSpace = 3
  MaxRegistrations = 4
  OpenWindows = {}
INVARIANT ConnectedIsAttached
CHECK_DEADLOCK FALSE
