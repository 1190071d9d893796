SPECIFICATION Spec
CONSTANTS
  Threads = {t1, t2}
  Worlds = {w1}
  Names = {n1}
  NoName = NoName
  NoWorld = NoWorld
  NumSlots = 2
  GenSpace = 3
  MaxRegistrations = 2
  OpenWindows = {"reset"}
INVARIANT LockProtectsEntry
CHECK_DEADLOCK FALSE
