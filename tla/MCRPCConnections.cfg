SPECIFICATION FairSpec
CONSTANTS
  Threads = {t1, t2, t3}
  Worlds = {w1, w2}
  Names = {n1}
  NoName = NoName
  NoWorld = NoWorld
  NumSlots = 2
  GenSpace = 3
  MaxRegistrations = 4
  OpenWindows = {}
INVARIANTS
  NoUseAfterFree
  StaleIdsRejected
  CleanupComplete
  WorldListsExact
PROPERTIES
  EntryHasALife
  DestructionEnds
CHECK_DEADLOCK FALSE
