SPECIFICATION FairSpec
CONSTANTS
  Worlds = {w1, w2, w3}
  NoEvent = NoEvent
  NumBuffers = 2
  TokenSpace = 16
  MaxSends = 2
INVARIANTS
  BuffersAccounted
  SleepersHaveNothing
  RepliesMatch
  PollersNotForgotten
PROPERTIES
  ImplementsLife
  UnregisterCompletes
CHECK_DEADLOCK FALSE
