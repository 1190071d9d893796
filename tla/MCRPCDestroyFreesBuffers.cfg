SPECIFICATION Spec
CONSTANTS
  Worlds = {w1, w2}
  NoEvent = NoEvent
  NumBuffers = 2
  TokenSpace = 16
  MaxSends = 2
INVARIANT DestroyFreesBuffers
CHECK_DEADLOCK FALSE
