SPECIFICATION FairSpec
CONSTANTS
  Pcpus = {p1, p2, p3}
  Worlds = {w1, w2}
  Pages = {a}
  FLUSH_VPN = FLUSH_VPN
  Broadcast = Broadcast
  NoEvent = NoEvent
  OpenWindows = {}
INVARIANTS
  FlushedOnReturn
  OneInvalidation
  NoLostTurn
PROPERTIES
  InvalidationEnds
