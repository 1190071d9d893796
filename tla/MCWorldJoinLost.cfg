SPECIFICATION Spec
CONSTANTS
  s1 = s1
  s2 = s2
  t1 = t1
  t2 = t2
  h1 = h1
  h2 = h2
  Slots = {s1, s2}
  Threads = {t1, t2}
  Helpers = {h1, h2}
  SCSI_REAP_RETRIES = 1
  MaxMade = 2
  MaxKills = 2
  MaxBinds = 0
  OpenWindows = {}
SYMMETRY Symmetries
CHECK_DEADLOCK FALSE
INVARIANT VmmLeaderStays
