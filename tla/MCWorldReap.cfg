SPECIFICATION FairSpec
CONSTANTS
  s1 = s1
  s2 = s2
  t1 = t1
  t2 = t2
  h1 = h1
  h2 = h2
  Slots = {s1}
  Threads = {t1, t2}
  Helpers = {h1, h2}
  SCSI_REAP_RETRIES = 2
  MaxMade = 2
  MaxKills = 2
  MaxBinds = 1
  OpenWindows = {}
CHECK_DEADLOCK FALSE
INVARIANTS
  ReapIsSound
PROPERTY KilledReaped
