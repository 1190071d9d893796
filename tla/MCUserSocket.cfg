SPECIFICATION Spec
CONSTANTS
  c1 = c1
  c2 = c2
  r = r
  w = w
  Threads = {r, w}
  Cartels = {c1, c2}
  CartelOf <- ForSockets
  readCartel = c1
  writeCartel = c2
  PipeSize = 3
  Menu <- ReaderAndWriter
  CopyInFaults = {1, 2}
  CopyOutFaults = {1}
  MaxCalls = 3
  MaxSignals = 1
  Nobody = Nobody
INVARIANT NobodySleepsThrough
CHECK_DEADLOCK FALSE
