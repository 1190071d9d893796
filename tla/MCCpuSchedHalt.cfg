SPECIFICATION Spec
CONSTANTS
  e1 = e1
  q1 = q1
  q2 = q2
  Vcpus = {v1, v2}
  Kernel = {k1}
  Callers = {k1}
  Events = {e1}
  NoEvent = NoEvent
  Queues = {q1, q2}
  QueueOf <- Buckets
  Masks <- HaltMasks
  Nobody = Nobody
  OpenWindows = {"handback"}
INVARIANT HaltAwakened
