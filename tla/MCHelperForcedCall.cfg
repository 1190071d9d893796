SPECIFICATION Spec
CONSTANTS
  h1 = h1
  h2 = h2
  Helpers = {h1, h2}
  QueueOf <- ServedQueue
  NumQueues = 1
  NumRequests = 2
  Clients = {c1, c2}
  MaxJobs = 3
  None = None
  NoEvent = NoEvent
INVARIANT CalledAsMade
CHECK_DEADLOCK FALSE
