SPECIFICATION Spec
CONSTANTS
  c1 = c1
  c2 = c2
  w1 = w1
  w2 = w2
  Workers = {w1}
  Contents = {c1, c2}
  Converts = {c1}
  Requests <- DedupeRequests
  MaxId = 2
  MaxAttempts = 1
  QueueLimit = 1
  NoWorker = NoWorker
  Dedupe = Dedupe
  NoRun = NoRun
  WorkerLost = WorkerLost
  Unreadable = Unreadable
INVARIANTS
  
  ResultForOwnContent
  FreshQueueBounded
PROPERTIES
  ImplementsPromise
