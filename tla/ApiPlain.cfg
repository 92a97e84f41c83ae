SPECIFICATION ASpec
CONSTANTS
  c1 = c1
  c2 = c2
  w1 = w1
  direct = direct
  remote = remote
  Direct = {direct}
  Remote = {remote}
  Wants <- PlainWants
  Workers = {w1}
  Contents = {c1, c2}
  Converts = {c1, c2}
  Requests <- NoRequests
  MaxId = 2
  MaxAttempts = 1
  QueueLimit = 1
  NoWorker = NoWorker
  Dedupe = Dedupe
  NoRun = NoRun
  WorkerLost = WorkerLost
  Unreadable = Unreadable
INVARIANTS
  
  KeptForReader
