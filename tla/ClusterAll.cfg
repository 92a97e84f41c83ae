SPECIFICATION FairSpec
CONSTANTS
  c1 = c1
  w1 = w1
  w2 = w2
  Contents = {c1}
  Converts = {c1}
  MaxId = 1
  QueueLimit = 1
  NoWorker = NoWorker
  Dedupe = Dedupe
  NoRun = NoRun
  WorkerLost = WorkerLost
  Unreadable = Unreadable
  NoLease = NoLease
  Survivor = w1
  Workers = {w1, w2}
  SlotNo = {1}
  MaxAttempts = 2
  Requests <- AnyRequests

  
  
INVARIANTS
  ResultFromLastLease
  RetriesUsedUp
  LeaseExclusive
  BeatsOnlyOwnWork
