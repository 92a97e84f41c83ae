SPECIFICATION FairRoots
CONSTANTS
  Workers = {w1, w2}
  Roots = {r1, r2}
  None = None
  Lease = 2
  Delay = 1
INVARIANTS
  LiveRootKept
PROPERTY
  LeftoversRemoved
