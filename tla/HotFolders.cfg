SPECIFICATION FairSpec
CONSTANTS
  Files = {"convert/a.pdf", "check/b.jpg"}
  Stem <- OwnStems
  Checks = {"check/b.jpg"}
  MaxVersion = 2
  MaxJobs = 3
  Careful = TRUE
  DiskFails = {"check/b.jpg"}
  None = None
INVARIANTS
  
  ConvertedOnce
  OutcomeInPlace

  
