SPECIFICATION WFairSpec
CONSTANTS
  Calls <- MCCalls
  Budget = 3
  Names = {1, 2, 3}
  Content <- MCContent
  OutputName <- Beside
  MaxVersions = 3
  MaxFails = 1
INVARIANTS
  RunOnce
  OneObjectPerFile
  MovedWasRun
PROPERTIES
  BatchEnds
  
