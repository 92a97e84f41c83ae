SPECIFICATION Spec
CONSTANTS
  Jobs <- UsualJobs
  Issues <- MCIssues
  MaxIssues = 2
INVARIANTS
  ExitTellsFindings
  OutputAsAsked
  CallsIndependent
PROPERTIES
  GoodIsFinal
  TriesOnlyGain
