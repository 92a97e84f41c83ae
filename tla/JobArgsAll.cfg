SPECIFICATION JobSpec
CONSTANTS
  BoolFlags <- MCBool
  TextFlags <- MCText
  FileFields <- MCFile
  Levels = {"2b"}
  CheckOnly = {"x4p"}
  Library = {"press"}
  FarLibrary = {"press"}
  Arriving <- AllRequests
INVARIANTS
  EngineSeesRequest
  AcceptedEverywhere
  
