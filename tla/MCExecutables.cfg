CONSTANTS
  ArgChoices <- MCArgChoices
  DefaultArgs <- MCDefaultArgs
  SingleArgChoices <- MCSingleArgChoices
  MaxThreads = 3
  MaxKeys = 3
  EngineFails = FALSE
  None = None
  Absent = Absent
  MaxChoices = 3
SPECIFICATION ToolsSpec
INVARIANTS
  ToolsTypeOK
  ReturnedThreadStoredItsShare
  SingleReportedKeysCommitted
  OrmShutdownLosesNoWork
PROPERTIES
  NoEngineCallAfterShutdown
  
CHECK_DEADLOCK FALSE
