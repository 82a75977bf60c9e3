\* table_fetch_data returns: a fetch that reached "done" stops.
CONSTANTS
  Columns <- MCColumns
  Vals <- MCVals
  IndexNames <- MCIndexNames
  Tables <- MCTables
  IndexConfigs <- MCIndexConfigs
  RestrictionSets <- MCRestrictionSets
  CursorNextStatuses <- Statuses
SPECIFICATION Spec
INVARIANTS
  FailureReported
CHECK_DEADLOCK FALSE
