\* table_fetch_data returns: a fetch that reached "done" stops.
CONSTANTS
  Columns <- MCColumns
  Vals <- MCVals
  IndexNames <- MCIndexNames
  Tables <- MCTables
  IndexConfigs <- MCResidualIndexConfigs
  RestrictionSets <- MCResidualRestrictionSets
  CursorNextStatuses <- Statuses
SPECIFICATION Spec
INVARIANTS
  ResultIsPrefixOfAnswer
CHECK_DEADLOCK FALSE
