\* table_fetch_data returns: a fetch that reached "done" stops.
CONSTANTS
  Columns <- MCColumns
  Vals <- MCVals
  IndexNames <- MCIndexNames
  Tables <- MCTables
  IndexConfigs <- MCIndexConfigs
  RestrictionSets <- MCRestrictionSets
  CursorNextStatuses <- MCCursorNextReliable
SPECIFICATION Spec
INVARIANTS
  TypeOK
PROPERTIES
  QueryRefinement
CHECK_DEADLOCK FALSE
