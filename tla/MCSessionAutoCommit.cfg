CONSTANTS
  Ids <- MCIds
  Vals <- MCVals
  None = None
  Absent = Absent
  CommitCanFail = FALSE
  SelectVectors <- MCSelectVectors
SPECIFICATION Spec
INVARIANTS
  AutoCommitFollowsSpec
