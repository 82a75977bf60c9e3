\* A panic in rust_get_page aborts the process: a crashed state is final.
CONSTANTS
  InitArgs <- MCInitArgs
  Indices <- MCIndices
  MinNonZeroCap = 4
SPECIFICATION Spec
INVARIANTS
  GetPageServesExactlyThePages
CHECK_DEADLOCK FALSE
