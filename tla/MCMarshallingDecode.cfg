CONSTANTS
  TypeNames <- MCTypeNames
  TextVals <- MCTextVals
  ByteBits = 1
SPECIFICATION Spec
INVARIANTS
  DecodeFollowsSpec
CHECK_DEADLOCK FALSE
