CONSTANTS
  TypeNames <- MCTypeNames
  TextVals <- MCTextVals
  ByteBits = 1
SPECIFICATION Spec
INVARIANTS
  TagNamesRoundTrip
CHECK_DEADLOCK FALSE
