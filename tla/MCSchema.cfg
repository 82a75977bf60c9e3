CONSTANTS
  Fields <- MCFields
SPECIFICATION Spec
INVARIANTS
  TypeOK
  CreateIndexAckMeansComplete
  IndexesLandInAnnotatedSlots
