CONSTANTS
  Fields <- MCFields
SPECIFICATION Spec
INVARIANTS
  CreateTableAckGivesDeclaredSlots
