SPECIFICATION Spec
CONSTANTS
  Delays = {0, 1, 3, 6}
  Wait = 4
  Horizon = 8
INVARIANTS
  TypeOK
PROPERTIES
  Debounced
  Prompt
