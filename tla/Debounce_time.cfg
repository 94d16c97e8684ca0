SPECIFICATION Spec
CONSTANTS
  Delays = {3}
  Wait = 4
  Horizon = 8
PROPERTIES
  NotEarly
