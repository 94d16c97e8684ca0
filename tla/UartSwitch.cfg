\* The host's switches against the timed switch back, statement by statement.  A
\* thread whose assertion fails stops for good.
SPECIFICATION FairSpec
CONSTANTS
  Handles = {0, 1}
  HostPort = 1
  None = 255
CHECK_DEADLOCK FALSE
INVARIANTS TypeOK InPlace
PROPERTIES Undone
