SPECIFICATION FairSpec
CONSTANTS
  Order <- MCOrder
  DsgOpr <- MCDsgOpr
  ChgOpr <- MCChgOpr
  DsgGroup <- MCDsgGroup
  ChgGroup <- MCChgGroup
  Chip <- MCChip
  Detected <- MCDetected
  Latching <- Latched
  EnvWritable <- MCEnvWritable
  Delay <- MCDelay
  MembersOf <- MCMembersOf
  Enabled = {"pdsg_scd", "oht"}
  IdleTime = 1
  Samples <- OneSample
  LockValues <- Flags
  SmartValues <- Flags
  DsgIgnored = FALSE
INVARIANTS
  NoConductWhileTripped
  SysLockMeansOpen
PROPERTIES
  TripOpensPath
