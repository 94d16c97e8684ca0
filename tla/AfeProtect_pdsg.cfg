SPECIFICATION Spec
CONSTANTS
  Order <- MCOrder
  DsgOpr <- MCDsgOpr
  ChgOpr <- MCChgOpr
  DsgGroup <- MCDsgGroup
  ChgGroup <- MCChgGroup
  Chip <- MCChip
  Detected <- MCDetected
  Latching <- Latched
  EnvWritable <- MCEnvWritable
  Delay <- MCDelay
  MembersOf <- MCMembersOf
  Enabled = {"pdsg_scd", "uv2"}
  IdleTime = 2
  Samples <- AnySample
  LockValues <- JustFalse
  SmartValues <- JustFalse
  DsgIgnored = FALSE
INVARIANTS
  PdsgRespectsProtection
