SPECIFICATION HSpec
CONSTANTS
  Order <- MCOrder
  DsgOpr <- MCDsgOpr
  ChgOpr <- MCChgOpr
  DsgGroup <- MCDsgGroup
  ChgGroup <- MCChgGroup
  Chip <- MCChip
  Detected <- MCDetected
  Latching <- Latched
  EnvWritable <- MCEnvWritable
  Delay <- MCDelay
  MembersOf <- MCMembersOf
  Enabled = {"pdsg_scd", "vdif", "cell0_otc", "otc", "ov1", "uv2"}
  IdleTime = 2
  Samples <- NoSample
  LockValues <- JustFalse
  SmartValues <- JustTrue
  DsgIgnored = FALSE
INVARIANTS
  TypeOK
  NoConductWhileTripped
  RecoversWhenClear
