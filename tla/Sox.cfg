\* Three batteries in regular cycles, with one disturbance anywhere.
SPECIFICATION FairSpec
CONSTANTS
  Packs <- MCPacks
  Design = 1000
  Hundred = 5
  Fade = 1
  ShortTime = 1
  LongTime = 3
  Batch = 10
  Amount = 50
  ColdRate = 6
  StoreTime = 2
  MaxFaults = 1
INVARIANTS TypeOK CapacityBelieved MarkHonest
PROPERTIES FollowsCurrent Learns
