\* A host that sends its next packet as soon as it has the answer, five faults
\* of the line anywhere, and every packet answered in the end.
SPECIFICATION FairSpec
CONSTANTS
  Length <- MCLength
  HeadLength = 2
  RecvMax = 3
  Extra = 5
  Slack = 2
  MaxFaults = 5
CHECK_DEADLOCK FALSE
INVARIANTS TypeOK InBounds OncePerSend FewTorn
PROPERTIES Delivered
