\* The callback must succeed, also when the port is read in the interrupt.
SPECIFICATION MCSpec
CONSTANTS
  N = 3
  MaxWrite = 256
  UartFrames <- MCUartFrames
  CanFrames <- MCCanFrames
CHECK_DEADLOCK FALSE
INVARIANTS AssertionsHold
