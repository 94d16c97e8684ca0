\* Every length of a write, the largest packet included.
\* Two of three slots can wait; frames of one and two bytes. The port is read by
\* a thread, or in the interrupt as pp_host does. A failed assertion halts the
\* program, so a deadlock is allowed.
SPECIFICATION MCSpec
CONSTANTS
  N = 3
  MaxWrite = 256
  UartFrames <- MCUartFrames
  CanFrames <- MCCanFrames
CHECK_DEADLOCK FALSE
INVARIANTS TypeOK ExchangeHolds WritesWhole
PROPERTIES UartIsQueue CanIsQueue
