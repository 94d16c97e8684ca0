------------------------------ MODULE MsgQueue ------------------------------
(***************************************************************************)
(* What the user of one of the two ports of pp_uart_can is promised: a     *)
(* queue of at most Capacity frames.  A frame arrives whole, behind the    *)
(* earlier ones, or is dropped whole, and it is dropped only when the      *)
(* queue is full.  Frames are read in order, byte by byte by the user of   *)
(* the serial port (Bytewise), frame by frame by the user of the CAN port. *)
(***************************************************************************)
EXTENDS Naturals, Sequences

CONSTANTS
  Frames,     \* frames that may arrive, sequences of bytes
  Capacity,   \* how many frames may wait
  Bytewise    \* whether a read takes one byte or one frame

VARIABLES
  queue,      \* frames that wait, the oldest first
  pos,        \* next byte of the oldest frame
  out,        \* what the last read returned
  dropped,    \* whether the last frame that arrived was dropped
  closing     \* input: the port is being closed

vars == <<queue, pos, out, dropped>>

Init ==
  /\ queue = <<>>
  /\ pos = 1
  /\ out = <<>>
  /\ dropped = FALSE

Put(m) ==
  /\ Len(queue) < Capacity
  /\ queue' = Append(queue, m)
  /\ dropped' = FALSE
  /\ UNCHANGED <<pos, out>>

Drop ==
  /\ Len(queue) = Capacity
  /\ dropped' = TRUE
  /\ UNCHANGED <<queue, pos, out>>

GetByte ==
  /\ Bytewise
  /\ queue # <<>>
  /\ out' = <<Head(queue)[pos]>>
  /\ IF pos = Len(Head(queue))
       THEN pos' = 1 /\ queue' = Tail(queue)
       ELSE pos' = pos + 1 /\ queue' = queue
  /\ UNCHANGED dropped

GetFrame ==
  /\ ~Bytewise
  /\ queue # <<>>
  /\ out' = Head(queue)
  /\ queue' = Tail(queue)
  /\ UNCHANGED <<pos, dropped>>

(* What waits is forgotten when the port is closed, and only then. *)
Clear ==
  /\ closing
  /\ queue' = <<>>
  /\ pos' = 1
  /\ UNCHANGED <<out, dropped>>

Next == Drop \/ GetByte \/ GetFrame \/ Clear \/ \E m \in Frames : Put(m)

Spec == Init /\ [][Next]_vars

=============================================================================
