------------------------------ MODULE CanWrite ------------------------------
(***************************************************************************)
(* How a buffer is cut into CAN frames of up to eight bytes: by the write  *)
(* of the serial port laid over CAN in the app (_uart_can_write), which    *)
(* counts in bytes of eight bits, and by the bootloader (pp_drv_can_tx),   *)
(* which counts in sixteen.  A frame is a step.                            *)
(***************************************************************************)
EXTENDS Naturals, Sequences

CONSTANT MaxWrite   \* bound: the longest buffer, which a length of 16 bits can tell

ASSUME CanWriteAssumption == MaxWrite \in Nat \ {0} /\ MaxWrite < 65536

VARIABLES
  writer,      \* the write under way: of the "app", of the "boot", or "none"
  size,        \* the length of its buffer
  remain,      \* remain, remaining_len: what is still to be sent
  turn,        \* frames it has sent
  msg,         \* the last of them
  bus          \* history: the bytes it has put on the bus

wvars == <<writer, size, remain, turn, msg, bus>>

UInt8 == 256

(* Every byte of the buffer is told from the others. *)
Buffer(n) == [k \in 1 .. n |-> k]

Piece(len) == [k \in 1 .. len |-> size - remain + k]

(* Mutant: a last frame that is not full is not counted. *)
MsgCntDown(n) == (n \div 8) % UInt8

MsgCnt(n) == ((n + 7) \div 8) % UInt8

MsgLen == IF remain <= 8 THEN remain ELSE 8

----------------------------------------------------------------------------
WriteInit ==
  writer = "none" /\ size = 0 /\ remain = 0 /\ turn = 0 /\ msg = <<>> /\ bus = <<>>

Call(who, n, r) ==
  /\ writer = "none"
  /\ writer' = who /\ size' = n /\ remain' = r
  /\ UNCHANGED <<turn, msg, bus>>

(* _uart_can_write is called, or pp_drv_can_tx. *)
UartCanWrite == \E n \in 1 .. MaxWrite : Call("app", n, n % UInt8)
CanTx == \E n \in 1 .. MaxWrite : Call("boot", n, n)

(* The loop of the app counts frames, that of the bootloader bytes. *)
Over == IF writer = "app" THEN turn = MsgCnt(size) ELSE remain = 0

Send ==
  /\ writer # "none" /\ ~Over
  /\ msg' = Piece(MsgLen)
  /\ bus' = bus \o msg'
  /\ remain' = remain - MsgLen
  /\ turn' = turn + 1
  /\ UNCHANGED <<writer, size>>

Finish ==
  /\ writer # "none" /\ Over
  /\ writer' = "none" /\ size' = 0 /\ remain' = 0 /\ turn' = 0 /\ msg' = <<>> /\ bus' = <<>>

WriteNext == UartCanWrite \/ CanTx \/ Send \/ Finish

WriteSpec == WriteInit /\ [][WriteNext]_wvars

----------------------------------------------------------------------------
(* What is written reaches the bus whole, once and in order: from the port    *)
(* over CAN up to the largest size eight bits hold (pp_uart_can.c:83), from   *)
(* the bootloader (drv_can.c:116) up to the largest packet.  No frame is      *)
(* empty: a port of this code could never read one to its end.                *)
WritesWhole ==
  (writer = "boot" \/ (writer = "app" /\ size < UInt8)) =>
    /\ Over => bus = Buffer(size)
    /\ turn > 0 => Len(msg) \in 1 .. 8

=============================================================================
