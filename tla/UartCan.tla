------------------------------ MODULE UartCan ------------------------------
(***************************************************************************)
(* pp_uart_can: a serial port laid over a CAN device.  Frames with the     *)
(* identifier 0x7FF go to one ring of messages and are read byte by byte,  *)
(* all others go to a second ring and are read frame by frame by whoever   *)
(* used the CAN device before.  To get between, the port exchanges the     *)
(* receive callback and the read function of the CAN device when it is     *)
(* opened, puts them back when it is closed, and borrows the read function *)
(* of the hardware for the time of each interrupt.                         *)
(*                                                                         *)
(* The interrupt is atomic: there is one processor and it does not nest.   *)
(* Opening, closing and the readers are threads, which it interrupts       *)
(* between any two of their statements.                                    *)
(***************************************************************************)
EXTENDS Naturals, Sequences

CONSTANTS
  N,             \* slots of a ring, 8 in the code
  UartFrames,    \* frames with identifier 0x7FF, non-empty sequences of bytes
  CanFrames      \* other frames

Rings == {"uart", "can"}
Slots == 0 .. N - 1
Frames == [uart |-> UartFrames, can |-> CanFrames]

(* The frames of a stream of bytes are not empty: a frame of length 0 would  *)
(* never be read to its end.                                                 *)
ASSUME RingAssumption ==
  /\ N \in Nat \ {0, 1}
  /\ \A m \in UartFrames : m \in Seq(Nat) /\ Len(m) > 0
  /\ CanFrames \subseteq Seq(Nat)

VARIABLES
  mb,          \* uart_can_mb and can_mb
  dev,         \* rx_indicate and read of the CAN device
  saved,       \* can_rx_indicate, can_read: what they were
  pc,          \* statement of the thread that opens and closes
  ref_count,   \* whether parent.ref_count # 0
  in_irq,      \* the user of the serial port reads in its callback (pp_host)
  reading,     \* a thread is inside _uart_can_read or _can_read
  buffer,      \* what it has copied
  to_read,     \* bytes the callback has still to read in this interrupt
  failed,      \* a PP_ASSERT has failed
  out,         \* history: what the last read of a ring returned
  dropped      \* history: whether the last frame of a ring was dropped

hooks == <<dev, saved, pc, ref_count, in_irq>>
vars == <<mb, hooks, reading, buffer, to_read, failed, out, dropped>>

----------------------------------------------------------------------------
(* The rings *)

EmptyBuf == [msgs |-> [i \in Slots |-> <<>>], rx_idx |-> 0, tx_idx |-> 0, tx_data_idx |-> 0]

(* Mutant: the index leaves the ring. *)
NextIdxTooFar(i) == IF i = N THEN 0 ELSE i + 1

NextIdx(i) == IF i = N - 1 THEN 0 ELSE i + 1

Full(b) == NextIdx(b.rx_idx) = b.tx_idx

(* Mutant: the index moves before the frame is stored. *)
StoredBehind(b, m) ==
  [b EXCEPT !.msgs[NextIdx(b.rx_idx)] = m, !.rx_idx = NextIdx(b.rx_idx)]

Stored(b, m) == [b EXCEPT !.msgs[b.rx_idx] = m, !.rx_idx = NextIdx(b.rx_idx)]

Oldest(b) == b.msgs[b.tx_idx]

(* _can_read: the whole frame *)
Popped(b) == [b EXCEPT !.tx_idx = NextIdx(b.tx_idx)]

(* Mutant: the place in the next frame is not its beginning. *)
AdvancedWithoutReset(b) ==
  IF b.tx_data_idx + 1 = Len(Oldest(b))
    THEN [b EXCEPT !.tx_idx = NextIdx(b.tx_idx)]
    ELSE [b EXCEPT !.tx_data_idx = b.tx_data_idx + 1]

(* _uart_can_read: the next byte of the oldest frame *)
Advanced(b) ==
  IF b.tx_data_idx + 1 = Len(Oldest(b))
    THEN [b EXCEPT !.tx_data_idx = 0, !.tx_idx = NextIdx(b.tx_idx)]
    ELSE [b EXCEPT !.tx_data_idx = b.tx_data_idx + 1]

Copied(r) == IF r = "uart" THEN <<Oldest(mb[r])[mb[r].tx_data_idx + 1]>> ELSE Oldest(mb[r])

After(r) == IF r = "uart" THEN Advanced(mb[r]) ELSE Popped(mb[r])

----------------------------------------------------------------------------
Init ==
  /\ mb = [r \in Rings |-> EmptyBuf]
  /\ dev = [ind |-> "other", read |-> "hw"]
  /\ saved = [ind |-> "null", read |-> "null"]
  /\ pc = "closed"
  /\ ref_count = FALSE
  /\ in_irq \in BOOLEAN
  /\ reading = [r \in Rings |-> FALSE]
  /\ buffer = [r \in Rings |-> <<>>]
  /\ to_read = 0
  /\ failed = FALSE
  /\ out = [r \in Rings |-> <<>>]
  /\ dropped = [r \in Rings |-> FALSE]

(* Threads run outside the interrupt, and not after a failed assertion. *)
Thread == to_read = 0 /\ ~failed

Goto(a, b) == Thread /\ pc = a /\ pc' = b

Unhooked == UNCHANGED <<in_irq, mb, reading, buffer, to_read, failed, out, dropped>>

(* rt_device_open, _uart_can_open: one statement each; ref_count comes last. *)
Open ==
  /\ \/ Goto("closed", "open1") /\ saved' = [saved EXCEPT !.ind = dev.ind]
                                /\ UNCHANGED <<dev, ref_count>>
     \/ Goto("open1", "open2")  /\ saved' = [saved EXCEPT !.read = dev.read]
                                /\ UNCHANGED <<dev, ref_count>>
     \/ Goto("open2", "open3")  /\ dev' = [dev EXCEPT !.ind = "uart_can"]
                                /\ UNCHANGED <<saved, ref_count>>
     \/ Goto("open3", "open4")  /\ dev' = [dev EXCEPT !.read = "ring"]
                                /\ UNCHANGED <<saved, ref_count>>
     \/ Goto("open4", "open")   /\ ref_count' = TRUE /\ UNCHANGED <<dev, saved>>
  /\ Unhooked

(* Mutant: what was saved is forgotten before it is put back. *)
CloseForgets ==
  /\ \/ Goto("open", "close1")   /\ ref_count' = FALSE /\ UNCHANGED <<dev, saved>>
     \/ Goto("close1", "close2") /\ saved' = [ind |-> "null", read |-> "null"]
                                 /\ UNCHANGED <<dev, ref_count>>
     \/ Goto("close2", "can")    /\ dev' = [ind |-> "other", read |-> "hw"]
                                 /\ UNCHANGED <<saved, ref_count>>
  /\ Unhooked

(* rt_device_close, _uart_can_close up to the rings.  Whoever closes the port *)
(* does not close it under a reader.                                          *)
Close ==
  /\ pc = "open" => reading = [r \in Rings |-> FALSE]
  /\ \/ Goto("open", "close1")   /\ ref_count' = FALSE /\ UNCHANGED <<dev, saved>>
     \/ Goto("close1", "close2") /\ dev' = [dev EXCEPT !.ind = saved.ind]
                                 /\ UNCHANGED <<saved, ref_count>>
     \/ Goto("close2", "close3") /\ dev' = [dev EXCEPT !.read = saved.read]
                                 /\ UNCHANGED <<saved, ref_count>>
     \/ Goto("close3", "close4") /\ saved' = [saved EXCEPT !.ind = "null"]
                                 /\ UNCHANGED <<dev, ref_count>>
     \/ Goto("close4", "can")    /\ saved' = [saved EXCEPT !.read = "null"]
                                 /\ UNCHANGED <<dev, ref_count>>
  /\ Unhooked

(* rt_memset of can_mb, then of uart_can_mb *)
Reset ==
  /\ \E r \in Rings :
       /\ Goto(r, IF r = "can" THEN "uart" ELSE "closed")
       /\ mb' = [mb EXCEPT ![r] = EmptyBuf]
  /\ UNCHANGED <<dev, saved, ref_count, in_irq, reading, buffer, to_read, failed, out, dropped>>

(* _can_rx_indicate.  The hardware has a frame, and the exchange must lead to *)
(* the function that reads it; the callback of the serial port is called once *)
(* per byte, and fails if it reads a port whose ref_count is 0.               *)
Receive(r, m) ==
  /\ Thread
  /\ dev.ind = "uart_can"
  /\ IF saved.read # "hw"
       THEN failed' = TRUE /\ UNCHANGED <<mb, to_read, dropped>>
       ELSE IF Full(mb[r])
         THEN dropped' = [dropped EXCEPT ![r] = TRUE] /\ UNCHANGED <<mb, to_read, failed>>
         ELSE
           /\ mb' = [mb EXCEPT ![r] = Stored(mb[r], m)]
           /\ dropped' = [dropped EXCEPT ![r] = FALSE]
           /\ IF r = "uart"
                THEN /\ failed' = (in_irq /\ ~ref_count)
                     /\ to_read' = IF in_irq /\ ref_count THEN Len(m) ELSE 0
                ELSE /\ failed' = (saved.ind = "null")
                     /\ UNCHANGED to_read
  /\ UNCHANGED <<hooks, reading, buffer, out>>

(* The callback of the serial port reads one byte (pp_host_uart_irq_deal). *)
IrqRead ==
  /\ to_read > 0
  /\ to_read' = to_read - 1
  /\ out' = [out EXCEPT !["uart"] = Copied("uart")]
  /\ mb' = [mb EXCEPT !["uart"] = After("uart")]
  /\ UNCHANGED <<hooks, reading, buffer, failed, dropped>>

(* A thread reads: it copies, and later moves the index.  A reader of the CAN *)
(* device comes to its ring through the exchanged read function; it does not  *)
(* start once the port is being closed.                                       *)
Copy(r) ==
  /\ Thread /\ ~reading[r]
  /\ IF r = "uart" THEN ref_count /\ ~in_irq
                   ELSE dev.read = "ring" /\ pc \in {"open4", "open"}
  /\ mb[r].rx_idx # mb[r].tx_idx
  /\ buffer' = [buffer EXCEPT ![r] = Copied(r)]
  /\ reading' = [reading EXCEPT ![r] = TRUE]
  /\ UNCHANGED <<mb, hooks, to_read, failed, out, dropped>>

Advance(r) ==
  /\ Thread /\ reading[r]
  /\ mb' = [mb EXCEPT ![r] = After(r)]
  /\ out' = [out EXCEPT ![r] = buffer[r]]
  /\ reading' = [reading EXCEPT ![r] = FALSE]
  /\ UNCHANGED <<hooks, buffer, to_read, failed, dropped>>

Next ==
  \/ Open \/ Close \/ Reset \/ IrqRead
  \/ \E r \in Rings : Copy(r) \/ Advance(r) \/ \E m \in Frames[r] : Receive(r, m)

Spec == Init /\ [][Next]_vars

----------------------------------------------------------------------------
(* Properties *)

MsgBuf(r) ==
  [msgs : [Slots -> Frames[r] \cup {<<>>}],
   rx_idx : Slots, tx_idx : Slots, tx_data_idx : Nat]

TypeOK ==
  /\ mb["uart"] \in MsgBuf("uart") /\ mb["can"] \in MsgBuf("can") /\ DOMAIN mb = Rings
  /\ dev \in [ind : {"other", "uart_can"}, read : {"hw", "ring"}]
  /\ saved \in [ind : {"other", "null"}, read : {"hw", "null"}]
  /\ pc \in {"closed", "open1", "open2", "open3", "open4", "open",
             "close1", "close2", "close3", "close4", "can", "uart"}
  /\ ref_count \in BOOLEAN /\ in_irq \in BOOLEAN
  /\ reading \in [Rings -> BOOLEAN]
  /\ buffer \in [Rings -> Seq(Nat)]
  /\ to_read \in Nat
  /\ failed \in BOOLEAN
  /\ out \in [Rings -> Seq(Nat)]
  /\ dropped \in [Rings -> BOOLEAN]

(* The frames that wait in a ring, the oldest first *)
Count(b) == IF b.rx_idx >= b.tx_idx THEN b.rx_idx - b.tx_idx ELSE b.rx_idx + N - b.tx_idx
Slot(b, i) == IF b.tx_idx + i < N THEN b.tx_idx + i ELSE b.tx_idx + i - N
Waiting(b) == [i \in 1 .. Count(b) |-> b.msgs[Slot(b, i - 1)]]

Uart == INSTANCE MsgQueue WITH
  Frames <- UartFrames, Capacity <- N - 1, Bytewise <- TRUE,
  queue <- Waiting(mb["uart"]), pos <- mb["uart"].tx_data_idx + 1,
  out <- out["uart"], dropped <- dropped["uart"], closing <- pc = "uart"

Can == INSTANCE MsgQueue WITH
  Frames <- CanFrames, Capacity <- N - 1, Bytewise <- FALSE,
  queue <- Waiting(mb["can"]), pos <- 1,
  out <- out["can"], dropped <- dropped["can"], closing <- pc = "can"

(* The serial port is a queue of N - 1 frames read byte by byte: however the  *)
(* interrupt falls between the steps of its reader, no byte is lost, repeated *)
(* or out of order, but for a frame that came when N - 1 were waiting and     *)
(* what waits when the port is closed.                                        *)
UartIsQueue == Uart!Spec

(* And the CAN device keeps being a queue of frames for its own user. *)
CanIsQueue == Can!Spec

(* The exchange of callbacks holds at every statement of open and close: an   *)
(* interrupt always finds the function that reads the hardware, and the       *)
(* callback it calls (pp_uart_can.c:50, :68), if a thread reads the port.     *)
ExchangeHolds == failed => in_irq

(* The callbacks of the port return RT_EOK, as pp_uart_can.c:59 asserts.      *)
AssertionsHold == ~failed

(* A reader returns the bytes that are in the ring when it moves the index.   *)
ReadersSafe == \A r \in Rings : reading[r] => mb[r].rx_idx # mb[r].tx_idx /\ buffer[r] = Copied(r)

=============================================================================
