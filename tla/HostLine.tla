------------------------------ MODULE HostLine ------------------------------
(***************************************************************************)
(* What the receiving sides of the host protocol have in common: the line, *)
(* the host at its other end, and the buffer recv_buffer which an          *)
(* interrupt appends bytes to.  The program that takes packets from it is  *)
(* the app (HostLink) or the bootloader (BlHost); no lock protects what    *)
(* the interrupt and the program share.                                    *)
(*                                                                         *)
(* A byte says which packet it belongs to and where; a byte in error is    *)
(* Bad.  The first bytes of a packet are its head, code first.  The CRC    *)
(* tells a whole packet from any other bytes of the same number.           *)
(*                                                                         *)
(* External: the host, which sends the bytes of a packet without a pause,  *)
(* waits for the answer, and repeats the packet when none comes within a   *)
(* time longer than the device needs; and the line, which may lose, break  *)
(* and invent bytes and lose answers.                                      *)
(***************************************************************************)
EXTENDS Naturals, Sequences

CONSTANTS
  Length,       \* lengths of the packets the host sends, one after another
  HeadLength,   \* HEAD_LENGTH
  RecvMax,      \* RECV_MAX_NUM
  Extra,        \* recv_buffer has RECV_MAX_NUM + 128 bytes
  Slack,        \* bytes that may arrive before the app's thread has had its turn
  MaxFaults     \* bound: faults of the line

Packets == 1 .. Len(Length)
Bad == <<0, 0>>
Bytes == {<<p, i>> : p \in Packets, i \in 1 .. RecvMax} \cup {Bad}

ASSUME LinkAssumption ==
  /\ HeadLength \in Nat \ {0} /\ RecvMax \in Nat /\ Extra \in Nat /\ Slack \in Nat
  /\ Length \in Seq(HeadLength .. RecvMax)
  /\ 2 * Slack < Extra
  /\ MaxFaults \in Nat

VARIABLES
  program,     \* who listens, "app" or "boot"
  pc,          \* next statement of the host thread, or of the loop of main
  recv,        \* recv_buffer up to recv_tail
  processing,
  sem,         \* the app: whether the semaphore is released
  lag,         \*   bytes appended since the thread last waited
  finish,      \* the bootloader: recv_finish
  timer,       \*   recv_timeout: off, on, or due, its interrupt under way
  cur,         \* the host: its packet, the bytes of it that are sent,
  sent,        \*   how often it has begun to send it,
  attempts,
  waiting,     \*   whether it waits for the answer
  answer,      \* the answer on its way
  executed,    \* history: how often the packet was executed
  faults       \* faults so far

app == <<sem, lag>>
boot == <<finish, timer>>
device == <<program, pc, recv, processing, app, boot>>
host == <<cur, sent, attempts, waiting>>
vars == <<device, host, answer, executed, faults>>

----------------------------------------------------------------------------
(* The interrupts *)

(* pp_host_uart_irq_deal: a byte is written to recv_buffer in any case, but   *)
(* not counted while a packet is executed.                                    *)
IrqDeal(b) ==
  /\ lag < Slack
  /\ recv' = Append(recv, b)
  /\ sem' = TRUE
  /\ lag' = lag + 1
  /\ UNCHANGED timer

(* Mutant: the test of the tail is left to the loop of main. *)
RecvUnchecked(b) ==
  /\ recv' = Append(recv, b)
  /\ timer' = IF timer = "due" THEN "due" ELSE "on"
  /\ UNCHANGED app

(* _recv_data starts the time-out again; if that is at its end, the callback  *)
(* which follows stops it.                                                    *)
RecvData(b) ==
  /\ recv' = IF Len(recv) = RecvMax THEN <<>> ELSE Append(recv, b)
  /\ timer' = IF timer = "due" THEN "due" ELSE "on"
  /\ UNCHANGED app

Arrives(b) ==
  IF processing
    THEN UNCHANGED <<recv, app, timer>>
    ELSE IF program = "app" THEN IrqDeal(b) ELSE RecvData(b)

(* Within a packet no byte is late enough for a time-out. *)
Silent == sent = 0 \/ waiting

----------------------------------------------------------------------------
(* What is found in the buffer *)

Whole(p) == recv = [i \in 1 .. Length[p] |-> <<p, i>>]

(* The head of packet p is there and tells its length. *)
Headed(p) == /\ Len(recv) >= HeadLength
             /\ \A i \in 1 .. HeadLength : recv[i] = <<p, i>>

(* The code, and as many bytes as the head tells, but not the CRC of them.  A *)
(* head in error may tell any number; the code is found in no other place.    *)
Framed == /\ Len(recv) >= HeadLength
          /\ \E p \in Packets : recv[1] = <<p, 1>>
          /\ \A p \in Packets : Headed(p) => Len(recv) = Length[p]

Unframed == \A p \in Packets : Headed(p) => Len(recv) # Length[p]

(* A packet that is whole is executed.  The code and the right number of bytes *)
(* without the right CRC are answered with an error, all else is not answered. *)
Operate ==
  IF \E p \in Packets : Whole(p)
    THEN executed' = executed + 1 /\ answer' = "ok"
    ELSE /\ \/ Framed /\ answer' = "crc"
            \/ Unframed /\ UNCHANGED answer
         /\ UNCHANGED executed

----------------------------------------------------------------------------
(* The host and the line *)

(* The device has nothing to do.  The bootloader may be left with bytes: one  *)
(* came within the interrupt of a timer that ended as finish was set back.    *)
Quiet ==
  IF program = "app" THEN recv = <<>> /\ ~processing
                     ELSE pc = "poll" /\ ~finish /\ timer = "off"

Fault == faults < MaxFaults /\ faults' = faults + 1

(* The first byte comes when a time-out has ended and recv_tail is not yet    *)
(* tested: it is taken for a packet (counted with the faults).                *)
Collides ==
  /\ sent = 0
  /\ IF program = "app" THEN pc = "expired"
                        ELSE timer = "due" \/ (finish /\ pc \in {"poll", "tail"})

(* What comes before the packet is complete is no answer to it. *)
Send ==
  /\ cur \in Packets /\ ~waiting
  /\ \/ /\ Arrives(<<cur, sent + 1>>)
        /\ IF Collides THEN Fault ELSE UNCHANGED faults
     \/ Arrives(Bad) /\ Fault
     \/ UNCHANGED <<recv, app, timer>> /\ Fault
  /\ sent' = sent + 1
  /\ waiting' = (sent' = Length[cur])
  /\ attempts' = IF sent = 0 THEN attempts + 1 ELSE attempts
  /\ answer' = IF waiting' THEN "none" ELSE answer
  /\ UNCHANGED <<program, pc, processing, finish, cur, executed>>

Again == sent' = 0 /\ waiting' = FALSE /\ UNCHANGED <<cur, attempts, executed>>

Answered ==
  /\ waiting /\ answer # "none"
  /\ answer' = "none"
  /\ IF answer = "ok"
       THEN /\ cur' = cur + 1 /\ sent' = 0 /\ attempts' = 0 /\ waiting' = FALSE
            /\ executed' = 0
       ELSE Again
  /\ UNCHANGED <<device, faults>>

(* The host gives up waiting; by then the device has done all it had to do.   *)
HostTimeout ==
  /\ waiting /\ answer = "none" /\ Quiet
  /\ Again
  /\ UNCHANGED <<device, answer, faults>>

AnswerLost ==
  /\ answer # "none" /\ Fault
  /\ answer' = "none"
  /\ UNCHANGED <<device, host, executed>>

Noise ==
  /\ Arrives(Bad) /\ Fault
  /\ UNCHANGED <<program, pc, processing, finish, host, answer, executed>>

Host == Send \/ Answered \/ HostTimeout

=============================================================================
