------------------------------ MODULE HostLink ------------------------------
(***************************************************************************)
(* The receiving side of the host protocol.  In the app (pp_host.c) the    *)
(* interrupt of the serial port appends bytes and releases a semaphore;    *)
(* the host thread takes a silence of the line for the end of a packet,    *)
(* executes it and answers.  The bootloader's side is BlHost, the line and *)
(* the host are HostLine.                                                  *)
(***************************************************************************)
EXTENDS BlHost

AppInit ==
  /\ program = "app"
  /\ pc = "reset"
  /\ finish = FALSE /\ timer = "off"

Init ==
  /\ AppInit \/ BlInit
  /\ recv = <<>>
  /\ sem = FALSE
  /\ processing = FALSE
  /\ lag = 0
  /\ cur = 1 /\ sent = 0 /\ attempts = 0 /\ waiting = FALSE
  /\ answer = "none"
  /\ executed = 0
  /\ faults = 0

----------------------------------------------------------------------------
(* host_thread_entry *)

SemReset ==
  /\ pc = "reset"
  /\ sem' = FALSE
  /\ lag' = 0
  /\ pc' = "take"
  /\ UNCHANGED <<recv, processing, answer, executed>>

SemTake ==
  /\ pc = "take" /\ sem
  /\ sem' = FALSE
  /\ pc' = "check"
  /\ UNCHANGED <<recv, processing, lag, answer, executed>>

(* Mutant: the buffer counts as too full one byte early. *)
CheckEarly ==
  /\ pc = "check"
  /\ recv' = IF Len(recv) >= RecvMax THEN <<>> ELSE recv
  /\ pc' = "reset"
  /\ UNCHANGED <<sem, lag, processing, answer, executed>>

(* Mutant: the tail is never set back. *)
CheckNothing ==
  /\ pc = "check"
  /\ pc' = "reset"
  /\ UNCHANGED <<recv, sem, lag, processing, answer, executed>>

CheckTail ==
  /\ pc = "check"
  /\ recv' = IF Len(recv) > RecvMax THEN <<>> ELSE recv
  /\ pc' = "reset"
  /\ UNCHANGED <<sem, lag, processing, answer, executed>>

(* The take times out.  Within a packet the next byte comes earlier. *)
Timeout ==
  /\ pc = "take" /\ ~sem
  /\ Silent
  /\ pc' = "expired"
  /\ UNCHANGED <<recv, sem, processing, lag, answer, executed>>

Expired ==
  /\ pc = "expired"
  /\ IF recv = <<>>
       THEN pc' = "reset" /\ UNCHANGED processing
       ELSE pc' = "route" /\ processing' = TRUE
  /\ UNCHANGED <<recv, sem, lag, answer, executed>>

(* _route_this, _operate and the operation the tables of pp_export_f lead to. *)
Route ==
  /\ pc = "route"
  /\ Operate
  /\ pc' = "done"
  /\ UNCHANGED <<recv, sem, processing, lag>>

(* Mutant: processing is left set. *)
DoneForgets ==
  /\ pc = "done"
  /\ pc' = "empty"
  /\ UNCHANGED <<recv, sem, processing, lag, answer, executed>>

Done ==
  /\ pc = "done"
  /\ processing' = FALSE
  /\ pc' = "empty"
  /\ UNCHANGED <<recv, sem, lag, answer, executed>>

(* Mutant: recv_tail is not set back. *)
EmptyNothing ==
  /\ pc = "empty"
  /\ pc' = "reset"
  /\ UNCHANGED <<recv, sem, lag, processing, answer, executed>>

Empty ==
  /\ pc = "empty"
  /\ recv' = <<>>
  /\ pc' = "reset"
  /\ UNCHANGED <<sem, lag, processing, answer, executed>>

Thread ==
  /\ program = "app"
  /\ SemReset \/ SemTake \/ CheckTail \/ Timeout \/ Expired \/ Route \/ Done \/ Empty
  /\ UNCHANGED <<program, boot, host, faults>>

----------------------------------------------------------------------------
Next == Thread \/ Bootloader \/ Host \/ AnswerLost \/ Noise

Spec == Init /\ [][Next]_vars

(* The thread waits for the semaphore with a time-out only, and is scheduled  *)
(* round robin with the others; the loop of main does not wait, and its timer *)
(* ticks; the host goes on sending, and not for ever at the end of a time-out. *)
FairSpec ==
  Spec /\ WF_vars(Thread) /\ WF_vars(BlMain) /\ WF_vars(BlTimer) /\ SF_vars(Host)

----------------------------------------------------------------------------
(* Properties *)

TypeOK ==
  /\ \/ /\ program = "app"
        /\ pc \in {"reset", "take", "check", "expired", "route", "done", "empty"}
     \/ /\ program = "boot"
        /\ pc \in {"poll", "tail", "enter", "route", "done", "empty", "finish"}
  /\ finish \in BOOLEAN /\ timer \in {"off", "on", "due"}
  /\ recv \in Seq(Bytes)
  /\ sem \in BOOLEAN /\ processing \in BOOLEAN /\ waiting \in BOOLEAN
  /\ processing <=> pc \in {"route", "done"}
  /\ lag \in 0 .. Slack
  /\ cur \in 1 .. Len(Length) + 1
  /\ sent \in 0 .. RecvMax
  /\ attempts \in Nat /\ executed \in Nat
  /\ answer \in {"none", "ok", "crc"}
  /\ faults \in 0 .. MaxFaults

(* The interrupt writes at recv_tail whatever the thread does: the 128 bytes  *)
(* behind RECV_MAX_NUM suffice as long as fewer come in two turns of the     *)
(* thread (pp_host.c:107), also when the semaphore is reset in between and    *)
(* while a packet is executed; the bootloader's interrupt tests the tail      *)
(* itself (pp_bl_host.c:139).                                                 *)
InBounds == Len(recv) < RecvMax + Extra

(* No packet is executed more often than it was sent: whatever is left in the *)
(* buffer, nothing of it is executed again (pp_host.c:116, and in the         *)
(* bootloader pp_bl_host.c:131, which the two interrupts may come between).   *)
OncePerSend == executed <= attempts

(* A packet sent as soon as the last is answered may lose its first bytes,    *)
(* which come before processing and recv_tail are set back (pp_host.c:115),   *)
(* and each fault may cost a repetition, which may be torn in its turn; but   *)
(* without a fault the repetition finds the device waiting.                   *)
FewTorn == attempts <= 2 + 2 * faults

(* Every packet is executed and answered in the end: whichever flags the      *)
(* interrupts set between the steps of pp_bl_host_process, none is left that  *)
(* keeps the device from listening.                                           *)
Delivered == \A p \in Packets : cur = p ~> cur > p

=============================================================================
