------------------------------- MODULE BlHost -------------------------------
(***************************************************************************)
(* The receiving side of the bootloader (pp_bl_host.c, pp_bl_timer.c): the *)
(* interrupt of the port starts a time-out again with every byte, the      *)
(* interrupt of the timer sets recv_finish when it ends, and main looks at *)
(* recv_finish every five milliseconds.  The interrupt of the port may     *)
(* come within that of the timer; main runs outside both.                  *)
(***************************************************************************)
EXTENDS HostLine

BlInit ==
  /\ program = "boot"
  /\ pc = "poll"
  /\ finish = FALSE /\ timer = "off"

----------------------------------------------------------------------------
(* pp_bl_host_process, called by the loop of main *)

Poll ==
  /\ pc = "poll" /\ finish
  /\ pc' = "tail"
  /\ UNCHANGED <<recv, processing, boot, answer, executed>>

TestTail ==
  /\ pc = "tail"
  /\ pc' = IF recv = <<>> THEN "finish" ELSE "enter"
  /\ UNCHANGED <<recv, processing, boot, answer, executed>>

Enter ==
  /\ pc = "enter"
  /\ processing' = TRUE
  /\ pc' = "route"
  /\ UNCHANGED <<recv, boot, answer, executed>>

BlRoute ==
  /\ pc = "route"
  /\ Operate
  /\ pc' = "done"
  /\ UNCHANGED <<recv, processing, boot>>

Leave ==
  /\ pc = "done"
  /\ processing' = FALSE
  /\ pc' = "empty"
  /\ UNCHANGED <<recv, boot, answer, executed>>

(* Mutant: recv_tail is left where it is. *)
ResetNothing ==
  /\ pc = "empty"
  /\ pc' = "finish"
  /\ UNCHANGED <<recv, processing, boot, answer, executed>>

ResetTail ==
  /\ pc = "empty"
  /\ recv' = <<>>
  /\ pc' = "finish"
  /\ UNCHANGED <<processing, boot, answer, executed>>

ResetFinish ==
  /\ pc = "finish"
  /\ finish' = FALSE
  /\ pc' = "poll"
  /\ UNCHANGED <<recv, processing, timer, answer, executed>>

BlMain ==
  /\ program = "boot" /\ timer # "due"
  /\ Poll \/ TestTail \/ Enter \/ BlRoute \/ Leave \/ ResetTail \/ ResetFinish
  /\ UNCHANGED <<program, app, host, faults>>

----------------------------------------------------------------------------
(* _timer_process, the interrupt of the timer *)

(* What came since main has tested the tail has not been there for 255 ms when *)
(* main sets recv_finish back, a few instructions later.                       *)
Due ==
  /\ timer = "on" /\ Silent
  /\ pc = "finish" => recv = <<>>
  /\ timer' = "due"
  /\ UNCHANGED finish

(* Mutant: the time-out is not stopped. *)
RecvTimeoutGoesOn ==
  /\ timer = "due"
  /\ timer' = "on"
  /\ finish' = TRUE

RecvTimeout ==
  /\ timer = "due"
  /\ timer' = "off"
  /\ finish' = TRUE

BlTimer ==
  /\ program = "boot"
  /\ Due \/ RecvTimeout
  /\ UNCHANGED <<program, pc, recv, processing, app, host, answer, executed, faults>>

Bootloader == BlMain \/ BlTimer

=============================================================================
