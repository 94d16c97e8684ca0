----------------------------- MODULE MCUartCan -----------------------------
(***************************************************************************)
(* Small sets of frames for UartCan, and the frames that are written.  A   *)
(* write shares no variable with the rings: it is made while they rest,    *)
(* which stands for every interleaving with them.  The bootloader writes   *)
(* before the app has opened the port, the app once it is open.            *)
(***************************************************************************)
EXTENDS UartCan, CanWrite

MCUartFrames == {<<1>>, <<2, 3>>}
MCCanFrames == {<<4>>}

----------------------------------------------------------------------------
Fresh == Thread /\ mb = [r \in Rings |-> EmptyBuf] /\ buffer = [r \in Rings |-> <<>>]

MCInit == Init /\ WriteInit

MCNext ==
  \/ writer = "none" /\ Next /\ UNCHANGED wvars
  \/ /\ \/ Fresh /\ pc = "closed" /\ CanTx
        \/ Fresh /\ pc = "open" /\ UartCanWrite
        \/ Send \/ Finish
     /\ UNCHANGED vars

MCSpec == MCInit /\ [][MCNext]_<<vars, wvars>>

=============================================================================
