----------------------------- MODULE MCHostLink -----------------------------
(***************************************************************************)
(* Short packets for HostLink: a head of two bytes, alone and with data.   *)
(***************************************************************************)
EXTENDS HostLink

MCLength == <<3, 2, 3>>

=============================================================================
