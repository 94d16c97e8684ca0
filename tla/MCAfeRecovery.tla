--------------------------- MODULE MCAfeRecovery ---------------------------
(* Instances of AfeRecovery: those of MCAfeProtect, with the history. *)
EXTENDS MCAfeProtect, AfeRecovery
=============================================================================
