--------------------------- MODULE MCSysLifecycle ---------------------------
(***************************************************************************)
(* Small sets of values and locks for SysLifecycle.                        *)
(***************************************************************************)
EXTENDS SysLifecycle

OneLock == {{}, {"chg"}}

=============================================================================
