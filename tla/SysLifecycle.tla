---------------------------- MODULE SysLifecycle ----------------------------
(***************************************************************************)
(* Start, stop, wake-up, restore and restart of the system, and the store  *)
(* of its environment (pp_sys.c, pp_sys_cmd.c, pp_env.c, pp_persist.c).    *)
(*                                                                         *)
(* Three actors share _sys without a lock: the pulse thread runs _sys_chk, *)
(* the host thread runs commands and writes the environment, the interrupt *)
(* of the host's port marks the arrival of bytes.  The pulse thread stores *)
(* the environment one model after another; each model is stored whole,    *)
(* as flashdb does.  Power may fail between any two steps.                 *)
(*                                                                         *)
(* Of the six models the four with a part of their own are kept: custset   *)
(* and afe_sh are stored, read and written as afe_cfg is.  A model that is *)
(* not in flash leaves the defaults in RAM, so flash holds for each model  *)
(* what the next start will read.                                          *)
(***************************************************************************)
EXTENDS Naturals

CONSTANTS
  Values,      \* contents of afe_cfg and of sox, 0 being the default
  LockValues,  \* the locks a host may set: subsets of {"chg", "dsg"}
  Written,     \* bound: the models the host writes, with the locks
  Asked,       \* bound: the commands the host gives
  StopTime,    \* PP_PCB_SYS_STOP_TIME, in pulses
  WkupTime     \* one second, in pulses

DataKeys == {"sys_sh", "sox", "afe_cfg"}
Keys == DataKeys \cup {"sys_s"}
Commands == {"stop", "wkup", "restore_afe", "restore_sox", "restart", "store"}

ASSUME LifecycleAssumption ==
  /\ 0 \in Values
  /\ {} \in LockValues
  /\ Written \subseteq {"sox", "afe_cfg"}
  /\ Asked \subseteq Commands
  /\ StopTime \in Nat \ {0} /\ WkupTime \in Nat \ {0}

VARIABLES
  pc,        \* next step of the pulse thread
  mem,       \* the models in RAM
  flash,     \* the models in the key-value store
  nth,       \* pp_env_store: the model to store next
  after,     \* what follows the store
  flags,     \* the flags of _sys that are 1
  host,      \* the host thread: idle, has a packet, before its hostpost
  idle,      \* accumulators of the two PP_CONTINUED
  wake,
  last,      \* history: how the system came to its last start
  reported,  \* history: whether this start was logged as abnormal
  stale,     \* history: models in flash older than the last orderly restart
  quiet,     \* history: pulses since a byte came or the battery was in use
  hasty      \* history: an automatic stop came too early

ram == <<mem, flags, host, idle, wake, quiet>>
storing == <<nth, after>>
history == <<last, reported, stale, hasty>>
vars == <<pc, flash, ram, storing, history>>

----------------------------------------------------------------------------
(* Mutant: the status of the run is stored first. *)
StatusFirst == [sys_s |-> 1, sys_sh |-> 2, sox |-> 3, afe_cfg |-> 4]

(* The order of the models in _env_models *)
EnvModels == [sys_sh |-> 1, sox |-> 2, afe_cfg |-> 3, sys_s |-> 4]

Default(k) ==
  CASE k = "sys_sh" -> {}
    [] k = "sys_s" -> [stop |-> FALSE, running |-> FALSE]
    [] OTHER -> 0

Stopped == mem["sys_s"].stop
Locked == mem["sys_sh"] # {}

Init ==
  /\ pc = "abnmrst"
  /\ mem = [k \in Keys |-> Default(k)]
  /\ flash = [k \in Keys |-> Default(k)]
  /\ nth = 1
  /\ after = "restore"
  /\ flags = {}
  /\ host = "idle"
  /\ idle = 0
  /\ wake = 0
  /\ last = "orderly"
  /\ reported = FALSE
  /\ stale = {}
  /\ quiet = 0
  /\ hasty = FALSE

----------------------------------------------------------------------------
(* Start and reset *)

(* _env_read, with the RAM initialised *)
Start(reason) ==
  /\ pc' = "abnmrst"
  /\ mem' = flash
  /\ nth' = 1 /\ after' = "restore"
  /\ flags' = {} /\ host' = "idle"
  /\ idle' = 0 /\ wake' = 0 /\ quiet' = 0
  /\ last' = reason /\ reported' = FALSE
  /\ UNCHANGED <<flash, stale, hasty>>

Running == {"restore", "stop", "clear", "wkup", "restart", "env_store"}

AtWork == pc \in Running \/ (pc = "store" /\ after = "restore")

(* Power fails in the middle of the system's work, or elsewhere. *)
Crash == Start(IF AtWork THEN "running" ELSE "between")

(* _sys_restart, after pp_export_f_deinit and the delay *)
McuRestart == pc = "delay" /\ Start("orderly")

----------------------------------------------------------------------------
(* The pulse thread *)

(* Mutant: the count of the models starts too early. *)
StoreFromZero(a) == pc' = "store" /\ nth' = 0 /\ after' = a

StoreThen(a) == pc' = "store" /\ nth' = 1 /\ after' = a

(* Mutant: the flag is cleared when the store is complete. *)
StoreNextClears ==
  /\ pc = "store"
  /\ \E k \in Keys :
       /\ EnvModels[k] = nth
       /\ flash' = [flash EXCEPT ![k] = mem[k]]
       /\ stale' = stale \ {k}
  /\ IF nth = 4
       THEN /\ pc' = (IF after = "up" THEN "restore" ELSE after)
            /\ flags' = flags \ {"store"}
            /\ UNCHANGED nth
       ELSE nth' = nth + 1 /\ UNCHANGED <<pc, flags>>
  /\ UNCHANGED <<mem, host, idle, wake, quiet, after, last, reported, hasty>>

(* pp_env_store *)
StoreNext ==
  /\ pc = "store"
  /\ \E k \in Keys :
       /\ EnvModels[k] = nth
       /\ flash' = [flash EXCEPT ![k] = mem[k]]
       /\ stale' = stale \ {k}
  /\ IF nth = 4
       THEN pc' = (IF after = "up" THEN "restore" ELSE after) /\ UNCHANGED nth
       ELSE nth' = nth + 1 /\ UNCHANGED pc
  /\ UNCHANGED <<ram, after, last, reported, hasty>>

SetStatus(stop, running) == [mem EXCEPT !["sys_s"] = [stop |-> stop, running |-> running]]

(* Mutant: running_status is cleared after the store. *)
RestartStillRunning(stop, a) ==
  /\ mem' = SetStatus(stop, TRUE)
  /\ stale' = {k \in DataKeys : flash[k] # mem[k]}
  /\ StoreThen(a)

(* _sys_restart(1) and _sys_chk_restore up to the store *)
StoreAndRestart(stop, a) ==
  /\ mem' = SetStatus(stop, FALSE)
  /\ stale' = {k \in DataKeys : flash[k] # mem[k]}
  /\ StoreThen(a)

(* _sys_chk_abnmrst *)
ChkAbnmrst ==
  /\ pc = "abnmrst"
  /\ IF mem["sys_s"].running
       THEN /\ reported' = TRUE
            /\ pc' = "restore"
            /\ UNCHANGED <<mem, storing>>
       ELSE /\ mem' = SetStatus(Stopped, TRUE)
            /\ StoreThen("up")
            /\ UNCHANGED reported
  /\ UNCHANGED <<flash, flags, host, idle, wake, quiet, last, stale, hasty>>

(* _sys_chk_restore *)
ChkRestore ==
  /\ pc = "restore"
  /\ IF flags \cap {"restore_afe", "restore_sox"} # {}
       THEN StoreAndRestart(Stopped, "del_afe")
       ELSE pc' = "stop" /\ UNCHANGED <<mem, storing, stale>>
  /\ UNCHANGED <<flash, flags, host, idle, wake, quiet, last, reported, hasty>>

(* pp_env_del, before _sys_restart(0) *)
Delete(at, flag, k, next) ==
  /\ pc = at
  /\ flash' = IF flag \in flags THEN [flash EXCEPT ![k] = Default(k)] ELSE flash
  /\ pc' = next
  /\ UNCHANGED <<ram, storing, history>>

DelAfe == Delete("del_afe", "restore_afe", "afe_cfg", "del_sox")
DelSox == Delete("del_sox", "restore_sox", "sox", "delay")

(* Mutant: a byte does not restart the time. *)
IdleRegardless(active) == IF active THEN 0 ELSE idle + 1

(* PP_CONTINUED(stop_reset_flag == 0 && bat_status == 0) *)
IdleFor(active) == IF active \/ "stop_reset" \in flags THEN 0 ELSE idle + 1

(* History: quiet counts every pulse, tested or not.  After a byte that was   *)
(* missed it says nothing until the test starts anew.                         *)
Missed == StopTime + 1
QuietAfter(active) ==
  IF quiet = Missed /\ (Stopped \/ Locked \/ IdleFor(active) # 0) THEN Missed
    ELSE IF active \/ quiet = Missed THEN 0
      ELSE IF quiet < StopTime THEN quiet + 1 ELSE quiet

(* _sys_chk_stop; the flag is cleared by a statement of its own. *)
ChkStop(active) ==
  /\ pc = "stop"
  /\ quiet' = QuietAfter(active)
  /\ IF Stopped \/ Locked
       THEN pc' = "wkup" /\ UNCHANGED <<mem, idle, storing, stale, hasty>>
       ELSE /\ idle' = IF IdleFor(active) >= StopTime THEN 0 ELSE IdleFor(active)
            /\ hasty' = (hasty \/ (IdleFor(active) >= StopTime /\ quiet' < StopTime))
            /\ IF IdleFor(active) >= StopTime \/ "stop" \in flags
                 THEN StoreAndRestart(TRUE, "delay")
                 ELSE pc' = "clear" /\ UNCHANGED <<mem, storing, stale>>
  /\ UNCHANGED <<flash, flags, host, wake, last, reported>>

ClearStopReset ==
  /\ pc = "clear"
  /\ flags' = flags \ {"stop_reset"}
  /\ pc' = "wkup"
  /\ UNCHANGED <<mem, flash, host, idle, wake, quiet, storing, history>>

(* Mutant: a byte does not wake the system. *)
WokenByLock(active) == "chg" \in mem["sys_sh"] \/ (active /\ wake + 1 >= WkupTime)

Woken(active) ==
  \/ active /\ wake + 1 >= WkupTime
  \/ "chg" \in mem["sys_sh"]      \* tested twice, and mos_lock_dsg is not
  \/ "wkup" \in flags

(* _sys_chk_wkup *)
ChkWkup(active) ==
  /\ pc = "wkup"
  /\ IF ~Stopped
       THEN pc' = "restart" /\ UNCHANGED <<mem, wake, storing, stale>>
       ELSE /\ wake' = IF active /\ wake + 1 < WkupTime THEN wake + 1 ELSE 0
            /\ IF Woken(active)
                 THEN StoreAndRestart(FALSE, "delay")
                 ELSE pc' = "restart" /\ UNCHANGED <<mem, storing, stale>>
  /\ UNCHANGED <<flash, flags, host, idle, quiet, last, reported, hasty>>

(* _sys_chk_restart; one flag stands for ota_done, restart_flag and           *)
(* restart4fota_flag.                                                         *)
ChkRestart ==
  /\ pc = "restart"
  /\ IF "restart" \in flags
       THEN StoreAndRestart(Stopped, "delay")
       ELSE pc' = "env_store" /\ UNCHANGED <<mem, storing, stale>>
  /\ UNCHANGED <<flash, flags, host, idle, wake, quiet, last, reported, hasty>>

(* _sys_chk_env_store; ten minutes may be over at any pulse. *)
ChkEnvStore ==
  /\ pc = "env_store"
  /\ \/ flags' = flags \ {"store"} /\ StoreThen("restore")
     \/ "store" \notin flags /\ pc' = "restore" /\ UNCHANGED <<flags, storing>>
  /\ UNCHANGED <<mem, flash, host, idle, wake, quiet, history>>

----------------------------------------------------------------------------
(* The host *)

(* _uart_irq_cb, at the bytes of a packet *)
HostBytes ==
  /\ host = "idle"
  /\ host' = "packet"
  /\ flags' = flags \cup {IF Stopped THEN "wkup" ELSE "stop_reset"}
  /\ quiet' = IF pc = "clear" THEN Missed ELSE 0
  /\ UNCHANGED <<pc, mem, flash, idle, wake, storing, history>>

(* _model_hostopr of opr 015, before its hostpost *)
HostWrite(k, v) ==
  /\ host = "packet"
  /\ host' = "post"
  /\ mem' = [mem EXCEPT ![k] = v]
  /\ UNCHANGED <<pc, flash, flags, idle, wake, quiet, storing, history>>

(* _env_hostpost *)
HostPost ==
  /\ host = "post"
  /\ host' = "idle"
  /\ flags' = flags \cup {"store"}
  /\ UNCHANGED <<pc, mem, flash, idle, wake, quiet, storing, history>>

(* _sys_hostcmd *)
HostCmd(c) ==
  /\ host = "packet"
  /\ host' = "idle"
  /\ flags' = IF \/ c = "stop" /\ (Stopped \/ Locked)
                 \/ c = "wkup" /\ ~Stopped
                THEN flags ELSE flags \cup {c}
  /\ UNCHANGED <<pc, mem, flash, idle, wake, quiet, storing, history>>

HostWrites ==
  \/ \E k \in Written, v \in Values : HostWrite(k, v)
  \/ \E v \in LockValues : HostWrite("sys_sh", v)

Host == HostBytes \/ HostWrites \/ HostPost \/ \E c \in Asked : HostCmd(c)

----------------------------------------------------------------------------
Pulse ==
  \/ ChkAbnmrst \/ StoreNext \/ ChkRestore \/ DelAfe \/ DelSox
  \/ (\E active \in BOOLEAN : ChkStop(active) \/ ChkWkup(active))
  \/ ClearStopReset \/ ChkRestart \/ ChkEnvStore \/ McuRestart

Next == Pulse \/ Host \/ Crash

Spec == Init /\ [][Next]_vars

(* The pulse thread waits for nobody: the chip or a time-out drives it.       *)
FairSpec == Spec /\ WF_vars(Pulse)

----------------------------------------------------------------------------
(* Properties *)

Models == [k \in Keys |-> CASE k = "sys_sh" -> LockValues
                             [] k = "sys_s" -> [stop : BOOLEAN, running : BOOLEAN]
                             [] OTHER -> Values]

TypeOK ==
  /\ pc \in Running \cup {"abnmrst", "store", "del_afe", "del_sox", "delay"}
  /\ DOMAIN mem = Keys /\ DOMAIN flash = Keys
  /\ \A k \in Keys : mem[k] \in Models[k] /\ flash[k] \in Models[k]
  /\ nth \in 1 .. 4
  /\ after \in {"up", "restore", "del_afe", "delay"}
  /\ flags \in SUBSET (Commands \cup {"stop_reset"})
  /\ host \in {"idle", "packet", "post"}
  /\ idle \in 0 .. StopTime - 1 /\ wake \in 0 .. WkupTime - 1
  /\ last \in {"orderly", "running", "between"}
  /\ reported \in BOOLEAN /\ hasty \in BOOLEAN
  /\ stale \in SUBSET DataKeys
  /\ quiet \in 0 .. Missed

(* A start is logged as abnormal if power failed while the system was at its  *)
(* work, and never after an orderly restart, whichever of stop, wake-up,      *)
(* restore and command asked for it (pp_sys.c:130).                           *)
ReportedExactly ==
  pc # "abnmrst" => /\ last = "running" => reported
                    /\ last = "orderly" => ~reported

(* The environment is stored model by model, but whoever finds it marked as   *)
(* left properly finds all of it at least as new as the restart: the mark is  *)
(* stored last (pp_env.c:14, pp_data_export.c:89).                            *)
CleanMeansWhole == ~flash["sys_s"].running => stale = {}

(* Whatever the host has written and the flash does not hold is still going   *)
(* to be stored: it is asked for, being asked for, or ahead of the store that *)
(* runs, although the flag is cleared before the store (pp_sys.c:90).         *)
DirtyMeansPending ==
  \A k \in DataKeys : flash[k] # mem[k] =>
    \/ "store" \in flags
    \/ host = "post"
    \/ pc = "store" /\ EnvModels[k] >= nth
    \/ pc \in {"del_sox", "delay"} /\ flash[k] = Default(k)

(* The system does not stop by itself before host and battery have been quiet *)
(* for the whole time, across locks and restarts.  A byte that comes between  *)
(* the test of stop_reset_flag and its reset is missed (pp_sys.c:33): until   *)
(* the time starts anew nothing is promised.                                  *)
NeverHasty == ~hasty

(* Every request is served or ends with a reset: none is left behind.  Only a *)
(* stop that is commanded just before the MOS are locked waits for the locks  *)
(* to be taken back (pp_sys.c:30).                                            *)
RequestsServed ==
  \A c \in Asked : c \in flags ~> c \notin flags \/ (c = "stop" /\ Locked)

=============================================================================
