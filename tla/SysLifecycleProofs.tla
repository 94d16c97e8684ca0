------------------------- MODULE SysLifecycleProofs -------------------------
(***************************************************************************)
(* The marks and the environment that SysLifecycle leaves in flash, for    *)
(* all contents, locks, times and crashes.                                 *)
(***************************************************************************)
EXTENDS SysLifecycle, TLAPS

----------------------------------------------------------------------------
(* The inductive invariant *)

(* Where the pulse thread stands, and what it has marked in RAM and in flash *)
MarkInv ==
  /\ AtWork => mem["sys_s"].running /\ flash["sys_s"].running
  /\ pc = "store" /\ after = "up" => mem["sys_s"].running /\ ~flash["sys_s"].running
  /\ pc = "store" /\ after \in {"del_afe", "delay"} =>
       ~mem["sys_s"].running /\ flash["sys_s"].running
  /\ pc \in {"del_afe", "del_sox", "delay"} =>
       ~mem["sys_s"].running /\ ~flash["sys_s"].running
  /\ pc = "abnmrst" => mem["sys_s"] = flash["sys_s"]

(* The last orderly restart stores one model after another. *)
StaleInv ==
  /\ CleanMeansWhole
  /\ pc = "store" /\ after \in {"del_afe", "delay"} =>
       \A k \in stale : EnvModels[k] >= nth

(* How the system came to its start is what the mark says. *)
ReportInv ==
  /\ ReportedExactly
  /\ pc = "abnmrst" => /\ last = "running" => flash["sys_s"].running
                       /\ last = "orderly" => ~flash["sys_s"].running
                       /\ ~reported

Inv == TypeOK /\ MarkInv /\ StaleInv /\ ReportInv

----------------------------------------------------------------------------
LEMMA ModelTypes ==
  /\ Models["sys_sh"] = LockValues /\ Models["sox"] = Values /\ Models["afe_cfg"] = Values
  /\ Models["sys_s"] = [stop : BOOLEAN, running : BOOLEAN]
  /\ Keys = {"sys_sh", "sox", "afe_cfg", "sys_s"}
  /\ \A k \in Keys : Default(k) \in Models[k]
  /\ \A k \in Keys : EnvModels[k] \in 1 .. 4
  /\ \A k \in Keys : EnvModels[k] = 4 <=> k = "sys_s"
<1>1. Keys = {"sys_sh", "sox", "afe_cfg", "sys_s"}
  BY DEF Keys, DataKeys
<1>2. /\ Models["sys_sh"] = LockValues /\ Models["sox"] = Values /\ Models["afe_cfg"] = Values
      /\ Models["sys_s"] = [stop : BOOLEAN, running : BOOLEAN]
  BY <1>1 DEF Models
<1>3. \A k \in Keys : Default(k) \in Models[k]
  BY <1>1, <1>2, LifecycleAssumption DEF Default
<1> QED BY <1>1, <1>2, <1>3 DEF EnvModels

LEMMA StatusSet ==
  ASSUME TypeOK, NEW s \in BOOLEAN, NEW r \in BOOLEAN
  PROVE  /\ DOMAIN SetStatus(s, r) = Keys
         /\ \A k \in Keys : SetStatus(s, r)[k] \in Models[k]
         /\ SetStatus(s, r)["sys_s"].running = r
         /\ \A k \in DataKeys : SetStatus(s, r)[k] = mem[k]
         /\ Stopped \in BOOLEAN
<1>1. "sys_s" \in Keys /\ "sys_s" \notin DataKeys /\ DataKeys \subseteq Keys
  BY DEF Keys, DataKeys
<1>2. [stop |-> s, running |-> r] \in Models["sys_s"] /\ mem["sys_s"] \in Models["sys_s"]
  BY <1>1, ModelTypes DEF TypeOK
<1>3. Stopped \in BOOLEAN
  BY <1>2, ModelTypes DEF Stopped
<1> QED BY <1>1, <1>2, <1>3 DEF TypeOK, SetStatus

LEMMA InitInv == Init => Inv
<1> SUFFICES ASSUME Init PROVE Inv
  OBVIOUS
<1>1. /\ DOMAIN mem = Keys /\ DOMAIN flash = Keys
      /\ \A k \in Keys : mem[k] = Default(k) /\ flash[k] = Default(k)
      /\ mem["sys_s"] = flash["sys_s"] /\ ~flash["sys_s"].running
  BY ModelTypes DEF Init, Default
<1>2. TypeOK
  <2>1. idle \in 0 .. StopTime - 1 /\ wake \in 0 .. WkupTime - 1 /\ quiet \in 0 .. Missed
    BY LifecycleAssumption DEF Init, Missed
  <2>2. \A k \in Keys : mem[k] \in Models[k] /\ flash[k] \in Models[k]
    BY <1>1, ModelTypes
  <2>3. /\ pc \in Running \cup {"abnmrst", "store", "del_afe", "del_sox", "delay"}
        /\ nth \in 1 .. 4 /\ after \in {"up", "restore", "del_afe", "delay"}
        /\ flags \in SUBSET (Commands \cup {"stop_reset"})
        /\ host \in {"idle", "packet", "post"} /\ last \in {"orderly", "running", "between"}
        /\ stale \in SUBSET DataKeys
    BY DEF Init
  <2>4. reported \in BOOLEAN /\ hasty \in BOOLEAN
    BY DEF Init
  <2> QED BY <1>1, <2>1, <2>2, <2>3, <2>4 DEF TypeOK
<1> QED BY <1>1, <1>2 DEF Init, Inv, MarkInv, StaleInv, ReportInv, AtWork, Running,
                          CleanMeansWhole, ReportedExactly

(* A start finds what the flash holds. *)
LEMMA StartStep ==
  ASSUME Inv, NEW reason \in {"orderly", "running", "between"}, Start(reason),
         reason = "running" => flash["sys_s"].running,
         reason = "orderly" => ~flash["sys_s"].running
  PROVE  Inv'
<1>1. TypeOK'
  <2>1. idle' \in 0 .. StopTime - 1 /\ wake' \in 0 .. WkupTime - 1 /\ quiet' \in 0 .. Missed
    BY LifecycleAssumption DEF Start, Missed
  <2>2. /\ DOMAIN mem' = Keys /\ DOMAIN flash' = Keys
        /\ \A k \in Keys : mem'[k] \in Models[k] /\ flash'[k] \in Models[k]
    BY DEF Start, Inv, TypeOK
  <2>3. /\ pc' \in Running \cup {"abnmrst", "store", "del_afe", "del_sox", "delay"}
        /\ nth' \in 1 .. 4 /\ after' \in {"up", "restore", "del_afe", "delay"}
        /\ flags' \in SUBSET (Commands \cup {"stop_reset"})
        /\ host' \in {"idle", "packet", "post"} /\ last' \in {"orderly", "running", "between"}
        /\ stale' \in SUBSET DataKeys
    BY DEF Start, Inv, TypeOK
  <2>4. reported' \in BOOLEAN /\ hasty' \in BOOLEAN
    BY DEF Start, Inv, TypeOK
  <2> QED BY <2>1, <2>2, <2>3, <2>4 DEF TypeOK, Models
<1>2. MarkInv' /\ StaleInv' /\ ReportInv'
  BY DEF Start, Inv, MarkInv, StaleInv, ReportInv, AtWork, Running, CleanMeansWhole,
         ReportedExactly
<1> QED BY <1>1, <1>2 DEF Inv

LEMMA ResetStep == Inv /\ (Crash \/ McuRestart) => Inv'
<1> SUFFICES ASSUME Inv, Crash \/ McuRestart PROVE Inv'
  OBVIOUS
<1>1. CASE McuRestart
  BY <1>1, StartStep DEF McuRestart, Inv, MarkInv
<1>2. CASE Crash /\ AtWork
  BY <1>2, StartStep DEF Crash, Inv, MarkInv
<1>3. CASE Crash /\ ~AtWork
  BY <1>3, StartStep DEF Crash
<1> QED BY <1>1, <1>2, <1>3

(* The decision to restart clears the mark in RAM and looks at what is old.   *)
LEMMA RestartStep ==
  ASSUME Inv, pc \in Running, NEW s \in BOOLEAN, NEW a \in {"del_afe", "delay"},
         StoreAndRestart(s, a),
         TypeOK', UNCHANGED <<flash, last, reported>>
  PROVE  Inv'
<1>1. /\ mem'["sys_s"].running = FALSE /\ flash["sys_s"].running
      /\ pc' = "store" /\ nth' = 1 /\ after' = a /\ stale' \subseteq DataKeys
  BY StatusSet DEF StoreAndRestart, StoreThen, Inv, MarkInv, AtWork
<1>2. MarkInv'
  BY <1>1 DEF MarkInv, AtWork, Running
<1>3. StaleInv'
  <2>1. \A k \in DataKeys : EnvModels[k] >= 1
    BY DEF EnvModels, DataKeys
  <2> QED BY <1>1, <2>1 DEF StaleInv, CleanMeansWhole
<1>4. ReportInv'
  BY <1>1 DEF Inv, ReportInv, ReportedExactly, Running
<1> QED BY <1>2, <1>3, <1>4 DEF Inv

(* A step of the pulse thread at its work which marks nothing *)
LEMMA WorkStep ==
  ASSUME Inv, pc \in Running, TypeOK', UNCHANGED <<mem, flash, last, reported, stale>>,
         pc' \in Running \/ (pc' = "store" /\ after' = "restore")
  PROVE  Inv'
  BY DEF Inv, MarkInv, StaleInv, ReportInv, AtWork, Running, CleanMeansWhole, ReportedExactly

(* A step of the host, which marks nothing either *)
LEMMA HostStep ==
  ASSUME Inv, TypeOK', UNCHANGED <<pc, flash, nth, after, last, reported, stale>>,
         mem'["sys_s"] = mem["sys_s"]
  PROVE  Inv'
  BY DEF Inv, MarkInv, StaleInv, ReportInv, AtWork, CleanMeansWhole, ReportedExactly

----------------------------------------------------------------------------
(* Types *)

(* The part of TypeOK about one step of the pulse thread *)
PulseTypes ==
  /\ pc \in Running \cup {"abnmrst", "store", "del_afe", "del_sox", "delay"}
  /\ nth \in 1 .. 4 /\ after \in {"up", "restore", "del_afe", "delay"}
  /\ idle \in 0 .. StopTime - 1 /\ wake \in 0 .. WkupTime - 1 /\ quiet \in 0 .. Missed
  /\ stale \in SUBSET DataKeys

DataTypes ==
  /\ DOMAIN mem = Keys /\ DOMAIN flash = Keys
  /\ \A k \in Keys : mem[k] \in Models[k] /\ flash[k] \in Models[k]

OtherTypes ==
  /\ flags \in SUBSET (Commands \cup {"stop_reset"})
  /\ host \in {"idle", "packet", "post"}
  /\ last \in {"orderly", "running", "between"}
  /\ reported \in BOOLEAN /\ hasty \in BOOLEAN

LEMMA TypeParts ==
  /\ TypeOK <=> PulseTypes /\ DataTypes /\ OtherTypes
  /\ TypeOK' <=> PulseTypes' /\ DataTypes' /\ OtherTypes'
  BY DEF TypeOK, PulseTypes, DataTypes, OtherTypes

(* A decision or the next test *)
LEMMA DecisionTypes ==
  ASSUME TypeOK, NEW s \in BOOLEAN, NEW a \in {"del_afe", "delay"}, NEW next \in Running,
         \/ StoreAndRestart(s, a)
         \/ pc' = next /\ UNCHANGED <<mem, storing, stale>>,
         flash' = flash
  PROVE  /\ DataTypes'
         /\ pc' \in Running \cup {"store"} /\ nth' \in 1 .. 4
         /\ after' \in {"up", "restore", "del_afe", "delay"}
         /\ stale' \in SUBSET DataKeys
<1>1. CASE StoreAndRestart(s, a)
  <2>1. /\ mem' = SetStatus(s, FALSE) /\ pc' = "store" /\ nth' = 1 /\ after' = a
        /\ stale' \in SUBSET DataKeys
    BY <1>1 DEF StoreAndRestart, StoreThen
  <2>2. DataTypes'
    BY <2>1, StatusSet DEF DataTypes, TypeOK, Models
  <2> QED BY <2>1, <2>2
<1>2. CASE pc' = next /\ UNCHANGED <<mem, storing, stale>>
  BY <1>2 DEF storing, TypeOK, DataTypes, Models
<1> QED BY <1>1, <1>2

LEMMA IdleTypes ==
  ASSUME TypeOK, NEW active \in BOOLEAN
  PROVE  /\ QuietAfter(active) \in 0 .. Missed
         /\ (IF IdleFor(active) >= StopTime THEN 0 ELSE IdleFor(active)) \in 0 .. StopTime - 1
         /\ (IF active /\ wake + 1 < WkupTime THEN wake + 1 ELSE 0) \in 0 .. WkupTime - 1
<1>1. StopTime \in Nat /\ StopTime > 0 /\ WkupTime \in Nat /\ WkupTime > 0
  BY LifecycleAssumption
<1>2. idle \in 0 .. StopTime - 1 /\ wake \in 0 .. WkupTime - 1 /\ quiet \in 0 .. Missed
  BY DEF TypeOK
<1>3. QuietAfter(active) \in 0 .. Missed
  BY <1>1, <1>2 DEF QuietAfter, Missed
<1>4. IdleFor(active) \in Nat
  BY <1>1, <1>2 DEF IdleFor
<1> QED BY <1>1, <1>2, <1>3, <1>4

----------------------------------------------------------------------------
(* Every action keeps the invariant *)

LEMMA StoreNextStep == Inv /\ StoreNext => Inv'
<1> SUFFICES ASSUME Inv, pc = "store", NEW k \in Keys, EnvModels[k] = nth,
                    flash' = [flash EXCEPT ![k] = mem[k]],
                    stale' = stale \ {k},
                    IF nth = 4
                      THEN pc' = (IF after = "up" THEN "restore" ELSE after) /\ UNCHANGED nth
                      ELSE nth' = nth + 1 /\ UNCHANGED pc,
                    UNCHANGED <<ram, after, last, reported, hasty>>
             PROVE  Inv'
  BY DEF StoreNext
<1> USE DEF Inv
<1>1. /\ nth \in 1 .. 4 /\ after \in {"up", "restore", "del_afe", "delay"}
      /\ DOMAIN flash = Keys /\ flash'[k] = mem[k]
      /\ \A q \in Keys \ {k} : flash'[q] = flash[q]
      /\ "sys_s" \in Keys /\ (nth = 4 <=> k = "sys_s")
      /\ UNCHANGED <<mem, flags, host, idle, wake, quiet>>
  BY ModelTypes DEF TypeOK, ram
<1>2. nth' \in 1 .. 4 /\ pc' \in Running \cup {"store", "del_afe", "delay"}
  BY <1>1 DEF Running
<1>3. TypeOK'
  <2>1. DataTypes'
    BY <1>1 DEF TypeOK, DataTypes, Models
  <2>2. PulseTypes'
    BY <1>1, <1>2 DEF TypeOK, PulseTypes
  <2>3. OtherTypes'
    BY <1>1 DEF TypeOK, OtherTypes
  <2> QED BY <2>1, <2>2, <2>3, TypeParts
<1>4. CASE nth = 4
  <2>1. flash'["sys_s"] = mem["sys_s"] /\ pc' = IF after = "up" THEN "restore" ELSE after
    BY <1>1, <1>4
  <2>2. MarkInv'
    BY <1>1, <1>4, <2>1 DEF MarkInv, AtWork, Running
  <2>3. after \in {"del_afe", "delay"} => stale' = {}
    <3> SUFFICES ASSUME after \in {"del_afe", "delay"}, NEW q \in stale' PROVE FALSE
      OBVIOUS
    <3>1. q \in Keys /\ q # "sys_s" /\ EnvModels[q] >= 4
      BY <1>1, <1>4 DEF StaleInv, TypeOK, Keys, DataKeys
    <3> QED BY <3>1, ModelTypes
  <2>4. StaleInv'
    <3>1. after \in {"up", "restore"} => flash'["sys_s"].running
      BY <2>1 DEF MarkInv, AtWork
    <3> QED BY <1>1, <1>4, <2>1, <2>3, <3>1 DEF StaleInv, CleanMeansWhole
  <2>5. ReportInv'
    BY <1>1, <1>4, <2>1 DEF ReportInv, ReportedExactly
  <2> QED BY <1>3, <2>2, <2>4, <2>5
<1>5. CASE nth # 4
  <2>1. flash'["sys_s"] = flash["sys_s"] /\ pc' = "store" /\ nth' = nth + 1
    BY <1>1, <1>5
  <2>2. MarkInv'
    BY <1>1, <2>1 DEF MarkInv, AtWork, Running
  <2>3. StaleInv'
    <3>1. CleanMeansWhole'
      BY <2>1 DEF StaleInv, CleanMeansWhole
    <3>2. ASSUME after \in {"del_afe", "delay"}, NEW q \in stale' PROVE EnvModels[q] >= nth'
      <4>1. q \in Keys /\ q # k /\ EnvModels[q] >= nth /\ EnvModels[q] \in 1 .. 4
        BY <3>2, ModelTypes DEF StaleInv, TypeOK, Keys
      <4>2. EnvModels[q] # EnvModels[k]
        BY <4>1, ModelTypes DEF EnvModels
      <4> QED BY <1>1, <2>1, <4>1, <4>2
    <3> QED BY <1>1, <3>1, <3>2 DEF StaleInv
  <2>4. ReportInv'
    BY <1>1, <2>1 DEF ReportInv, ReportedExactly
  <2> QED BY <1>3, <2>2, <2>3, <2>4
<1> QED BY <1>4, <1>5

LEMMA ChkAbnmrstStep == Inv /\ ChkAbnmrst => Inv'
<1> SUFFICES ASSUME Inv, ChkAbnmrst PROVE Inv'
  OBVIOUS
<1> USE DEF Inv
<1>1. /\ pc = "abnmrst" /\ mem["sys_s"] = flash["sys_s"]
      /\ UNCHANGED <<flash, flags, host, idle, wake, quiet, last, stale, hasty>>
  BY DEF ChkAbnmrst, MarkInv
<1>2. CASE mem["sys_s"].running
  <2>1. reported' = TRUE /\ pc' = "restore" /\ UNCHANGED <<mem, nth, after>>
    BY <1>2 DEF ChkAbnmrst, storing
  <2>2. TypeOK'
    BY <1>1, <2>1 DEF TypeOK, Running, Models
  <2> QED BY <1>1, <1>2, <2>1, <2>2
          DEF MarkInv, StaleInv, ReportInv, AtWork, Running, CleanMeansWhole, ReportedExactly
<1>3. CASE ~mem["sys_s"].running
  <2>1. /\ mem' = SetStatus(Stopped, TRUE) /\ pc' = "store" /\ nth' = 1 /\ after' = "up"
        /\ reported' = reported
    BY <1>3 DEF ChkAbnmrst, StoreThen
  <2>2. /\ mem'["sys_s"].running = TRUE /\ DOMAIN mem' = Keys
        /\ \A k \in Keys : mem'[k] \in Models[k]
    BY <2>1, StatusSet
  <2>3. TypeOK'
    <3>1. DataTypes'
      BY <1>1, <2>2 DEF TypeOK, DataTypes, Models
    <3>2. PulseTypes' /\ OtherTypes'
      BY <1>1, <2>1 DEF TypeOK, PulseTypes, OtherTypes
    <3> QED BY <3>1, <3>2, TypeParts
  <2> QED BY <1>1, <1>3, <2>1, <2>2, <2>3
          DEF MarkInv, StaleInv, ReportInv, AtWork, Running, CleanMeansWhole, ReportedExactly
<1> QED BY <1>2, <1>3

LEMMA DeleteStep == Inv /\ (DelAfe \/ DelSox) => Inv'
<1> SUFFICES ASSUME Inv,
                    NEW flag, NEW k \in {"afe_cfg", "sox"},
                    pc \in {"del_afe", "del_sox"}, pc' \in {"del_sox", "delay"},
                    flash' = IF flag \in flags THEN [flash EXCEPT ![k] = Default(k)] ELSE flash,
                    UNCHANGED <<ram, storing, history>>
             PROVE  Inv'
  BY DEF DelAfe, DelSox, Delete
<1> USE DEF Inv
<1>1. UNCHANGED <<mem, flags, host, idle, wake, quiet, nth, after, last, reported, stale, hasty>>
  BY DEF ram, storing, history
<1>2. /\ DOMAIN flash' = Keys /\ flash'["sys_s"] = flash["sys_s"]
      /\ \A q \in Keys : flash'[q] \in Models[q]
  BY ModelTypes DEF TypeOK
<1>3. TypeOK'
  BY <1>1, <1>2 DEF TypeOK, Models
<1> QED BY <1>1, <1>2, <1>3
        DEF MarkInv, StaleInv, ReportInv, AtWork, Running, CleanMeansWhole, ReportedExactly

LEMMA ChkStep ==
  Inv /\ (\/ ChkRestore \/ ChkRestart \/ ChkEnvStore \/ ClearStopReset
          \/ \E active \in BOOLEAN : ChkStop(active) \/ ChkWkup(active)) => Inv'
<1>1. ASSUME Inv, ChkRestore PROVE Inv'
  <2>1. /\ pc = "restore" /\ Stopped \in BOOLEAN
        /\ StoreAndRestart(Stopped, "del_afe") \/ (pc' = "stop" /\ UNCHANGED <<mem, storing, stale>>)
        /\ UNCHANGED <<flash, flags, host, idle, wake, quiet, last, reported, hasty>>
    BY <1>1, StatusSet DEF ChkRestore, Inv
  <2>2. TypeOK'
    <3>1. DataTypes' /\ pc' \in Running \cup {"store"} /\ nth' \in 1 .. 4
          /\ after' \in {"up", "restore", "del_afe", "delay"} /\ stale' \in SUBSET DataKeys
      BY <1>1, <2>1, DecisionTypes DEF Inv, Running
    <3> QED BY <1>1, <2>1, <3>1, TypeParts DEF Inv, PulseTypes, OtherTypes
  <2> QED BY <1>1, <2>1, <2>2, RestartStep, WorkStep DEF Running
<1>2. ASSUME Inv, ChkRestart PROVE Inv'
  <2>1. /\ pc = "restart" /\ Stopped \in BOOLEAN
        /\ StoreAndRestart(Stopped, "delay") \/ (pc' = "env_store" /\ UNCHANGED <<mem, storing, stale>>)
        /\ UNCHANGED <<flash, flags, host, idle, wake, quiet, last, reported, hasty>>
    BY <1>2, StatusSet DEF ChkRestart, Inv
  <2>2. TypeOK'
    <3>1. DataTypes' /\ pc' \in Running \cup {"store"} /\ nth' \in 1 .. 4
          /\ after' \in {"up", "restore", "del_afe", "delay"} /\ stale' \in SUBSET DataKeys
      BY <1>2, <2>1, DecisionTypes DEF Inv, Running
    <3> QED BY <1>2, <2>1, <3>1, TypeParts DEF Inv, PulseTypes, OtherTypes
  <2> QED BY <1>2, <2>1, <2>2, RestartStep, WorkStep DEF Running
<1>3. ASSUME Inv, ChkEnvStore PROVE Inv'
  <2>1. TypeOK'
    BY <1>3, LifecycleAssumption DEF ChkEnvStore, StoreThen, storing, history, Inv, TypeOK, Running,
                                     Models
  <2> QED BY <1>3, <2>1, WorkStep DEF ChkEnvStore, StoreThen, history, Running
<1>4. ASSUME Inv, ClearStopReset PROVE Inv'
  <2>1. TypeOK'
    BY <1>4 DEF ClearStopReset, storing, history, Inv, TypeOK, Running, Models
  <2> QED BY <1>4, <2>1, WorkStep DEF ClearStopReset, history, Running
<1>5. ASSUME Inv, NEW active \in BOOLEAN, ChkStop(active) PROVE Inv'
  <2>1. \E next \in {"clear", "wkup"} :
          /\ pc = "stop"
          /\ StoreAndRestart(TRUE, "delay") \/ (pc' = next /\ UNCHANGED <<mem, storing, stale>>)
          /\ UNCHANGED <<flash, flags, host, wake, last, reported>>
    BY <1>5 DEF ChkStop
  <2>2. /\ idle' = idle \/ idle' = IF IdleFor(active) >= StopTime THEN 0 ELSE IdleFor(active)
        /\ quiet' = QuietAfter(active)
    BY <1>5 DEF ChkStop
  <2>3. hasty' \in BOOLEAN
    BY <1>5 DEF ChkStop, Inv, TypeOK
  <2>4. TypeOK'
    <3>1. DataTypes' /\ pc' \in Running \cup {"store"} /\ nth' \in 1 .. 4
          /\ after' \in {"up", "restore", "del_afe", "delay"} /\ stale' \in SUBSET DataKeys
      BY <1>5, <2>1, DecisionTypes DEF Inv, Running
    <3>2. idle' \in 0 .. StopTime - 1 /\ quiet' \in 0 .. Missed
      BY <1>5, <2>2, IdleTypes DEF Inv, TypeOK
    <3>3. Missed' = Missed
      BY DEF Missed
    <3>4. PulseTypes'
      BY <1>5, <2>1, <3>1, <3>2, <3>3 DEF Inv, TypeOK, PulseTypes
    <3>5. OtherTypes'
      BY <1>5, <2>1, <2>3 DEF Inv, TypeOK, OtherTypes
    <3> QED BY <3>1, <3>4, <3>5, TypeParts
  <2> QED BY <1>5, <2>1, <2>4, RestartStep, WorkStep DEF Running
<1>6. ASSUME Inv, NEW active \in BOOLEAN, ChkWkup(active) PROVE Inv'
  <2>1. /\ pc = "wkup"
        /\ StoreAndRestart(FALSE, "delay") \/ (pc' = "restart" /\ UNCHANGED <<mem, storing, stale>>)
        /\ UNCHANGED <<flash, flags, host, idle, quiet, last, reported, hasty>>
    BY <1>6 DEF ChkWkup
  <2>2. wake' = wake \/ wake' = IF active /\ wake + 1 < WkupTime THEN wake + 1 ELSE 0
    BY <1>6 DEF ChkWkup
  <2>3. TypeOK'
    <3>1. DataTypes' /\ pc' \in Running \cup {"store"} /\ nth' \in 1 .. 4
          /\ after' \in {"up", "restore", "del_afe", "delay"} /\ stale' \in SUBSET DataKeys
      BY <1>6, <2>1, DecisionTypes DEF Inv, Running
    <3>2. wake' \in 0 .. WkupTime - 1
      BY <1>6, <2>2, IdleTypes DEF Inv, TypeOK
    <3>3. PulseTypes'
      BY <1>6, <2>1, <3>1, <3>2 DEF Inv, TypeOK, PulseTypes, Missed
    <3>4. OtherTypes'
      BY <1>6, <2>1 DEF Inv, TypeOK, OtherTypes
    <3> QED BY <3>1, <3>3, <3>4, TypeParts
  <2> QED BY <1>6, <2>1, <2>3, RestartStep, WorkStep DEF Running
<1> QED BY <1>1, <1>2, <1>3, <1>4, <1>5, <1>6

LEMMA HostInv == Inv /\ Host => Inv'
<1> SUFFICES ASSUME Inv, Host PROVE Inv'
  OBVIOUS
<1> USE DEF Inv
<1>1. CASE HostWrites
  <2>1. \E k \in DataKeys : \E v \in Models[k] : HostWrite(k, v)
    <3>1. CASE \E k \in Written, v \in Values : HostWrite(k, v)
      <4>1. PICK k \in Written, v \in Values : HostWrite(k, v)
        BY <3>1
      <4>2. k \in DataKeys /\ v \in Models[k]
        BY ModelTypes, LifecycleAssumption DEF DataKeys
      <4> QED BY <4>1, <4>2
    <3>2. CASE \E v \in LockValues : HostWrite("sys_sh", v)
      <4>1. "sys_sh" \in DataKeys /\ Models["sys_sh"] = LockValues
        BY ModelTypes DEF DataKeys
      <4> QED BY <3>2, <4>1
    <3> QED BY <1>1, <3>1, <3>2 DEF HostWrites
  <2>a. PICK k \in DataKeys : \E v \in Models[k] : HostWrite(k, v)
    BY <2>1
  <2>b. PICK v \in Models[k] : HostWrite(k, v)
    BY <2>a
  <2>2. /\ k \in Keys /\ k # "sys_s" /\ host' = "post" /\ mem' = [mem EXCEPT ![k] = v]
        /\ UNCHANGED <<pc, flash, flags, idle, wake, quiet, nth, after, last, reported, stale, hasty>>
    BY <2>b DEF HostWrite, storing, history, Keys, DataKeys
  <2>3. DOMAIN mem' = Keys /\ \A q \in Keys : mem'[q] \in Models[q]
    BY <2>2 DEF TypeOK
  <2>4. TypeOK'
    <3>1. DataTypes'
      BY <2>2, <2>3 DEF TypeOK, DataTypes, Models
    <3>2. PulseTypes' /\ OtherTypes'
      BY <2>2 DEF TypeOK, PulseTypes, OtherTypes
    <3> QED BY <3>1, <3>2, TypeParts
  <2> QED BY <2>2, <2>4, HostStep
<1>2. CASE HostBytes \/ HostPost \/ \E c \in Asked : HostCmd(c)
  <2>1. /\ UNCHANGED <<pc, mem, flash, idle, wake, nth, after, last, reported, stale, hasty>>
        /\ host' \in {"idle", "packet"}
    BY <1>2 DEF HostBytes, HostPost, HostCmd, storing, history
  <2>2. flags' \in SUBSET (Commands \cup {"stop_reset"})
    BY <1>2, LifecycleAssumption DEF HostBytes, HostPost, HostCmd, TypeOK, Commands
  <2>3. quiet' \in 0 .. Missed
    BY <1>2, LifecycleAssumption DEF HostBytes, HostPost, HostCmd, TypeOK, Missed
  <2>4. TypeOK'
    BY <2>1, <2>2, <2>3 DEF TypeOK, Models, Missed
  <2> QED BY <2>1, <2>4, HostStep
<1> QED BY <1>1, <1>2 DEF Host

LEMMA NextInv == Inv /\ [Next]_vars => Inv'
<1> SUFFICES ASSUME Inv, [Next]_vars PROVE Inv'
  OBVIOUS
<1>1. CASE UNCHANGED vars
  BY <1>1 DEF vars, ram, storing, history, Inv, TypeOK, MarkInv, StaleInv, ReportInv, AtWork,
              CleanMeansWhole, ReportedExactly, Models, Missed
<1>2. CASE Next
  BY <1>2, StoreNextStep, ChkAbnmrstStep, DeleteStep, ChkStep, HostInv, ResetStep DEF Next, Pulse
<1> QED BY <1>1, <1>2

LEMMA InvHolds == Spec => []Inv
<1> QED BY InitInv, NextInv, PTL DEF Spec

(* The models keep the sets their values are from, in RAM and in flash, and   *)
(* the accumulators stay below the times they count (pp_continued.c:20).      *)
THEOREM TypeCorrect == Spec => []TypeOK
<1>1. Inv => TypeOK
  BY DEF Inv
<1> QED BY <1>1, InvHolds, PTL

(* A start is logged as abnormal after a crash at work, never after an        *)
(* orderly restart (pp_sys.c:130).                                            *)
THEOREM ReportSafe == Spec => []ReportedExactly
<1>1. Inv => ReportedExactly
  BY DEF Inv, ReportInv
<1> QED BY <1>1, InvHolds, PTL

(* An environment marked as left properly has no model older than the         *)
(* restart that marked it (pp_env.c:14).                                      *)
THEOREM CleanSafe == Spec => []CleanMeansWhole
<1>1. Inv => CleanMeansWhole
  BY DEF Inv, StaleInv
<1> QED BY <1>1, InvHolds, PTL

----------------------------------------------------------------------------
(* What is not stored is pending *)

LEMMA PendingStep == TypeOK /\ DirtyMeansPending /\ [Next]_vars => DirtyMeansPending'
<1> SUFFICES ASSUME TypeOK, DirtyMeansPending, [Next]_vars,
                    NEW k \in DataKeys, flash'[k] # mem'[k]
             PROVE  \/ "store" \in flags'
                    \/ host' = "post"
                    \/ pc' = "store" /\ EnvModels[k] >= nth'
                    \/ pc' \in {"del_sox", "delay"} /\ flash'[k] = Default(k)
  BY DEF DirtyMeansPending
<1>1. k \in Keys /\ k # "sys_s" /\ DOMAIN mem = Keys /\ DOMAIN flash = Keys /\ EnvModels[k] \in 1 .. 4
  BY ModelTypes DEF TypeOK, Keys, DataKeys
<1>2. CASE UNCHANGED vars
  BY <1>2 DEF vars, ram, storing, history, DirtyMeansPending
<1>3. CASE Crash \/ McuRestart
  BY <1>3 DEF Crash, McuRestart, Start
<1>4. CASE StoreNext
  <2>1. PICK q \in Keys : EnvModels[q] = nth /\ flash' = [flash EXCEPT ![q] = mem[q]]
    BY <1>4 DEF StoreNext
  <2>2. /\ UNCHANGED <<mem, flags, host>>
        /\ IF nth = 4 THEN TRUE ELSE nth' = nth + 1 /\ pc' = "store"
    BY <1>4 DEF StoreNext, ram
  <2>3. q # k /\ flash[k] # mem[k] /\ EnvModels[k] # nth
    BY <1>1, <2>1, <2>2, ModelTypes DEF EnvModels
  <2>4. pc = "store" /\ nth \in 1 .. 4
    BY <1>4 DEF StoreNext, TypeOK
  <2> QED BY <1>1, <2>2, <2>3, <2>4 DEF DirtyMeansPending
<1>5. CASE DelAfe \/ DelSox
  <2>1. UNCHANGED <<mem, flags, host>>
    BY <1>5 DEF DelAfe, DelSox, Delete, ram
  <2>2. /\ pc \in {"del_afe", "del_sox"} /\ pc' \in {"del_sox", "delay"}
        /\ flash'[k] = Default(k) \/ flash'[k] = flash[k]
    BY <1>1, <1>5 DEF DelAfe, DelSox, Delete
  <2> QED BY <2>1, <2>2 DEF DirtyMeansPending
<1>6. CASE ChkAbnmrst \/ ChkRestore \/ ChkRestart \/ ChkEnvStore
           \/ (\E active \in BOOLEAN : ChkStop(active) \/ ChkWkup(active))
  <2>1. /\ mem'[k] = mem[k] /\ flash' = flash /\ host' = host
        /\ flags' = flags \/ (pc' = "store" /\ nth' = 1)
        /\ pc \notin {"store", "del_sox", "delay"}
    BY <1>1, <1>6 DEF ChkAbnmrst, ChkRestore, ChkRestart, ChkEnvStore, ChkStop, ChkWkup,
                      StoreAndRestart, StoreThen, SetStatus
  <2> QED BY <1>1, <2>1 DEF DirtyMeansPending
<1>7. CASE ClearStopReset
  <2>1. /\ mem' = mem /\ flash' = flash /\ host' = host /\ pc = "clear"
        /\ "store" \in flags => "store" \in flags'
    BY <1>7 DEF ClearStopReset
  <2> QED BY <2>1 DEF DirtyMeansPending
<1>8. CASE Host
  <2>1. CASE HostWrites
    BY <2>1 DEF HostWrites, HostWrite
  <2>2. CASE HostPost
    BY <2>2 DEF HostPost
  <2>3. CASE HostBytes
    BY <2>3 DEF HostBytes, DirtyMeansPending, storing, history
  <2>4. CASE \E c \in Asked : HostCmd(c)
    BY <2>4 DEF HostCmd, DirtyMeansPending, storing, history
  <2> QED BY <1>8, <2>1, <2>2, <2>3, <2>4 DEF Host
<1> QED BY <1>2, <1>3, <1>4, <1>5, <1>6, <1>7, <1>8 DEF Next, Pulse

(* What the host has written and the flash does not hold is still going to be *)
(* stored (pp_sys.c:90).                                                      *)
THEOREM PendingSafe == Spec => []DirtyMeansPending
<1>1. Init => DirtyMeansPending
  BY DEF Init, DirtyMeansPending, Keys
<1> QED BY <1>1, PendingStep, TypeCorrect, PTL DEF Spec

----------------------------------------------------------------------------
(* The time before an automatic stop *)

(* A restart is on its way: idle counts nothing any more. *)
Leaving ==
  \/ pc \in {"del_afe", "del_sox", "delay"}
  \/ pc = "store" /\ after \in {"del_afe", "delay"}

(* No more time is counted than host and battery have been quiet. *)
Calm == quiet = Missed \/ idle <= quiet

(* While the MOS are locked idle stands still, so that the battery may get it *)
(* out of step; the bytes of the packet that takes the locks back, which      *)
(* nobody clears as long as they are held, make good for it.                  *)
QuietInv ==
  Leaving \/
    /\ Stopped => idle = 0
    /\ pc = "clear" => Calm
    /\ Calm \/ "stop_reset" \in flags \/ (Locked /\ host # "packet")
    /\ Locked /\ host = "packet" =>
         quiet = Missed \/ Stopped \/ ("stop_reset" \in flags /\ pc # "clear")

HasteInv == NeverHasty /\ QuietInv

(* One pulse's test, where it ends in no stop and where it does *)
LEMMA StopHaste ==
  ASSUME TypeOK, HasteInv, NEW active \in BOOLEAN, ChkStop(active)
  PROVE  HasteInv'
<1> USE DEF HasteInv
<1>1. /\ StopTime \in Nat /\ StopTime > 0 /\ Missed = StopTime + 1 /\ Missed' = Missed
      /\ idle \in 0 .. StopTime - 1 /\ quiet \in 0 .. Missed
  BY LifecycleAssumption DEF TypeOK, Missed
<1>2. /\ pc = "stop" /\ quiet' = QuietAfter(active)
      /\ UNCHANGED <<flags, host>>
      /\ ~Leaving
  BY DEF ChkStop, Leaving
<1>3. CASE Stopped \/ Locked
  <2>1. pc' = "wkup" /\ UNCHANGED <<mem, idle, hasty>>
    BY <1>3 DEF ChkStop
  <2>2. quiet = Missed => quiet' = Missed
    BY <1>2, <1>3 DEF QuietAfter
  <2>3. Locked \/ idle' <= quiet' \/ quiet' = Missed
    <3>1. CASE Locked
      BY <3>1
    <3>2. CASE ~Locked
      <4>1. idle = 0
        BY <1>2, <1>3, <3>2 DEF QuietInv
      <4>2. quiet' \in 0 .. Missed
        BY <1>2, IdleTypes
      <4> QED BY <2>1, <4>1, <4>2
    <3> QED BY <3>1, <3>2
  <2>4. Calm' \/ "stop_reset" \in flags' \/ (Locked' /\ host' # "packet")
    <3>1. CASE Locked /\ host = "packet" /\ ~("stop_reset" \in flags)
      <4>1. quiet = Missed \/ idle = 0
        BY <1>2, <3>1 DEF QuietInv
      <4>2. quiet' \in 0 .. Missed
        BY <1>2, IdleTypes
      <4> QED BY <1>1, <2>1, <2>2, <4>1, <4>2 DEF Calm
    <3>2. CASE ~(Locked /\ host = "packet" /\ ~("stop_reset" \in flags))
      BY <1>1, <1>2, <2>1, <2>3, <3>2 DEF Calm, Locked
    <3> QED BY <3>1, <3>2
  <2> QED BY <1>1, <1>2, <2>1, <2>2, <2>4 DEF QuietInv, NeverHasty, Stopped, Locked
<1>4. CASE ~Stopped /\ ~Locked
  <2>1. /\ idle' = IF IdleFor(active) >= StopTime THEN 0 ELSE IdleFor(active)
        /\ hasty' = (hasty \/ (IdleFor(active) >= StopTime /\ quiet' < StopTime))
        /\ \/ pc' = "store" /\ after' = "delay"
           \/ pc' = "clear" /\ mem' = mem
    BY <1>4 DEF ChkStop, StoreAndRestart, StoreThen
  <2>2. "stop_reset" \notin flags => Calm
    BY <1>2, <1>4 DEF QuietInv
  <2>3. /\ quiet' = Missed \/ idle' <= quiet'
        /\ IdleFor(active) >= StopTime => quiet' >= StopTime
    <3>1. quiet' \in 0 .. Missed
      BY <1>2, IdleTypes
    <3>2. CASE active \/ "stop_reset" \in flags
      <4>1. IdleFor(active) = 0
        BY <3>2 DEF IdleFor
      <4> QED BY <1>1, <2>1, <3>1, <4>1
    <3>3. CASE ~active /\ "stop_reset" \notin flags
      <4>1. IdleFor(active) = idle + 1
        BY <3>3 DEF IdleFor
      <4>2. CASE quiet = Missed
        <5>1. quiet' = Missed
          BY <1>1, <1>2, <4>1, <4>2 DEF QuietAfter
        <5> QED BY <1>1, <5>1
      <4>3. CASE quiet # Missed
        <5>1. quiet' = IF quiet < StopTime THEN quiet + 1 ELSE quiet
          BY <1>2, <3>3, <4>3 DEF QuietAfter
        <5>2. idle <= quiet
          BY <2>2, <3>3, <4>3 DEF Calm
        <5> QED BY <1>1, <2>1, <4>1, <5>1, <5>2
      <4> QED BY <4>2, <4>3
    <3> QED BY <3>2, <3>3
  <2>4. NeverHasty'
    <3>1. quiet' \in 0 .. Missed
      BY <1>2, IdleTypes
    <3>2. ~(IdleFor(active) >= StopTime /\ quiet' < StopTime)
      BY <1>1, <2>3, <3>1
    <3> QED BY <2>1, <3>2, Zenon DEF NeverHasty
  <2>5. Calm'
    BY <1>1, <2>3 DEF Calm
  <2>6. CASE pc' = "store" /\ after' = "delay"
    BY <2>4, <2>6 DEF QuietInv, Leaving
  <2>7. CASE pc' = "clear" /\ mem' = mem
    BY <1>4, <2>4, <2>5, <2>7 DEF QuietInv, Stopped, Locked
  <2> QED BY <2>1, <2>6, <2>7
<1> QED BY <1>3, <1>4

LEMMA HostHaste == TypeOK /\ HasteInv /\ Host => HasteInv'
<1> SUFFICES ASSUME TypeOK, HasteInv, Host PROVE HasteInv'
  OBVIOUS
<1> USE DEF HasteInv
<1>1. /\ UNCHANGED <<pc, idle, nth, after, hasty>>
      /\ Leaving' <=> Leaving
      /\ Missed' = Missed
  BY DEF Host, HostBytes, HostWrites, HostWrite, HostPost, HostCmd, storing, history, Leaving,
         Missed
<1>2. CASE Leaving
  BY <1>1, <1>2 DEF QuietInv, NeverHasty
<1>3. CASE ~Leaving /\ HostBytes
  <2>1. /\ host' = "packet" /\ mem' = mem
        /\ Stopped \/ "stop_reset" \in flags'
        /\ quiet' = IF pc = "clear" THEN Missed ELSE 0
    BY <1>3 DEF HostBytes
  <2>2. Stopped => idle = 0
    BY <1>3 DEF QuietInv
  <2>3. Stopped => Calm'
    BY <1>1, <2>1, <2>2, LifecycleAssumption DEF Calm, Missed
  <2> QED BY <1>1, <1>3, <2>1, <2>2, <2>3 DEF QuietInv, NeverHasty, Calm, Stopped, Locked
<1>4. CASE ~Leaving /\ HostWrites
  <2>1. /\ host = "packet" /\ host' = "post" /\ UNCHANGED <<flags, quiet>>
        /\ mem'["sys_s"] = mem["sys_s"]
    BY <1>4, LifecycleAssumption, ModelTypes DEF HostWrites, HostWrite, TypeOK
  <2>2. Calm' <=> Calm
    BY <1>1, <2>1 DEF Calm
  <2> QED BY <1>1, <1>4, <2>1, <2>2 DEF QuietInv, NeverHasty, Stopped
<1>5. CASE ~Leaving /\ (HostPost \/ \E c \in Asked : HostCmd(c))
  <2>1. /\ host' = "idle" /\ UNCHANGED <<mem, quiet>>
        /\ "stop_reset" \in flags => "stop_reset" \in flags'
    BY <1>5 DEF HostPost, HostCmd
  <2>2. Calm' <=> Calm
    BY <1>1, <2>1 DEF Calm
  <2> QED BY <1>1, <1>5, <2>1, <2>2 DEF QuietInv, NeverHasty, Stopped, Locked
<1> QED BY <1>2, <1>3, <1>4, <1>5 DEF Host

LEMMA HasteStep == TypeOK /\ HasteInv /\ [Next]_vars => HasteInv'
<1> SUFFICES ASSUME TypeOK, HasteInv, [Next]_vars PROVE HasteInv'
  OBVIOUS
<1> USE DEF HasteInv
<1>1. CASE UNCHANGED vars
  BY <1>1 DEF vars, ram, storing, history, NeverHasty, QuietInv, Leaving, Calm, Stopped, Locked,
              Missed
<1>2. CASE Crash \/ McuRestart
  <2>1. /\ pc' = "abnmrst" /\ host' = "idle" /\ idle' = 0 /\ quiet' = 0 /\ hasty' = hasty
    BY <1>2 DEF Crash, McuRestart, Start
  <2> QED BY <2>1 DEF NeverHasty, QuietInv, Calm
<1>3. CASE StoreNext
  <2>1. /\ pc = "store" /\ pc' \in {"store", "restore", after} /\ UNCHANGED <<ram, after, hasty>>
        /\ pc' = "restore" => after = "up" \/ pc' = after
        /\ after \in {"up", "restore", "del_afe", "delay"}
        /\ pc' # "up"
    BY <1>3 DEF StoreNext, TypeOK
  <2>2. /\ Leaving => Leaving'
        /\ pc' # "clear"
    BY <2>1 DEF Leaving
  <2> QED BY <2>1, <2>2 DEF ram, NeverHasty, QuietInv, Calm, Stopped, Locked, Missed
<1>4. CASE DelAfe \/ DelSox
  BY <1>4 DEF DelAfe, DelSox, Delete, history, NeverHasty, QuietInv, Leaving
<1>5. CASE ChkAbnmrst
  <2>1. /\ ~Leaving /\ pc' # "clear" /\ UNCHANGED <<idle, quiet, flags, host, hasty>>
        /\ Stopped' = Stopped /\ Locked' = Locked
    <3>1. mem' = mem \/ mem' = SetStatus(Stopped, TRUE)
      BY <1>5 DEF ChkAbnmrst
    <3>2. Stopped' = Stopped /\ Locked' = Locked
      BY <3>1, ModelTypes DEF SetStatus, Stopped, Locked, TypeOK
    <3> QED BY <1>5, <3>2 DEF ChkAbnmrst, StoreThen, Leaving
  <2> QED BY <2>1 DEF NeverHasty, QuietInv, Calm, Missed
<1>6. CASE ChkRestore \/ ChkRestart \/ ChkEnvStore \/ (\E active \in BOOLEAN : ChkWkup(active))
  <2>1. /\ ~Leaving /\ UNCHANGED <<idle, quiet, host, hasty>>
        /\ "stop_reset" \in flags => "stop_reset" \in flags'
        /\ Leaving' \/ (pc' # "clear" /\ mem' = mem)
    BY <1>6 DEF ChkRestore, ChkRestart, ChkEnvStore, ChkWkup, StoreAndRestart, StoreThen, Leaving,
                storing, history
  <2> QED BY <2>1 DEF NeverHasty, QuietInv, Calm, Missed, Stopped, Locked
<1>7. CASE ClearStopReset
  <2>1. /\ pc = "clear" /\ pc' = "wkup" /\ UNCHANGED <<mem, host, idle, quiet, hasty>>
    BY <1>7 DEF ClearStopReset, history
  <2>2. ~Leaving
    BY <2>1 DEF Leaving
  <2> QED BY <2>1, <2>2 DEF NeverHasty, QuietInv, Calm, Missed, Stopped, Locked
<1>8. CASE \E active \in BOOLEAN : ChkStop(active)
  BY <1>8, StopHaste
<1>9. CASE Host
  BY <1>9, HostHaste
<1> QED BY <1>1, <1>2, <1>3, <1>4, <1>5, <1>6, <1>7, <1>8, <1>9 DEF Next, Pulse

(* The system does not stop by itself before host and battery have been quiet *)
(* for the whole time (pp_sys.c:30).                                          *)
THEOREM HasteSafe == Spec => []NeverHasty
<1>1. Init => HasteInv
  BY DEF Init, HasteInv, NeverHasty, QuietInv, Calm
<1>2. HasteInv => NeverHasty
  BY DEF HasteInv
<1> QED BY <1>1, <1>2, HasteStep, TypeCorrect, PTL DEF Spec

=============================================================================
