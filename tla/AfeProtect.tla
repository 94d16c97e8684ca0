---------------------------- MODULE AfeProtect -----------------------------
(***************************************************************************)
(* The protection pulse of the battery (pp_afe.c, pp_afe_soft_s.c,         *)
(* pp_afe_soft_o.c, pp_afe_soft_r.c, pp_afe_chip.c): every cycle the       *)
(* thread pulse_e samples the AFE chip, debounces the protection statuses, *)
(* derives can_dsg and can_chg, then walks the table of MOS operations one *)
(* edge at a time and finally applies the automatic MOS control.  The host *)
(* thread has the same priority and writes _sys, _afe_cfg and the          *)
(* persistent statuses of _afe between any two steps.                      *)
(*                                                                         *)
(* The AFE chip is external: its readings are chosen at every sample.      *)
(***************************************************************************)
EXTENDS Integers, Sequences, FiniteSets, Continued

CONSTANTS
  Order,        \* the enabled operations, in program order
  DsgOpr,       \* statuses whose edges operate the discharge MOS
  ChgOpr,       \* statuses whose edges operate the charge MOS
  DsgGroup,     \* statuses that clear can_dsg (chdsg and dsg)
  ChgGroup,     \* statuses that clear can_chg (chdsg and chg)
  Chip,         \* statuses the chip reports, no detector in software
  Detected,     \* statuses with a software detector
  Latching,     \* detectors that never release
  EnvWritable,  \* statuses the host may write
  Delay,        \* Delay[p]: debounce of detector p, in AFE cycles
  MembersOf,    \* MembersOf[p]: the statuses p is the OR of, {} if none
  IdleTime,     \* the 60 s of the automatic switch-off, in AFE cycles
  Samples,      \* the chip's MOS, load and charger readings
  LockValues,   \* values the host writes to mos_lock_dsg and mos_lock_chg
  SmartValues,  \* values the host writes to smart_mos_off_flag
  DsgIgnored    \* PP_PCB_AFE_PDSG_IGNORE_DSG_PROTECTION is defined

N == Len(Order)
Operated == {Order[i] : i \in 1..N}
Status == DsgGroup \cup ChgGroup

ASSUME TableAssumption ==
  /\ Order \in Seq(Status)
  /\ \A i, j \in 1..N : Order[i] = Order[j] => i = j
  /\ DsgOpr \subseteq Operated
  /\ ChgOpr \subseteq Operated
  /\ Chip \cap Detected = {}
  /\ Operated \subseteq Detected
  /\ Chip \cup Detected \subseteq Status

ASSUME DataAssumption ==
  /\ Delay \in [Detected -> Nat]
  /\ MembersOf \in [Detected -> SUBSET Status]
  /\ IdleTime \in Nat
  /\ Samples \subseteq [pdsg : BOOLEAN, ldon : BOOLEAN, chgrin : BOOLEAN]
  /\ LockValues \subseteq BOOLEAN
  /\ SmartValues \subseteq BOOLEAN
  /\ DsgIgnored \in BOOLEAN

VARIABLES
  pc,           \* the next step of the pulse thread
  k,            \* the next operation of the table
  status,       \* _afe.<n>_status
  tms, rms,     \* the detectors' two accumulators
  old,          \* the static old_<n>_status of _AFE_MOS_OPR4STATUS
  can,          \* _afe.can_dsg, _afe.can_chg
  ctl,          \* _afe.dsg_mos_ctl, chg_mos_ctl, pdsg_mos_ctl
  pdsg_cmd,     \* what this pulse sent with pp_afe_chip_pdsg_ctl
  sys_mos_lock, \* _afe.sys_mos_lock[0], the only type the program uses
  chip,         \* pdsg_mos, ldon and chgrin statuses at the last sample
  flag,         \* pdsg_mos_off_flag, ldon_flag, chgrin_flag
  afe_times,    \* _afe.afe_times
  idle_ms,      \* accumulators of the two automatic switch-offs
  mos_lock,     \* _sys.mos_lock_dsg, _sys.mos_lock_chg
  smart_off,    \* _afe_cfg.smart_mos_off_flag
  first_cycle   \* _sys.first_cycle_flag

pulse == <<pc, k, status, tms, rms, old, can, ctl, pdsg_cmd, sys_mos_lock,
           chip, flag, afe_times, idle_ms, first_cycle>>
host == <<mos_lock, smart_off>>
vars == <<pulse, host>>
control == <<ctl, pdsg_cmd, sys_mos_lock>>
detectors == <<status, tms, rms>>
samples == <<chip, flag, can, afe_times>>

PC == {"wait", "detect", "evaluate", "operate", "idle_dsg", "idle_chg",
       "chgrin", "ldon", "pdsg_off", "first", "export"}

TypeOK ==
  /\ pc \in PC
  /\ k \in 0..(N + 1)
  /\ status \in [Status -> BOOLEAN]
  /\ tms \in [Detected -> Nat] /\ rms \in [Detected -> Nat]
  /\ old \in [Operated -> BOOLEAN]
  /\ can \in [dsg : BOOLEAN, chg : BOOLEAN]
  /\ ctl \in [dsg : BOOLEAN, chg : BOOLEAN, pdsg : BOOLEAN]
  /\ pdsg_cmd \in {"none", "on", "off"}
  /\ sys_mos_lock \in BOOLEAN
  /\ chip \in [pdsg : BOOLEAN, ldon : BOOLEAN, chgrin : BOOLEAN]
  /\ flag \in [pdsg_off : BOOLEAN, ldon : BOOLEAN, chgrin : BOOLEAN]
  /\ afe_times \in {1, 4}
  /\ idle_ms \in [dsg : Nat, chg : Nat]
  /\ mos_lock \in [dsg : BOOLEAN, chg : BOOLEAN]
  /\ smart_off \in BOOLEAN
  /\ first_cycle \in BOOLEAN

\* A boot: statics are zero, the persistent fields are whatever flash held.
Init ==
  /\ pc = "wait" /\ k = N + 1
  /\ \E kept \in SUBSET (EnvWritable \cap Status) :
       status = [p \in Status |-> p \in kept]
  /\ tms = [p \in Detected |-> 0] /\ rms = [p \in Detected |-> 0]
  /\ old = [p \in Operated |-> FALSE]
  /\ can = [dsg |-> FALSE, chg |-> FALSE]
  /\ ctl = [dsg |-> FALSE, chg |-> FALSE, pdsg |-> FALSE]
  /\ pdsg_cmd = "none"
  /\ sys_mos_lock = FALSE
  /\ chip = [pdsg |-> FALSE, ldon |-> FALSE, chgrin |-> FALSE]
  /\ flag = [pdsg_off |-> FALSE, ldon |-> FALSE, chgrin |-> FALSE]
  /\ afe_times = 1
  /\ idle_ms = [dsg |-> 0, chg |-> 0]
  /\ mos_lock \in [dsg : LockValues, chg : LockValues]
  /\ smart_off \in SmartValues
  /\ first_cycle = TRUE

-----------------------------------------------------------------------------
(* pp_afe_mos_ctl(dsg, chg, pdsg, type): a request is On, Off or Keep (-1). *)
On == 1
Off == 0
Keep == -1

\* Mutant: a switch-on that asks nobody.
SwitchedUnchecked(req, now, allowed) == req = On \/ (now /\ req # Off)

Switched(req, now, allowed) == IF req = On THEN now \/ allowed ELSE now /\ req # Off

MosCtl(dsg, chg, pdsg, type) ==
  LET lock_d == IF type >= 0 /\ dsg # Keep THEN dsg = Off ELSE sys_mos_lock
      lock_c == IF type >= 0 /\ chg # Keep THEN chg = Off ELSE lock_d
      pre    == Switched(pdsg, ctl.pdsg, ~mos_lock.dsg /\ (DsgIgnored \/ can.dsg))
  IN  /\ sys_mos_lock' = lock_c
      /\ ctl' = [dsg  |-> Switched(dsg, ctl.dsg, ~mos_lock.dsg /\ ~lock_d /\ can.dsg),
                 chg  |-> Switched(chg, ctl.chg, ~mos_lock.chg /\ ~lock_c /\ can.chg),
                 pdsg |-> pre]
      /\ pdsg_cmd' = IF pdsg = Keep THEN pdsg_cmd ELSE IF pre THEN "on" ELSE "off"

MosCtlIf(cond, dsg, chg, pdsg, type) ==
  IF cond THEN MosCtl(dsg, chg, pdsg, type) ELSE UNCHANGED control

-----------------------------------------------------------------------------
(* The pulse thread. *)

\* The wait for the chip ends and the flag half of the pulse runs.  A chip
\* reset (por_flag) re-applies the user's locks.  A pulse with flags and no
\* data ends here; one with neither is a timeout and counts for 4 cycles.
Flag(has_data, has_flag, por_flag) ==
  /\ pc = "wait"
  /\ pc' = IF has_flag /\ ~has_data THEN "wait" ELSE "detect"
  /\ afe_times' = CyclesAfter(afe_times, ~has_flag /\ ~has_data)
  /\ ctl' = [ctl EXCEPT !.dsg = @ /\ ~(por_flag /\ mos_lock.dsg),
                        !.chg = @ /\ ~(por_flag /\ mos_lock.chg)]
  /\ pdsg_cmd' = "none"
  /\ UNCHANGED <<k, detectors, old, can, sys_mos_lock, chip, flag, idle_ms,
                 first_cycle, host>>

\* What detector p sees: the OR of its members, or a threshold comparison.
Trig(p, cond, now) ==
  IF MembersOf[p] # {} THEN \E m \in MembersOf[p] : now[m] ELSE cond = "trip"

Rls(p, cond, now) ==
  IF MembersOf[p] # {} THEN \A m \in MembersOf[p] : ~now[m]
                       ELSE cond = "release" /\ p \notin Latching

Detector(p, trig, rls) ==
  StatusSet([status |-> status[p], tms |-> tms[p], rms |-> rms[p]],
            trig, rls, Delay[p], afe_times)

Single == {p \in Detected : MembersOf[p] = {}}

\* The detectors with readings of their own.  cond[p] is the reading against
\* the two thresholds of p.  The short of the precharge is looked at when its
\* MOS has just opened, and released by ldoff, which may be up in that pulse.
SingleAfter(off, cond, ldoff) ==
  [p \in Single |->
     IF p = "pdsg_scd" THEN Detector(p, off /\ cond[p] = "trip", ldoff)
     ELSE Detector(p, Trig(p, cond[p], status), Rls(p, cond[p], status))]

\* The statuses before the detectors that combine others, and all detectors.
Cells(reported, single) ==
  [p \in Status |-> IF p \in Chip THEN reported[p]
                    ELSE IF p \in Single THEN single[p].status ELSE status[p]]

After(single, cells) ==
  [p \in Detected |-> IF p \in Single THEN single[p]
                      ELSE Detector(p, Trig(p, "hold", cells), Rls(p, "hold", cells))]

\* pp_afe_soft_set4data up to line 205: the edges of the chip's statuses and
\* every detector, for one set of readings.
DetectWith(sample, reported, cond, ldoff) ==
  LET off    == chip.pdsg /\ ~sample.pdsg
      single == SingleAfter(off, cond, ldoff)
      cells  == Cells(reported, single)
      after  == After(single, cells)
  IN  /\ flag' = [pdsg_off |-> off,
                  ldon     |-> ~chip.ldon /\ sample.ldon,
                  chgrin   |-> ~chip.chgrin /\ sample.chgrin]
      /\ chip' = sample
      /\ status' = [p \in Status |-> IF p \in Detected THEN after[p].status ELSE cells[p]]
      /\ tms' = [p \in Detected |-> after[p].tms]
      /\ rms' = [p \in Detected |-> after[p].rms]

Detect ==
  /\ pc = "detect"
  /\ \E sample \in Samples, reported \in [Chip -> BOOLEAN],
        cond \in [Single -> {"trip", "hold", "release"}], ldoff \in BOOLEAN :
       /\ "pdsg_scd" \notin Detected => ~ldoff
       /\ DetectWith(sample, reported, cond, ldoff)
  /\ pc' = "evaluate" /\ k' = 0
  /\ UNCHANGED <<old, can, control, afe_times, idle_ms, first_cycle, host>>

\* pp_afe_soft_set4data from line 206: may the pack discharge, may it charge.
Evaluate ==
  /\ pc = "evaluate"
  /\ can' = [dsg |-> \A p \in DsgGroup : ~status[p],
             chg |-> \A p \in ChgGroup : ~status[p]]
  /\ pc' = "operate" /\ k' = 1
  /\ UNCHANGED <<detectors, old, control, chip, flag, afe_times, idle_ms,
                 first_cycle, host>>

\* Mutants: the edge is answered with the status before it, only a trip is
\* answered, only a release is.
RequestBefore(p, opr) == IF p \notin opr THEN Keep ELSE IF old[p] THEN Off ELSE On
RequestTrip(p, opr) == IF p \notin opr \/ ~status[p] THEN Keep ELSE Off
RequestRelease(p, opr) == IF p \notin opr \/ status[p] THEN Keep ELSE On

Request(p, opr) == IF p \notin opr THEN Keep ELSE IF status[p] THEN Off ELSE On

\* One _AFE_MOS_OPR4STATUS: an edge of the status asks for its MOSs once.
Operate ==
  /\ pc = "operate" /\ k <= N
  /\ LET p == Order[k]
     IN  /\ MosCtlIf(status[p] # old[p], Request(p, DsgOpr), Request(p, ChgOpr), Keep, -1)
         /\ old' = [old EXCEPT ![p] = status[p]]
  /\ k' = k + 1
  /\ UNCHANGED <<pc, detectors, samples, idle_ms, first_cycle, host>>

\* The automatic MOS control is chosen by smart_mos_off_flag, read once.
AutoMos ==
  /\ pc = "operate" /\ k = N + 1
  /\ pc' = IF smart_off THEN "first" ELSE "idle_dsg"
  /\ UNCHANGED <<k, detectors, old, control, samples, idle_ms, first_cycle, host>>

Step(from, to) ==
  /\ pc = from /\ pc' = to
  /\ UNCHANGED <<k, detectors, old, samples, first_cycle, host>>

\* A path that is closed and unused (dsg_mos_status, bat_status: chip readings)
\* for IdleTime is opened and locked by the system.
IdleDsg ==
  /\ Step("idle_dsg", "idle_chg")
  /\ \E unused \in BOOLEAN :
       /\ MosCtlIf(Fires(idle_ms.dsg, unused, IdleTime, afe_times), Off, Keep, Keep, 0)
       /\ idle_ms' = [idle_ms EXCEPT !.dsg = Accumulated(@, unused, IdleTime, afe_times)]

IdleChg ==
  /\ Step("idle_chg", "chgrin")
  /\ \E unused \in BOOLEAN :
       /\ MosCtlIf(Fires(idle_ms.chg, unused, IdleTime, afe_times), Keep, Off, Keep, 0)
       /\ idle_ms' = [idle_ms EXCEPT !.chg = Accumulated(@, unused, IdleTime, afe_times)]

ChargerIn ==
  /\ Step("chgrin", "ldon")
  /\ MosCtlIf(flag.chgrin, Keep, On, Keep, 0)
  /\ UNCHANGED idle_ms

LoadOn ==
  /\ Step("ldon", "pdsg_off")
  /\ MosCtlIf(~flag.pdsg_off /\ flag.ldon, Keep, Keep, On, 0)
  /\ UNCHANGED idle_ms

PdsgOff ==
  /\ Step("pdsg_off", "export")
  /\ MosCtlIf(flag.pdsg_off, On, Keep, Keep, 0)
  /\ UNCHANGED idle_ms

FirstCycle ==
  /\ Step("first", "export")
  /\ MosCtlIf(first_cycle, On, On, Keep, 0)
  /\ UNCHANGED idle_ms

\* pp_export_f_pulse: _sys_chk ends the first cycle.
Export ==
  /\ pc = "export"
  /\ pc' = "wait"
  /\ first_cycle' = FALSE
  /\ UNCHANGED <<k, detectors, old, control, samples, idle_ms, host>>

-----------------------------------------------------------------------------
(* The host thread: writes of models 01, 03 and 04, at any moment. *)

HostLock ==
  /\ \E d, c \in LockValues : mos_lock' = [dsg |-> d, chg |-> c]
  /\ UNCHANGED <<pulse, smart_off>>

HostSmart ==
  /\ smart_off' \in SmartValues
  /\ UNCHANGED <<pulse, mos_lock>>

HostEnv ==
  /\ \E p \in EnvWritable \cap Status, v \in BOOLEAN : status' = [status EXCEPT ![p] = v]
  /\ UNCHANGED <<pc, k, tms, rms, old, control, samples, idle_ms, first_cycle, host>>

Pulse ==
  \/ \E has_data, has_flag, por_flag \in BOOLEAN : Flag(has_data, has_flag, por_flag)
  \/ Detect \/ Evaluate \/ Operate \/ AutoMos
  \/ IdleDsg \/ IdleChg \/ ChargerIn \/ LoadOn \/ PdsgOff \/ FirstCycle
  \/ Export

Next == Pulse \/ HostLock \/ HostSmart \/ HostEnv

Spec == Init /\ [][Next]_vars

\* The thread is created at start-up and never leaves its loop (pp_afe.c:23).
FairSpec == Spec /\ WF_vars(Pulse)

-----------------------------------------------------------------------------
(* Properties. *)

\* The operated statuses only the pulse thread writes.
Guarded == Operated \ EnvWritable

\* The paths p both operates and forbids are not switched on.
PathsOpen(p) ==
  /\ p \in DsgOpr \cap DsgGroup => ~ctl.dsg
  /\ p \in ChgOpr \cap ChgGroup => ~ctl.chg

\* When a pulse is over no path conducts through a standing protection that
\* operates it: neither a protection that releases later in the same pulse,
\* nor the automatic control, nor a request of an earlier pulse has closed the
\* MOS again (pp_afe_soft_opr4data).  A status the host may raise in the middle
\* of a pulse is out of scope, and so is the charge side of uv2, which operates
\* the charge MOS without being in its group.
NoConductWhileTripped ==
  pc = "wait" =>
    \A p \in Guarded : status[p] => PathsOpen(p)

\* Why it holds: the position in the table is tied to the step; an operation
\* behind the position has consumed its edge; can_dsg and can_chg speak of the
\* statuses as they are, except between the detectors and Evaluate; and a
\* status whose trip has been consumed keeps its paths open.
PulseInv ==
  /\ pc = "evaluate" => k = 0
  /\ pc = "operate" => k >= 1
  /\ pc \notin {"evaluate", "operate"} => k = N + 1
  /\ \A i \in 1..N : i < k /\ Order[i] \in Guarded => old[Order[i]] = status[Order[i]]
  /\ pc # "evaluate" =>
       /\ can.dsg => \A p \in DsgGroup \ EnvWritable : ~status[p]
       /\ can.chg => \A p \in ChgGroup \ EnvWritable : ~status[p]
  /\ \A p \in Guarded : status[p] /\ old[p] => PathsOpen(p)

\* The lock the automatic control takes when it opens an unused path is shared
\* by both paths: while it is held one of them is open, whatever releases of
\* protections ask for in between (pp_afe_mos_ctl).
SysLockMeansOpen == sys_mos_lock => ~ctl.dsg \/ ~ctl.chg

\* A protection that trips opens its path, or is released first, although the
\* host locks paths, switches the automatic control and overwrites statuses of
\* its own in the middle of the pulse, and releases of those ask for the same
\* path (pp_afe_soft_opr4data, _AFE_MOS_OPR4STATUS).
TripOpensPath ==
  \A p \in Guarded :
    /\ p \in DsgOpr \cap DsgGroup => (status[p] ~> ~status[p] \/ ~ctl.dsg)
    /\ p \in ChgOpr \cap ChgGroup => (status[p] ~> ~status[p] \/ ~ctl.chg)

\* The precharge MOS is commanded on only while discharging is allowed, unless
\* the build defines PP_PCB_AFE_PDSG_IGNORE_DSG_PROTECTION (pp_afe.c:127-131).
PdsgRespectsProtection == pdsg_cmd = "on" /\ ~DsgIgnored => can.dsg
=============================================================================
