------------------------- MODULE AfeProtectProofs --------------------------
(***************************************************************************)
(* Proofs about AfeProtect and AfeRecovery, for every table of             *)
(* protections, every choice of delays and every schedule of the host      *)
(* thread.                                                                 *)
(***************************************************************************)
EXTENDS AfeRecovery, TLAPS

(***************************************************************************)
(* The accumulators and the detector (Continued).                          *)
(***************************************************************************)

\* What a detector leaves behind is a status and two accumulators again.
LEMMA StatusSetType ==
  ASSUME NEW d \in [status : BOOLEAN, tms : Nat, rms : Nat],
         NEW trig \in BOOLEAN, NEW rls \in BOOLEAN,
         NEW delay \in Nat, NEW cycles \in Nat
  PROVE  StatusSet(d, trig, rls, delay, cycles)
           \in [status : BOOLEAN, tms : Nat, rms : Nat]
BY DEF StatusSet, Fires, Accumulated

\* The same for the detector of one protection.
LEMMA DetectorType ==
  ASSUME TypeOK, NEW p \in Detected, NEW trig \in BOOLEAN, NEW rls \in BOOLEAN
  PROVE  Detector(p, trig, rls) \in [status : BOOLEAN, tms : Nat, rms : Nat]
<1>1. [status |-> status[p], tms |-> tms[p], rms |-> rms[p]]
        \in [status : BOOLEAN, tms : Nat, rms : Nat]
  BY TableAssumption DEF TypeOK
<1>2. Delay[p] \in Nat /\ afe_times \in Nat
  BY DataAssumption DEF TypeOK
<1>3. QED
  BY <1>1, <1>2, StatusSetType DEF Detector

\* Trigger and release conditions are truth values.
LEMMA TrigType ==
  ASSUME NEW p, NEW cond, NEW now,
         \A m \in MembersOf[p] : now[m] \in BOOLEAN
  PROVE  Trig(p, cond, now) \in BOOLEAN /\ Rls(p, cond, now) \in BOOLEAN
BY DEF Trig, Rls

\* Every request leaves booleans in the controls.
LEMMA MosCtlType ==
  ASSUME TypeOK, NEW d \in -1..1, NEW c \in -1..1, NEW p \in -1..1, NEW t \in -2..2,
         MosCtl(d, c, p, t)
  PROVE  /\ ctl' \in [dsg : BOOLEAN, chg : BOOLEAN, pdsg : BOOLEAN]
         /\ pdsg_cmd' \in {"none", "on", "off"}
         /\ sys_mos_lock' \in BOOLEAN
<1>1. /\ sys_mos_lock \in BOOLEAN
      /\ ctl \in [dsg : BOOLEAN, chg : BOOLEAN, pdsg : BOOLEAN]
      /\ pdsg_cmd \in {"none", "on", "off"}
  BY DEF TypeOK
<1>2. \A req, now, allowed \in BOOLEAN \cup {-1, 0, 1} :
        now \in BOOLEAN /\ allowed \in BOOLEAN => Switched(req, now, allowed) \in BOOLEAN
  BY DEF Switched
<1>. QED
  BY <1>1, <1>2 DEF MosCtl, TypeOK, Switched, On, Off, Keep

LEMMA MosCtlIfType ==
  ASSUME TypeOK, NEW d \in -1..1, NEW c \in -1..1, NEW p \in -1..1, NEW t \in -2..2,
         NEW cond, MosCtlIf(cond, d, c, p, t)
  PROVE  /\ ctl' \in [dsg : BOOLEAN, chg : BOOLEAN, pdsg : BOOLEAN]
         /\ pdsg_cmd' \in {"none", "on", "off"}
         /\ sys_mos_lock' \in BOOLEAN
<1>1. CASE cond
  BY <1>1, MosCtlType DEF MosCtlIf
<1>2. CASE ~cond
  BY <1>2 DEF MosCtlIf, control, TypeOK
<1>. QED BY <1>1, <1>2

\* An accumulator stays a natural number.
LEMMA AccumulatedType ==
  ASSUME NEW ms \in Nat, NEW cond, NEW delay, NEW cycles \in Nat
  PROVE  Accumulated(ms, cond, delay, cycles) \in Nat
BY DEF Accumulated

(***************************************************************************)
(* Type correctness.                                                       *)
(***************************************************************************)

\* The table is finite.
LEMMA LengthType == N \in Nat
BY TableAssumption DEF N

\* The boot state has the declared types.
LEMMA InitType == Init => TypeOK
<1>. SUFFICES ASSUME Init PROVE TypeOK
  OBVIOUS
<1>1. k \in 0..(N + 1)
  BY LengthType DEF Init
<1>2. status \in [Status -> BOOLEAN]
  BY DEF Init
<1>3. mos_lock \in [dsg : BOOLEAN, chg : BOOLEAN] /\ smart_off \in BOOLEAN
  BY DataAssumption DEF Init
<1>4. /\ pc \in PC
      /\ tms \in [Detected -> Nat] /\ rms \in [Detected -> Nat]
      /\ old \in [Operated -> BOOLEAN]
      /\ can \in [dsg : BOOLEAN, chg : BOOLEAN]
      /\ ctl \in [dsg : BOOLEAN, chg : BOOLEAN, pdsg : BOOLEAN]
      /\ pdsg_cmd \in {"none", "on", "off"}
      /\ sys_mos_lock \in BOOLEAN
  BY DEF Init, PC
<1>5. /\ chip \in [pdsg : BOOLEAN, ldon : BOOLEAN, chgrin : BOOLEAN]
      /\ flag \in [pdsg_off : BOOLEAN, ldon : BOOLEAN, chgrin : BOOLEAN]
      /\ afe_times \in {1, 4}
      /\ idle_ms \in [dsg : Nat, chg : Nat]
      /\ first_cycle \in BOOLEAN
  BY DEF Init
<1>. QED
  BY <1>1, <1>2, <1>3, <1>4, <1>5 DEF TypeOK

\* Every step of the automatic control keeps the types.
LEMMA AutoType ==
  TypeOK /\ (IdleDsg \/ IdleChg \/ ChargerIn \/ LoadOn \/ PdsgOff \/ FirstCycle) => TypeOK'
<1>. SUFFICES ASSUME TypeOK, IdleDsg \/ IdleChg \/ ChargerIn \/ LoadOn \/ PdsgOff \/ FirstCycle
              PROVE  TypeOK'
  OBVIOUS
<1>. DEFINE Controls == /\ ctl' \in [dsg : BOOLEAN, chg : BOOLEAN, pdsg : BOOLEAN]
                        /\ pdsg_cmd' \in {"none", "on", "off"}
                        /\ sys_mos_lock' \in BOOLEAN
            Idle == idle_ms' \in [dsg : Nat, chg : Nat]
<1>0. /\ idle_ms \in [dsg : Nat, chg : Nat]
      /\ afe_times \in Nat
      /\ 1 \in -1..1 /\ 0 \in -1..1 /\ -1 \in -1..1 /\ 0 \in -2..2
  BY DEF TypeOK
<1>1. ASSUME IdleDsg PROVE Controls /\ Idle /\ pc' \in PC
  <2>1. PICK unused \in BOOLEAN :
          /\ MosCtlIf(Fires(idle_ms.dsg, unused, IdleTime, afe_times), Off, Keep, Keep, 0)
          /\ idle_ms' = [idle_ms EXCEPT !.dsg = Accumulated(@, unused, IdleTime, afe_times)]
    BY <1>1 DEF IdleDsg
  <2>2. Controls
    BY <1>0, <2>1, MosCtlIfType DEF Off, Keep
  <2>3. Accumulated(idle_ms.dsg, unused, IdleTime, afe_times) \in Nat
    BY <1>0, AccumulatedType
  <2>4. Idle
    BY <1>0, <2>1, <2>3
  <2>. QED BY <1>1, <2>2, <2>4 DEF IdleDsg, Step, PC
<1>2. ASSUME IdleChg PROVE Controls /\ Idle /\ pc' \in PC
  <2>1. PICK unused \in BOOLEAN :
          /\ MosCtlIf(Fires(idle_ms.chg, unused, IdleTime, afe_times), Keep, Off, Keep, 0)
          /\ idle_ms' = [idle_ms EXCEPT !.chg = Accumulated(@, unused, IdleTime, afe_times)]
    BY <1>2 DEF IdleChg
  <2>2. Controls
    BY <1>0, <2>1, MosCtlIfType DEF Off, Keep
  <2>3. Accumulated(idle_ms.chg, unused, IdleTime, afe_times) \in Nat
    BY <1>0, AccumulatedType
  <2>4. Idle
    BY <1>0, <2>1, <2>3
  <2>. QED BY <1>2, <2>2, <2>4 DEF IdleChg, Step, PC
<1>3. ASSUME ChargerIn PROVE Controls /\ Idle /\ pc' \in PC
  <2>1. Controls
    BY <1>0, <1>3, MosCtlIfType DEF ChargerIn, On, Keep
  <2>. QED BY <1>0, <1>3, <2>1 DEF ChargerIn, Step, PC
<1>4. ASSUME LoadOn PROVE Controls /\ Idle /\ pc' \in PC
  <2>1. Controls
    BY <1>0, <1>4, MosCtlIfType DEF LoadOn, On, Keep
  <2>. QED BY <1>0, <1>4, <2>1 DEF LoadOn, Step, PC
<1>5. ASSUME PdsgOff PROVE Controls /\ Idle /\ pc' \in PC
  <2>1. Controls
    BY <1>0, <1>5, MosCtlIfType DEF PdsgOff, On, Keep
  <2>. QED BY <1>0, <1>5, <2>1 DEF PdsgOff, Step, PC
<1>6. ASSUME FirstCycle PROVE Controls /\ Idle /\ pc' \in PC
  <2>1. Controls
    BY <1>0, <1>6, MosCtlIfType DEF FirstCycle, On, Keep
  <2>. QED BY <1>0, <1>6, <2>1 DEF FirstCycle, Step, PC
<1>7. UNCHANGED <<k, detectors, old, samples, first_cycle, host>>
  BY DEF IdleDsg, IdleChg, ChargerIn, LoadOn, PdsgOff, FirstCycle, Step
<1>8. Controls /\ Idle /\ pc' \in PC
  BY <1>1, <1>2, <1>3, <1>4, <1>5, <1>6
<1>. QED
  BY <1>7, <1>8 DEF TypeOK, detectors, samples, host

\* The detectors keep the types.
LEMMA DetectType == TypeOK /\ Detect => TypeOK'
<1>. SUFFICES ASSUME TypeOK, Detect PROVE TypeOK'
  OBVIOUS
<1>. DEFINE D == [status : BOOLEAN, tms : Nat, rms : Nat]
<1>1. PICK sample \in Samples, reported \in [Chip -> BOOLEAN],
           cond \in [Single -> {"trip", "hold", "release"}], ldoff \in BOOLEAN :
           DetectWith(sample, reported, cond, ldoff)
  BY DEF Detect
<1>. DEFINE off    == chip.pdsg /\ ~sample.pdsg
            single == SingleAfter(off, cond, ldoff)
            cells  == Cells(reported, single)
            after  == After(single, cells)
<1>2. /\ chip \in [pdsg : BOOLEAN, ldon : BOOLEAN, chgrin : BOOLEAN]
      /\ sample \in [pdsg : BOOLEAN, ldon : BOOLEAN, chgrin : BOOLEAN]
      /\ status \in [Status -> BOOLEAN]
      /\ Detected \subseteq Status /\ Single \subseteq Detected
      /\ \A p \in Detected : MembersOf[p] \subseteq Status
  BY DataAssumption, TableAssumption DEF TypeOK, Single
<1>3. ASSUME NEW p \in Single PROVE single[p] \in D
  <2>1. (off /\ cond[p] = "trip") \in BOOLEAN
    BY <1>2
  <2>2. Trig(p, cond[p], status) \in BOOLEAN /\ Rls(p, cond[p], status) \in BOOLEAN
    BY <1>2, TrigType
  <2>. QED
    BY <1>2, <2>1, <2>2, DetectorType DEF SingleAfter
<1>. HIDE DEF single
<1>4. cells \in [Status -> BOOLEAN]
  BY <1>2, <1>3 DEF Cells
<1>. HIDE DEF cells
<1>5. ASSUME NEW p \in Detected PROVE after[p] \in D
  <2>1. Trig(p, "hold", cells) \in BOOLEAN /\ Rls(p, "hold", cells) \in BOOLEAN
    BY <1>2, <1>4, TrigType
  <2>. QED
    BY <2>1, <1>3, DetectorType DEF After
<1>. HIDE DEF after
<1>6. /\ flag' = [pdsg_off |-> off,
                  ldon     |-> ~chip.ldon /\ sample.ldon,
                  chgrin   |-> ~chip.chgrin /\ sample.chgrin]
      /\ chip' = sample
      /\ status' = [p \in Status |-> IF p \in Detected THEN after[p].status ELSE cells[p]]
      /\ tms' = [p \in Detected |-> after[p].tms]
      /\ rms' = [p \in Detected |-> after[p].rms]
  BY <1>1 DEF DetectWith, after, cells, single
<1>7. /\ status' \in [Status -> BOOLEAN]
      /\ tms' \in [Detected -> Nat]
      /\ rms' \in [Detected -> Nat]
  BY <1>4, <1>5, <1>6
<1>8. /\ flag' \in [pdsg_off : BOOLEAN, ldon : BOOLEAN, chgrin : BOOLEAN]
      /\ chip' \in [pdsg : BOOLEAN, ldon : BOOLEAN, chgrin : BOOLEAN]
  BY <1>2, <1>6
<1>9. pc' = "evaluate" /\ k' = 0
      /\ UNCHANGED <<old, can, control, afe_times, idle_ms, first_cycle, host>>
  BY DEF Detect
<1>10. pc' \in PC /\ k' \in 0..(N + 1)
  BY <1>9, LengthType DEF PC
<1>. QED
  BY <1>7, <1>8, <1>9, <1>10 DEF TypeOK, control, host

\* Every step keeps the types.
LEMMA NextType == TypeOK /\ [Next]_vars => TypeOK'
<1>. SUFFICES ASSUME TypeOK, [Next]_vars PROVE TypeOK'
  OBVIOUS
<1>1. ASSUME NEW has_data \in BOOLEAN, NEW has_flag \in BOOLEAN, NEW por_flag \in BOOLEAN,
             Flag(has_data, has_flag, por_flag)
      PROVE  TypeOK'
  <2>1. pc' \in PC /\ afe_times' \in {1, 4} /\ pdsg_cmd' \in {"none", "on", "off"}
    BY <1>1 DEF Flag, CyclesAfter, PC, TypeOK
  <2>. DEFINE d == ctl.dsg /\ ~(por_flag /\ mos_lock.dsg)
              c == ctl.chg /\ ~(por_flag /\ mos_lock.chg)
  <2>2. ctl' = [ctl EXCEPT !.dsg = d, !.chg = c] /\ d \in BOOLEAN /\ c \in BOOLEAN
    BY <1>1 DEF Flag, TypeOK
  <2>. HIDE DEF d, c
  <2>3. ctl' \in [dsg : BOOLEAN, chg : BOOLEAN, pdsg : BOOLEAN]
    BY <2>2 DEF TypeOK
  <2>. QED
    BY <1>1, <2>1, <2>3 DEF Flag, TypeOK, detectors, host
<1>2. CASE Detect
  BY <1>2, DetectType
<1>3. CASE Evaluate
  <2>. DEFINE d == \A p \in DsgGroup : ~status[p]
              c == \A p \in ChgGroup : ~status[p]
  <2>0. can' = [dsg |-> d, chg |-> c] /\ d \in BOOLEAN /\ c \in BOOLEAN
    BY <1>3 DEF Evaluate
  <2>. HIDE DEF d, c
  <2>1. can' \in [dsg : BOOLEAN, chg : BOOLEAN]
    BY <2>0
  <2>2. k' \in 0..(N + 1) /\ pc' \in PC
    BY <1>3, LengthType DEF Evaluate, PC
  <2>. QED
    BY <1>3, <2>1, <2>2 DEF Evaluate, TypeOK, detectors, control, host
<1>4. CASE Operate
  <2>1. k \in 0..(N + 1) /\ k <= N /\ N \in Nat
    BY <1>4, LengthType DEF Operate, TypeOK
  <2>2. Request(Order[k], DsgOpr) \in -1..1 /\ Request(Order[k], ChgOpr) \in -1..1
    BY DEF Request, On, Off, Keep
  <2>3. Keep \in -1..1 /\ -1 \in -2..2
    BY DEF Keep
  <2>4. /\ ctl' \in [dsg : BOOLEAN, chg : BOOLEAN, pdsg : BOOLEAN]
        /\ pdsg_cmd' \in {"none", "on", "off"}
        /\ sys_mos_lock' \in BOOLEAN
    BY <1>4, <2>2, <2>3, MosCtlIfType DEF Operate
  <2>5. k' \in 0..(N + 1)
    BY <1>4, <2>1 DEF Operate
  <2>6. old' \in [Operated -> BOOLEAN]
    <3>1. old' = [old EXCEPT ![Order[k]] = status[Order[k]]]
      BY <1>4 DEF Operate
    <3>2. \A q \in Operated : status[q] \in BOOLEAN
      BY TableAssumption DEF TypeOK
    <3>. QED
      BY <3>1, <3>2 DEF TypeOK
  <2>. QED
    BY <1>4, <2>4, <2>5, <2>6 DEF Operate, TypeOK, detectors, samples, host
<1>5. CASE AutoMos
  <2>1. pc' \in PC
    BY <1>5 DEF AutoMos, PC, TypeOK
  <2>2. UNCHANGED <<k, detectors, old, control, samples, idle_ms, first_cycle, host>>
    BY <1>5 DEF AutoMos
  <2>. QED
    BY <2>1, <2>2 DEF TypeOK, detectors, control, samples, host
<1>6. CASE IdleDsg \/ IdleChg \/ ChargerIn \/ LoadOn \/ PdsgOff \/ FirstCycle
  BY <1>6, AutoType
<1>7. CASE Export
  <2>1. pc' \in PC
    BY <1>7 DEF Export, PC
  <2>2. first_cycle' \in BOOLEAN /\ UNCHANGED <<k, detectors, old, control, samples, idle_ms, host>>
    BY <1>7 DEF Export
  <2>. QED
    BY <2>1, <2>2 DEF TypeOK, detectors, control, samples, host
<1>8. CASE HostLock
  <2>1. mos_lock' \in [dsg : BOOLEAN, chg : BOOLEAN]
    BY <1>8, DataAssumption DEF HostLock
  <2>. QED
    BY <1>8, <2>1 DEF HostLock, TypeOK, pulse
<1>9. CASE HostSmart
  BY <1>9, DataAssumption DEF HostSmart, TypeOK, pulse
<1>10. CASE HostEnv
  BY <1>10 DEF HostEnv, TypeOK, control, samples, host
<1>11. CASE UNCHANGED vars
  BY <1>11 DEF TypeOK, vars, pulse, host
<1>. QED
  BY <1>1, <1>2, <1>3, <1>4, <1>5, <1>6, <1>7, <1>8, <1>9, <1>10, <1>11 DEF Next, Pulse

\* The variables keep their types in every run of every instance.
THEOREM TypeCorrect == Spec => []TypeOK
<1>1. Init => TypeOK
  BY InitType
<1>2. TypeOK /\ [Next]_vars => TypeOK'
  BY NextType
<1>. QED
  BY <1>1, <1>2, PTL DEF Spec

(***************************************************************************)
(* No path conducts through a standing protection.                         *)
(***************************************************************************)

\* A request of any kind closes a path only if its can_ flag is up, and an Off
\* request leaves it open.
LEMMA MosCtlGuard ==
  ASSUME NEW d, NEW c, NEW p, NEW t, NEW cond, MosCtlIf(cond, d, c, p, t)
  PROVE  /\ ctl'.dsg => ctl.dsg \/ can.dsg
         /\ ctl'.chg => ctl.chg \/ can.chg
         /\ cond /\ d = Off => ~ctl'.dsg
         /\ cond /\ c = Off => ~ctl'.chg
<1>1. CASE cond
  <2>. DEFINE lock_d == IF t >= 0 /\ d # Keep THEN d = Off ELSE sys_mos_lock
              lock_c == IF t >= 0 /\ c # Keep THEN c = Off ELSE lock_d
              may_d == ~mos_lock.dsg /\ ~lock_d /\ can.dsg
              may_c == ~mos_lock.chg /\ ~lock_c /\ can.chg
  <2>1. /\ ctl'.dsg = Switched(d, ctl.dsg, may_d)
        /\ ctl'.chg = Switched(c, ctl.chg, may_c)
    BY <1>1 DEF MosCtlIf, MosCtl
  <2>2. (may_d => can.dsg) /\ (may_c => can.chg)
    OBVIOUS
  <2>. HIDE DEF may_d, may_c
  <2>3. /\ Switched(d, ctl.dsg, may_d) => ctl.dsg \/ may_d
        /\ Switched(c, ctl.chg, may_c) => ctl.chg \/ may_c
    BY Zenon DEF Switched
  <2>4. On # Off
    BY DEF On, Off
  <2>5. ASSUME NEW now, NEW may PROVE ~Switched(Off, now, may)
    <3>1. Switched(Off, now, may) = (now /\ Off # Off)
      BY <2>4, Zenon DEF Switched
    <3>. QED BY <3>1, Zenon
  <2>. QED
    BY <1>1, <2>1, <2>2, <2>3, <2>5, Zenon
<1>2. CASE ~cond
  BY <1>2 DEF MosCtlIf, control
<1>. QED BY <1>1, <1>2

\* While the can_ flags are current, any request leaves the paths of a standing
\* protection open if they were.
LEMMA StaysOpen ==
  ASSUME PulseInv, pc # "evaluate", NEW q \in Guarded, status[q], PathsOpen(q),
         NEW d, NEW c, NEW p, NEW t, NEW cond, MosCtlIf(cond, d, c, p, t)
  PROVE  PathsOpen(q)'
<1>1. /\ q \in DsgGroup => ~can.dsg
      /\ q \in ChgGroup => ~can.chg
  BY DEF PulseInv, Guarded
<1>2. /\ ctl'.dsg => ctl.dsg \/ can.dsg
      /\ ctl'.chg => ctl.chg \/ can.chg
  BY MosCtlGuard
<1>. QED
  BY <1>1, <1>2 DEF PathsOpen

\* The steps of the automatic control.
LEMMA AutoInv ==
  TypeOK /\ PulseInv /\ (IdleDsg \/ IdleChg \/ ChargerIn \/ LoadOn \/ PdsgOff \/ FirstCycle)
    => PulseInv'
<1>. SUFFICES ASSUME TypeOK, PulseInv,
                     IdleDsg \/ IdleChg \/ ChargerIn \/ LoadOn \/ PdsgOff \/ FirstCycle
              PROVE  PulseInv'
  OBVIOUS
<1>1. /\ pc \notin {"evaluate", "operate"} /\ pc' \notin {"evaluate", "operate"}
      /\ UNCHANGED <<k, status, old, can>>
  BY DEF IdleDsg, IdleChg, ChargerIn, LoadOn, PdsgOff, FirstCycle, Step, detectors, samples
<1>2. PICK d, c, p, t, cond : MosCtlIf(cond, d, c, p, t)
  BY DEF IdleDsg, IdleChg, ChargerIn, LoadOn, PdsgOff, FirstCycle
<1>3. ASSUME NEW q \in Guarded, status'[q], old'[q]
      PROVE  PathsOpen(q)'
  <2>1. status[q] /\ old[q] /\ PathsOpen(q)
    BY <1>1, <1>3 DEF PulseInv
  <2>. QED
    BY <1>1, <1>2, <2>1, StaysOpen
<1>. QED
  BY <1>1, <1>3 DEF PulseInv, Guarded

\* One operation of the table.
LEMMA OperateInv == TypeOK /\ PulseInv /\ Operate => PulseInv'
<1>. SUFFICES ASSUME TypeOK, PulseInv, Operate PROVE PulseInv'
  OBVIOUS
<1>. DEFINE p == Order[k]
<1>1. /\ pc = "operate" /\ k \in 1..N /\ pc' = pc /\ k' = k + 1 /\ N \in Nat
      /\ UNCHANGED <<status, can>>
  BY LengthType DEF Operate, PulseInv, TypeOK, detectors, samples
<1>2. p \in Operated
  BY <1>1 DEF Operated
<1>3. old' = [old EXCEPT ![p] = status[p]] /\ old \in [Operated -> BOOLEAN]
  BY DEF Operate, TypeOK
<1>4. MosCtlIf(status[p] # old[p], Request(p, DsgOpr), Request(p, ChgOpr), Keep, -1)
  BY DEF Operate
<1>5. ASSUME NEW i \in 1..N, i < k', Order[i] \in Guarded
      PROVE  old'[Order[i]] = status'[Order[i]]
  <2>1. CASE i = k
    BY <1>1, <1>2, <1>3, <2>1
  <2>2. CASE i # k
    <3>1. i < k
      BY <1>1, <1>5, <2>2
    <3>2. old[Order[i]] = status[Order[i]]
      BY <1>5, <3>1 DEF PulseInv
    <3>3. Order[i] # p /\ Order[i] \in Operated
      BY <1>1, <2>2, TableAssumption DEF Operated
    <3>. QED
      BY <1>1, <1>3, <3>2, <3>3
  <2>. QED BY <2>1, <2>2
<1>6. ASSUME NEW q \in Guarded, status'[q], old'[q]
      PROVE  PathsOpen(q)'
  <2>1. status[q] /\ q \in Operated
    BY <1>1, <1>6 DEF Guarded
  <2>2. CASE old[q]
    <3>1. PathsOpen(q)
      BY <2>1, <2>2 DEF PulseInv
    <3>. QED
      BY <1>1, <1>4, <2>1, <3>1, StaysOpen
  <2>3. CASE ~old[q]
    <3>1. q = p
      BY <1>2, <1>3, <1>6, <2>1, <2>3
    <3>2. status[p] # old[p]
      BY <2>1, <2>3, <3>1
    <3>3. /\ p \in DsgOpr => Request(p, DsgOpr) = Off
          /\ p \in ChgOpr => Request(p, ChgOpr) = Off
      BY <2>1, <3>1 DEF Request
    <3>4. /\ p \in DsgOpr => ~ctl'.dsg
          /\ p \in ChgOpr => ~ctl'.chg
      BY <1>4, <3>2, <3>3, MosCtlGuard
    <3>. QED
      BY <3>1, <3>4 DEF PathsOpen
  <2>. QED BY <2>2, <2>3
<1>7. /\ can'.dsg => \A q \in DsgGroup \ EnvWritable : ~status'[q]
      /\ can'.chg => \A q \in ChgGroup \ EnvWritable : ~status'[q]
  BY <1>1 DEF PulseInv
<1>. QED
  BY <1>1, <1>5, <1>6, <1>7 DEF PulseInv, Guarded

\* Every step of the pulse and of the host keeps PulseInv.
LEMMA NextInv == TypeOK /\ PulseInv /\ [Next]_vars => PulseInv'
<1>. SUFFICES ASSUME TypeOK, PulseInv, [Next]_vars PROVE PulseInv'
  OBVIOUS
<1>1. ASSUME NEW has_data \in BOOLEAN, NEW has_flag \in BOOLEAN, NEW por_flag \in BOOLEAN,
             Flag(has_data, has_flag, por_flag)
      PROVE  PulseInv'
  <2>1. /\ pc = "wait" /\ pc' \in {"wait", "detect"}
        /\ UNCHANGED <<k, status, old, can>>
    BY <1>1 DEF Flag, detectors
  <2>2. (ctl'.dsg => ctl.dsg) /\ (ctl'.chg => ctl.chg)
    BY <1>1 DEF Flag, TypeOK
  <2>3. ASSUME NEW q \in Guarded, status'[q], old'[q]
        PROVE  PathsOpen(q)'
    BY <2>1, <2>2, <2>3 DEF PulseInv, PathsOpen
  <2>. QED
    BY <2>1, <2>3 DEF PulseInv
<1>2. CASE Detect
  <2>1. /\ pc = "detect" /\ pc' = "evaluate" /\ k' = 0 /\ k = N + 1 /\ N \in Nat
        /\ UNCHANGED <<old, ctl>>
    BY <1>2, LengthType DEF Detect, PulseInv, control
  <2>2. ASSUME NEW q \in Guarded, status'[q], old'[q]
        PROVE  PathsOpen(q)'
    <3>1. PICK i \in 1..N : Order[i] = q
      BY DEF Guarded, Operated
    <3>2. old[q] = status[q]
      BY <2>1, <3>1 DEF PulseInv
    <3>3. PathsOpen(q)
      BY <2>1, <2>2, <3>2 DEF PulseInv
    <3>. QED
      BY <2>1, <3>3 DEF PathsOpen
  <2>. QED
    BY <2>1, <2>2 DEF PulseInv
<1>3. CASE Evaluate
  <2>1. /\ pc' = "operate" /\ k' = 1
        /\ UNCHANGED <<old, status, ctl>>
    BY <1>3 DEF Evaluate, control, detectors
  <2>2. /\ can'.dsg => \A q \in DsgGroup : ~status[q]
        /\ can'.chg => \A q \in ChgGroup : ~status[q]
    BY <1>3 DEF Evaluate
  <2>3. ASSUME NEW q \in Guarded, status'[q], old'[q]
        PROVE  PathsOpen(q)'
    BY <2>1, <2>3 DEF PulseInv, PathsOpen
  <2>. QED
    BY <2>1, <2>2, <2>3 DEF PulseInv
<1>4. CASE Operate
  BY <1>4, OperateInv
<1>5. CASE AutoMos
  <2>1. /\ pc = "operate" /\ k = N + 1 /\ pc' \notin {"evaluate", "operate"}
        /\ UNCHANGED <<k, old, status, can, ctl>>
    BY <1>5 DEF AutoMos, control, detectors, samples
  <2>. QED
    BY <2>1 DEF PulseInv, PathsOpen
<1>6. CASE IdleDsg \/ IdleChg \/ ChargerIn \/ LoadOn \/ PdsgOff \/ FirstCycle
  BY <1>6, AutoInv
<1>7. CASE Export
  <2>1. /\ pc = "export" /\ pc' = "wait"
        /\ UNCHANGED <<k, old, status, can, ctl>>
    BY <1>7 DEF Export, control, detectors, samples
  <2>. QED
    BY <2>1 DEF PulseInv, PathsOpen
<1>8. CASE HostLock \/ HostSmart \/ UNCHANGED vars
  <2>1. UNCHANGED <<pc, k, old, status, can, ctl>>
    BY <1>8 DEF HostLock, HostSmart, vars, pulse
  <2>. QED
    BY <2>1 DEF PulseInv, PathsOpen
<1>9. CASE HostEnv
  <2>1. /\ UNCHANGED <<pc, k, old, can, ctl>>
        /\ \A q : q \notin EnvWritable => status'[q] = status[q]
    BY <1>9 DEF HostEnv, control, samples, TypeOK
  <2>2. \A i \in 1..N : Order[i] \in Guarded => status'[Order[i]] = status[Order[i]]
    BY <2>1 DEF Guarded
  <2>3. ASSUME NEW q \in Guarded, status'[q], old'[q]
        PROVE  PathsOpen(q)'
    BY <2>1, <2>3 DEF PulseInv, PathsOpen, Guarded
  <2>4. pc' # "evaluate" => /\ can'.dsg => \A q \in DsgGroup \ EnvWritable : ~status'[q]
                            /\ can'.chg => \A q \in ChgGroup \ EnvWritable : ~status'[q]
    BY <2>1 DEF PulseInv
  <2>5. \A i \in 1..N : i < k' /\ Order[i] \in Guarded => old'[Order[i]] = status'[Order[i]]
    BY <2>1, <2>2 DEF PulseInv
  <2>. QED
    BY <2>1, <2>3, <2>4, <2>5 DEF PulseInv
<1>. QED
  BY <1>1, <1>2, <1>3, <1>4, <1>5, <1>6, <1>7, <1>8, <1>9 DEF Next, Pulse

\* At the start nothing is switched on and no edge has been seen.
LEMMA InitInv == Init => PulseInv
<1>. SUFFICES ASSUME Init PROVE PulseInv
  OBVIOUS
<1>1. \A q \in Guarded : status[q] \in BOOLEAN /\ ~status[q]
  <2>1. PICK kept \in SUBSET (EnvWritable \cap Status) : status = [q \in Status |-> q \in kept]
    BY DEF Init
  <2>. SUFFICES ASSUME NEW q \in Guarded PROVE status[q] \in BOOLEAN /\ ~status[q]
    OBVIOUS
  <2>2. q \in Status /\ ~(q \in kept)
    BY TableAssumption DEF Guarded
  <2>3. status[q] = (q \in kept)
    BY <2>1, <2>2
  <2>4. status[q] \in BOOLEAN
    BY <2>2, InitType DEF TypeOK
  <2>5. ~status[q]
    BY <2>2, <2>3
  <2>. QED
    BY <2>4, <2>5
<1>2. \A q \in Guarded : old[q] \in BOOLEAN /\ ~old[q]
  BY DEF Init, Guarded
<1>3. \A i \in 1..N : Order[i] \in Guarded => old[Order[i]] = status[Order[i]]
  <2>. SUFFICES ASSUME NEW q \in Guarded PROVE old[q] = status[q]
    OBVIOUS
  <2>. QED
    BY <1>1, <1>2
<1>. QED
  BY <1>2, <1>3 DEF Init, PulseInv

\* The position in the table, the edges behind it and the permissions agree with
\* the statuses at every step of a pulse (pp_afe_soft_set4data,
\* pp_afe_soft_opr4data).
THEOREM PulseInvHolds == Spec => [](TypeOK /\ PulseInv)
<1>1. Init => TypeOK /\ PulseInv
  BY InitType, InitInv
<1>2. TypeOK /\ PulseInv /\ [Next]_vars => (TypeOK /\ PulseInv)'
  BY NextType, NextInv
<1>. QED
  BY <1>1, <1>2, PTL DEF Spec

\* Between pulses no path is switched on through a standing protection that
\* operates it, for every table, delay, chip reading and host schedule
\* (pp_afe_soft_opr4data, pp_afe_mos_ctl).
THEOREM NoConductSafe == Spec => []NoConductWhileTripped
<1>1. TypeOK /\ PulseInv => NoConductWhileTripped
  <2>. SUFFICES ASSUME TypeOK, PulseInv, pc = "wait", NEW q \in Guarded, status[q]
                PROVE  PathsOpen(q)
    BY DEF NoConductWhileTripped
  <2>1. PICK i \in 1..N : Order[i] = q
    BY DEF Guarded, Operated
  <2>2. old[q] = status[q]
    <3>1. k = N + 1 /\ N \in Nat
      BY LengthType DEF PulseInv
    <3>2. i < k
      BY <3>1
    <3>. QED
      BY <2>1, <3>2 DEF PulseInv
  <2>. QED
    BY <2>2 DEF PulseInv
<1>. QED
  BY <1>1, PulseInvHolds, PTL

(***************************************************************************)
(* The lock of the automatic control.                                      *)
(***************************************************************************)

\* The only requests of type 0 that set the lock open a path; while it is set
\* no other request closes one.
LEMMA MosCtlLock ==
  ASSUME TypeOK, SysLockMeansOpen, NEW cond, NEW d, NEW c, NEW p, NEW t \in -2..2,
         MosCtlIf(cond, d, c, p, t)
  PROVE  SysLockMeansOpen'
<1>1. CASE cond
  <2>. DEFINE lock_d == IF t >= 0 /\ d # Keep THEN d = Off ELSE sys_mos_lock
              lock_c == IF t >= 0 /\ c # Keep THEN c = Off ELSE lock_d
  <2>1. /\ sys_mos_lock' = lock_c
        /\ ctl'.dsg = Switched(d, ctl.dsg, ~mos_lock.dsg /\ ~lock_d /\ can.dsg)
        /\ ctl'.chg = Switched(c, ctl.chg, ~mos_lock.chg /\ ~lock_c /\ can.chg)
    BY <1>1 DEF MosCtlIf, MosCtl
  <2>2. On # Off /\ On # Keep /\ Off # Keep
    BY DEF On, Off, Keep
  <2>. QED
    BY <2>1, <2>2, Zenon DEF Switched, SysLockMeansOpen
<1>2. CASE ~cond
  BY <1>2 DEF MosCtlIf, control, SysLockMeansOpen
<1>. QED BY <1>1, <1>2

\* Every step of the pulse and of the host keeps the lock meaningful.
LEMMA NextLock == TypeOK /\ SysLockMeansOpen /\ [Next]_vars => SysLockMeansOpen'
<1>. SUFFICES ASSUME TypeOK, SysLockMeansOpen, [Next]_vars PROVE SysLockMeansOpen'
  OBVIOUS
<1>1. ASSUME NEW has_data \in BOOLEAN, NEW has_flag \in BOOLEAN, NEW por_flag \in BOOLEAN,
             Flag(has_data, has_flag, por_flag)
      PROVE  SysLockMeansOpen'
  <2>1. (ctl'.dsg => ctl.dsg) /\ (ctl'.chg => ctl.chg) /\ UNCHANGED sys_mos_lock
    BY <1>1 DEF Flag, TypeOK
  <2>. QED
    BY <2>1 DEF SysLockMeansOpen
<1>2. CASE Operate
  <2>1. PICK cond, d, c, p : MosCtlIf(cond, d, c, p, -1)
    BY <1>2 DEF Operate
  <2>. QED
    BY <2>1, MosCtlLock
<1>3. CASE IdleDsg \/ IdleChg \/ ChargerIn \/ LoadOn \/ PdsgOff \/ FirstCycle
  <2>1. PICK cond, d, c, p : MosCtlIf(cond, d, c, p, 0)
    BY <1>3 DEF IdleDsg, IdleChg, ChargerIn, LoadOn, PdsgOff, FirstCycle
  <2>. QED
    BY <2>1, MosCtlLock
<1>4. CASE \/ Detect \/ Evaluate \/ AutoMos \/ Export
           \/ HostLock \/ HostSmart \/ HostEnv \/ UNCHANGED vars
  <2>1. UNCHANGED <<ctl, sys_mos_lock>>
    BY <1>4 DEF Detect, Evaluate, AutoMos, Export, HostLock, HostSmart, HostEnv,
                vars, pulse, control
  <2>. QED
    BY <2>1 DEF SysLockMeansOpen
<1>. QED
  BY <1>1, <1>2, <1>3, <1>4 DEF Next, Pulse

\* While the system holds its lock one of the two paths is open, for every
\* table and every schedule of protections, host writes and idle times
\* (pp_afe_mos_ctl).
THEOREM SysLockSafe == Spec => []SysLockMeansOpen
<1>1. Init => SysLockMeansOpen
  BY DEF Init, SysLockMeansOpen
<1>2. TypeOK /\ SysLockMeansOpen /\ [Next]_vars => SysLockMeansOpen'
  BY NextLock
<1>. QED
  BY <1>1, <1>2, TypeCorrect, PTL DEF Spec

(***************************************************************************)
(* A path is closed again when its protections have released.              *)
(***************************************************************************)

\* The operations whose statuses only the pulse thread writes.
Own(opr) == opr \ EnvWritable

\* A protection of the program's own stands; what forbids and has an edge to
\* come is seen by one; somebody still has to ask for the path.
Standing(opr) == \E q \in Own(opr) : status[q]
Seen(group, opr) ==
  (\E p \in group \ EnvWritable : status[p] /\ Followed(p, Own(opr))) => Standing(opr)
Owed(opr) == Standing(opr) \/ \E q \in opr : old[q]

\* Only protections open a path; when the permissions of a pulse forbid one,
\* the reason is known; and a path that is open waits for an edge that is still
\* to come, or was refused for a reason no edge follows.
RecoverInv ==
  /\ smart_off /\ ~mos_lock.dsg /\ ~mos_lock.chg /\ ~sys_mos_lock
  /\ pc \notin {"idle_dsg", "idle_chg", "chgrin", "ldon", "pdsg_off"}
  /\ pc = "evaluate" => Seen(DsgGroup, DsgOpr) /\ Seen(ChgGroup, ChgOpr)
  /\ pc \in {"operate", "first"} =>
       /\ can.dsg \/ stood.dsg \/ Standing(DsgOpr)
       /\ can.chg \/ stood.chg \/ Standing(ChgOpr)
  /\ ~first_cycle \/ pc = "export" =>
       /\ ctl.dsg \/ refused.dsg \/ Owed(DsgOpr)
       /\ ctl.chg \/ refused.chg \/ Owed(ChgOpr)

\* A step that asks for nothing forgets no refusal.
LEMMA KeepsRefused ==
  ASSUME NEW asked, NEW stands, NEW before, asked = Keep, before
  PROVE  RefusedAfter(asked, stands, before)
<1>1. Keep # On
  BY DEF Keep, On
<1>. QED
  BY <1>1, Zenon DEF RefusedAfter

\* Nothing is asked outside the operations and the first cycle's request, and
\* what stood is only looked at by Evaluate.
LEMMA NothingAsked ==
  ASSUME Remember, pc # "operate" \/ k' = k, ~(pc = "first" /\ pc' = "export" /\ first_cycle)
  PROVE  /\ refused.dsg => refused'.dsg
         /\ refused.chg => refused'.chg
<1>1. Asked(DsgOpr) = Keep /\ Asked(ChgOpr) = Keep
  BY Zenon DEF Asked
<1>2. /\ refused.dsg => RefusedAfter(Asked(DsgOpr), stood.dsg, refused.dsg)
      /\ refused.chg => RefusedAfter(Asked(ChgOpr), stood.chg, refused.chg)
  BY <1>1, KeepsRefused, Zenon
<1>. DEFINE d == RefusedAfter(Asked(DsgOpr), stood.dsg, refused.dsg)
            c == RefusedAfter(Asked(ChgOpr), stood.chg, refused.chg)
<1>3. refused' = [dsg |-> d, chg |-> c]
  BY Zenon DEF Remember
<1>. HIDE DEF d, c
<1>4. refused'.dsg = d /\ refused'.chg = c
  BY <1>3
<1>. QED
  BY <1>2, <1>4, Zenon DEF d, c

\* While nothing is locked a request that is allowed is granted, and a path
\* stays closed that is not asked to open.
LEMMA MosCtlGrants ==
  ASSUME TypeOK, ~mos_lock.dsg, ~mos_lock.chg, ~sys_mos_lock,
         NEW d, NEW c, NEW p, NEW t, NEW cond, MosCtlIf(cond, d, c, p, t),
         t = -1 \/ (d = On /\ c = On)
  PROVE  /\ ~sys_mos_lock'
         /\ cond /\ d = On /\ can.dsg => ctl'.dsg
         /\ cond /\ c = On /\ can.chg => ctl'.chg
         /\ ctl.dsg /\ ~(cond /\ d = Off) => ctl'.dsg
         /\ ctl.chg /\ ~(cond /\ c = Off) => ctl'.chg
<1>1. CASE cond
  <2>. DEFINE lock_d == IF t >= 0 /\ d # Keep THEN d = Off ELSE sys_mos_lock
              lock_c == IF t >= 0 /\ c # Keep THEN c = Off ELSE lock_d
              may_d == ~mos_lock.dsg /\ ~lock_d /\ can.dsg
              may_c == ~mos_lock.chg /\ ~lock_c /\ can.chg
  <2>1. /\ sys_mos_lock' = lock_c
        /\ ctl'.dsg = Switched(d, ctl.dsg, may_d)
        /\ ctl'.chg = Switched(c, ctl.chg, may_c)
    BY <1>1 DEF MosCtlIf, MosCtl
  <2>2. ~lock_d /\ ~lock_c
    <3>1. CASE t = -1
      <4>1. ~(t >= 0)
        BY <3>1
      <4>. QED BY <4>1, Zenon
    <3>2. CASE d = On /\ c = On
      <4>1. On # Off
        BY DEF On, Off
      <4>. QED BY <3>2, <4>1, Zenon
    <3>. QED BY <3>1, <3>2
  <2>3. (can.dsg => may_d) /\ (can.chg => may_c)
    BY <2>2, Zenon
  <2>4. ASSUME NEW req, NEW now, NEW may
        PROVE  /\ req = On /\ may => Switched(req, now, may)
               /\ now /\ req # Off => Switched(req, now, may)
    BY Zenon DEF Switched
  <2>. HIDE DEF may_d, may_c, lock_d, lock_c
  <2>. QED
    BY <1>1, <2>1, <2>2, <2>3, <2>4, Zenon
<1>2. CASE ~cond
  BY <1>2 DEF MosCtlIf, control
<1>. QED BY <1>1, <1>2

\* What an operation of the table asks of a path.
Edge(opr) == IF status[Order[k]] # old[Order[k]] THEN Request(Order[k], opr) ELSE Keep

\* One operation of the table, for one path: a trip leaves an edge that is still
\* to come, so does a protection that stands, and an operation that asks for
\* nothing consumes no edge of the path.
LEMMA OwedOperate ==
  ASSUME TypeOK, PulseInv, Operate, NEW opr \in SUBSET Operated
  PROVE  /\ Edge(opr) \in {On, Off, Keep}
         /\ Standing(opr) => Owed(opr)'
         /\ Edge(opr) = Off => Owed(opr)'
         /\ Edge(opr) = Keep /\ Owed(opr) => Owed(opr)'
<1>. DEFINE p == Order[k]
<1>1. k \in 1..N
  BY LengthType DEF Operate, TypeOK, PulseInv
<1>2. /\ status' = status /\ old' = [old EXCEPT ![p] = status[p]]
      /\ old \in [Operated -> BOOLEAN] /\ status \in [Status -> BOOLEAN]
      /\ p \in Operated /\ Operated \subseteq Status
  BY <1>1, TableAssumption DEF Operate, TypeOK, detectors, Operated
<1>3. Standing(opr) => Owed(opr)'
  BY <1>2 DEF Standing, Owed
<1>4. On # Off /\ On # Keep /\ Off # Keep
  BY DEF On, Off, Keep
<1>5. Edge(opr) \in {On, Off, Keep}
  BY Zenon DEF Edge, Request
<1>6. ASSUME Edge(opr) = Off PROVE Owed(opr)'
  <2>1. p \in opr /\ status[p]
    BY <1>4, <1>6, Zenon DEF Edge, Request
  <2>2. old'[p]
    BY <1>2, <2>1
  <2>. QED
    BY <2>1, <2>2 DEF Owed
<1>7. ASSUME Edge(opr) = Keep, Owed(opr) PROVE Owed(opr)'
  <2>1. p \notin opr \/ status[p] = old[p]
    BY <1>4, <1>7, Zenon DEF Edge, Request
  <2>2. \A q \in opr : old'[q] = old[q]
    BY <1>2, <2>1
  <2>. QED
    BY <1>3, <1>7, <2>2 DEF Owed
<1>. QED BY <1>3, <1>5, <1>6, <1>7

\* A detector without delay follows the member that stands.
LEMMA FollowsMember ==
  ASSUME NEW d \in [status : BOOLEAN, tms : Nat, rms : Nat], NEW cycles \in Nat
  PROVE  StatusSet(d, TRUE, FALSE, 0, cycles).status
<1>1. d.tms + cycles >= 0
  OBVIOUS
<1>2. Fires(d.tms, TRUE, 0, cycles) /\ \A ms : ~Fires(ms, FALSE, 0, cycles)
  BY <1>1, Zenon DEF Fires
<1>3. CASE d.status
  BY <1>3, Zenon DEF StatusSet, Fires
<1>4. CASE ~d.status
  BY <1>1, <1>4, Zenon DEF StatusSet, Fires
<1>. QED BY <1>3, <1>4

\* When the detectors have run, what forbids and has an edge to come is seen
\* by a protection with an operation.
LEMMA DetectSeen ==
  ASSUME TypeOK, Detect, NEW group \in SUBSET Status, NEW opr \in SUBSET Operated
  PROVE  Seen(group, opr)'
<1>. SUFFICES ASSUME NEW p \in group, status'[p], Followed(p, Own(opr))
              PROVE  \E q \in Own(opr) : status'[q]
  BY DEF Seen, Standing
<1>0. Own(opr) \subseteq Operated
  BY DEF Own
<1>1. CASE p \in Own(opr)
  BY <1>1
<1>2. CASE p \notin Own(opr)
  <2>1. PICK q \in Own(opr) : Covers(q, p)
    BY <1>2 DEF Followed
  <2>2. PICK sample \in Samples, reported \in [Chip -> BOOLEAN],
             cond \in [Single -> {"trip", "hold", "release"}], ldoff \in BOOLEAN :
               DetectWith(sample, reported, cond, ldoff)
    BY DEF Detect
  <2>. DEFINE single == SingleAfter(chip.pdsg /\ ~sample.pdsg, cond, ldoff)
              cells == Cells(reported, single)
              after == After(single, cells)
  <2>3. status' = [r \in Status |-> IF r \in Detected THEN after[r].status ELSE cells[r]]
    BY <2>2 DEF DetectWith
  <2>4. q \in Detected /\ q \in Status /\ q \notin Single /\ p \in MembersOf[q] /\ Delay[q] = 0
    BY <1>0, <2>1, TableAssumption DEF Covers, Single
  <2>5. status'[p] = cells[p]
    <3>1. CASE p \in Chip
      <4>1. p \notin Detected
        BY <3>1, TableAssumption
      <4>. QED
        BY <2>3, <4>1
    <3>2. CASE p \in Single
      <4>1. p \in Detected /\ p \notin Chip /\ p \in Status
        BY <3>2, TableAssumption DEF Single
      <4>2. after[p] = single[p]
        BY <3>2, <4>1 DEF After
      <4>3. cells[p] = single[p].status
        BY <3>2, <4>1 DEF Cells
      <4>. QED
        BY <2>3, <4>1, <4>2, <4>3
    <3>. QED BY <2>1, <3>1, <3>2 DEF Covers
  <2>. HIDE DEF cells, single
  <2>6. after[q] = Detector(q, Trig(q, "hold", cells), Rls(q, "hold", cells))
    BY <2>4 DEF After
  <2>7. Trig(q, "hold", cells) /\ ~Rls(q, "hold", cells)
    BY <2>4, <2>5 DEF Trig, Rls
  <2>8. Detector(q, TRUE, FALSE).status
    <3>1. /\ [status |-> status[q], tms |-> tms[q], rms |-> rms[q]]
               \in [status : BOOLEAN, tms : Nat, rms : Nat]
          /\ afe_times \in Nat
      BY <2>4 DEF TypeOK
    <3>. QED
      BY <2>4, <3>1, FollowsMember DEF Detector
  <2>9. status'[q] = after[q].status
    BY <2>3, <2>4
  <2>10. Trig(q, "hold", cells) = TRUE /\ Rls(q, "hold", cells) = FALSE
    BY <2>4, <2>7 DEF Trig, Rls
  <2>. QED
    BY <2>6, <2>8, <2>9, <2>10
<1>. QED BY <1>1, <1>2

\* What the steps of the table and of the first cycle leave of a refusal.
LEMMA Refusals ==
  ASSUME Remember
  PROVE  /\ Asked(DsgOpr) = On /\ stood.dsg => refused'.dsg
         /\ Asked(DsgOpr) = Keep /\ refused.dsg => refused'.dsg
         /\ Asked(ChgOpr) = On /\ stood.chg => refused'.chg
         /\ Asked(ChgOpr) = Keep /\ refused.chg => refused'.chg
<1>. DEFINE d == RefusedAfter(Asked(DsgOpr), stood.dsg, refused.dsg)
            c == RefusedAfter(Asked(ChgOpr), stood.chg, refused.chg)
<1>1. refused' = [dsg |-> d, chg |-> c]
  BY Zenon DEF Remember
<1>2. ASSUME NEW asked, NEW stands, asked = On, stands, NEW before
      PROVE  RefusedAfter(asked, stands, before)
  BY <1>2, Zenon DEF RefusedAfter
<1>3. /\ Asked(DsgOpr) = On /\ stood.dsg => d
      /\ Asked(DsgOpr) = Keep /\ refused.dsg => d
      /\ Asked(ChgOpr) = On /\ stood.chg => c
      /\ Asked(ChgOpr) = Keep /\ refused.chg => c
  BY <1>2, KeepsRefused, Zenon
<1>. HIDE DEF d, c
<1>4. refused'.dsg = d /\ refused'.chg = c
  BY <1>1
<1>. QED
  BY <1>3, <1>4, Zenon

\* The operations of the table.
LEMMA OperateRecovers ==
  TypeOK /\ PulseInv /\ RecoverInv /\ Operate /\ Remember => RecoverInv'
<1>. SUFFICES ASSUME TypeOK, PulseInv, RecoverInv, Operate, Remember PROVE RecoverInv'
  OBVIOUS
<1>. DEFINE edge == status[Order[k]] # old[Order[k]]
            d == Edge(DsgOpr)
            c == Edge(ChgOpr)
<1>1. /\ pc = "operate" /\ k' = k + 1
      /\ UNCHANGED <<pc, status, can, first_cycle, mos_lock, smart_off>>
      /\ MosCtlIf(edge, Request(Order[k], DsgOpr), Request(Order[k], ChgOpr), Keep, -1)
  BY DEF Operate, detectors, samples, host
<1>2. k \in 1..N
  BY LengthType DEF Operate, TypeOK, PulseInv
<1>3. k # k' /\ pc # "first" /\ pc # "evaluate"
  BY <1>1, <1>2
<1>4. Asked(DsgOpr) = d /\ Asked(ChgOpr) = c
  BY <1>1, <1>3, Zenon DEF Asked, Edge
<1>5. stood' = stood
  BY <1>3, Zenon DEF Remember
<1>6. On # Off /\ On # Keep /\ Off # Keep
  BY DEF On, Off, Keep
<1>7. /\ ~sys_mos_lock'
      /\ d = On /\ can.dsg => ctl'.dsg
      /\ c = On /\ can.chg => ctl'.chg
      /\ ctl.dsg /\ d # Off => ctl'.dsg
      /\ ctl.chg /\ c # Off => ctl'.chg
  <2>1. ~mos_lock.dsg /\ ~mos_lock.chg /\ ~sys_mos_lock
    BY DEF RecoverInv
  <2>. DEFINE rd == Request(Order[k], DsgOpr)
              rc == Request(Order[k], ChgOpr)
  <2>2. MosCtlIf(edge, rd, rc, Keep, -1)
    BY <1>1
  <2>3. /\ edge => d = rd /\ c = rc
        /\ ~edge => d = Keep /\ c = Keep
    BY Zenon DEF Edge
  <2>. HIDE DEF rd, rc, d, c, edge
  <2>4. /\ ~sys_mos_lock'
        /\ edge /\ rd = On /\ can.dsg => ctl'.dsg
        /\ edge /\ rc = On /\ can.chg => ctl'.chg
        /\ ctl.dsg /\ ~(edge /\ rd = Off) => ctl'.dsg
        /\ ctl.chg /\ ~(edge /\ rc = Off) => ctl'.chg
    BY <2>1, <2>2, MosCtlGrants
  <2>5. CASE edge
    BY <2>3, <2>4, <2>5, Zenon
  <2>6. CASE ~edge
    BY <1>6, <2>3, <2>4, <2>6, Zenon
  <2>. QED BY <2>5, <2>6
<1>8. /\ d = On /\ stood.dsg => refused'.dsg
      /\ d = Keep /\ refused.dsg => refused'.dsg
      /\ c = On /\ stood.chg => refused'.chg
      /\ c = Keep /\ refused.chg => refused'.chg
  BY <1>4, Refusals, Zenon
<1>9. /\ can.dsg \/ stood.dsg \/ Standing(DsgOpr)
      /\ can.chg \/ stood.chg \/ Standing(ChgOpr)
  BY <1>1 DEF RecoverInv
<1>10. /\ d \in {On, Off, Keep}
       /\ Standing(DsgOpr) => Owed(DsgOpr)'
       /\ d = Off => Owed(DsgOpr)'
       /\ d = Keep /\ Owed(DsgOpr) => Owed(DsgOpr)'
  BY OwedOperate, TableAssumption
<1>11. /\ c \in {On, Off, Keep}
       /\ Standing(ChgOpr) => Owed(ChgOpr)'
       /\ c = Off => Owed(ChgOpr)'
       /\ c = Keep /\ Owed(ChgOpr) => Owed(ChgOpr)'
  BY OwedOperate, TableAssumption
<1>. HIDE DEF d, c, edge
<1>12. ctl.dsg \/ refused.dsg \/ Owed(DsgOpr) => ctl'.dsg \/ refused'.dsg \/ Owed(DsgOpr)'
  BY <1>6, <1>7, <1>8, <1>9, <1>10
<1>13. ctl.chg \/ refused.chg \/ Owed(ChgOpr) => ctl'.chg \/ refused'.chg \/ Owed(ChgOpr)'
  BY <1>6, <1>7, <1>8, <1>9, <1>11
<1>. QED
  BY <1>1, <1>5, <1>7, <1>12, <1>13 DEF RecoverInv, Standing

\* The request of the first cycle.
LEMMA FirstRecovers ==
  TypeOK /\ RecoverInv /\ FirstCycle /\ Remember => RecoverInv'
<1>. SUFFICES ASSUME TypeOK, RecoverInv, FirstCycle, Remember PROVE RecoverInv'
  OBVIOUS
<1>1. /\ pc = "first" /\ pc' = "export"
      /\ UNCHANGED <<status, old, can, first_cycle, mos_lock, smart_off>>
      /\ MosCtlIf(first_cycle, On, On, Keep, 0)
  BY DEF FirstCycle, Step, detectors, samples, host
<1>2. On # Off
  BY DEF On, Off
<1>3. /\ ~sys_mos_lock'
      /\ first_cycle /\ can.dsg => ctl'.dsg
      /\ first_cycle /\ can.chg => ctl'.chg
      /\ ctl.dsg => ctl'.dsg
      /\ ctl.chg => ctl'.chg
  BY <1>1, <1>2, MosCtlGrants DEF RecoverInv
<1>4. /\ can.dsg \/ stood.dsg \/ Standing(DsgOpr)
      /\ can.chg \/ stood.chg \/ Standing(ChgOpr)
  BY <1>1 DEF RecoverInv
<1>5. /\ Standing(DsgOpr) => Owed(DsgOpr)'
      /\ Standing(ChgOpr) => Owed(ChgOpr)'
      /\ Owed(DsgOpr) => Owed(DsgOpr)'
      /\ Owed(ChgOpr) => Owed(ChgOpr)'
  BY <1>1 DEF Standing, Owed
<1>6. /\ ctl'.dsg \/ refused'.dsg \/ Owed(DsgOpr)'
      /\ ctl'.chg \/ refused'.chg \/ Owed(ChgOpr)'
  <2>1. CASE first_cycle
    <3>1. Asked(DsgOpr) = On /\ Asked(ChgOpr) = On
      BY <1>1, <2>1, Zenon DEF Asked
    <3>2. (stood.dsg => refused'.dsg) /\ (stood.chg => refused'.chg)
      BY <3>1, Refusals, Zenon
    <3>. QED
      BY <1>3, <1>4, <1>5, <2>1, <3>2
  <2>2. CASE ~first_cycle
    <3>1. (refused.dsg => refused'.dsg) /\ (refused.chg => refused'.chg)
      BY <1>1, <2>2, NothingAsked
    <3>2. /\ ctl.dsg \/ refused.dsg \/ Owed(DsgOpr)
          /\ ctl.chg \/ refused.chg \/ Owed(ChgOpr)
      BY <2>2 DEF RecoverInv
    <3>. QED
      BY <1>3, <1>5, <3>1, <3>2
  <2>. QED BY <2>1, <2>2
<1>. QED
  BY <1>1, <1>3, <1>6 DEF RecoverInv

\* A step that opens no path and touches neither statuses nor edges keeps what
\* an open path waits for.
LEMMA StillOwed ==
  ASSUME UNCHANGED <<status, old, ctl>>, refused.dsg => refused'.dsg,
         refused.chg => refused'.chg
  PROVE  /\ ctl.dsg \/ refused.dsg \/ Owed(DsgOpr) => ctl'.dsg \/ refused'.dsg \/ Owed(DsgOpr)'
         /\ ctl.chg \/ refused.chg \/ Owed(ChgOpr) => ctl'.chg \/ refused'.chg \/ Owed(ChgOpr)'
BY DEF Owed, Standing

LEMMA NextRecovers ==
  ASSUME OnlyProtections, TypeOK, PulseInv, RecoverInv, [HNext]_hvars
  PROVE  RecoverInv'
<1>0. CASE UNCHANGED hvars
  BY <1>0 DEF hvars, vars, pulse, host, RecoverInv, Seen, Standing, Owed
<1>. SUFFICES ASSUME Next, Remember PROVE RecoverInv'
  BY <1>0 DEF HNext
<1>1. ASSUME NEW has_data \in BOOLEAN, NEW has_flag \in BOOLEAN, NEW por_flag \in BOOLEAN,
             Flag(has_data, has_flag, por_flag)
      PROVE  RecoverInv'
  <2>1. /\ pc = "wait" /\ pc' \in {"wait", "detect"}
        /\ UNCHANGED <<status, old, sys_mos_lock, first_cycle, mos_lock, smart_off>>
    BY <1>1 DEF Flag, detectors, host
  <2>2. (ctl.dsg => ctl'.dsg) /\ (ctl.chg => ctl'.chg)
    BY <1>1 DEF Flag, TypeOK, RecoverInv
  <2>3. (refused.dsg => refused'.dsg) /\ (refused.chg => refused'.chg)
    BY <2>1, NothingAsked
  <2>. QED
    BY <2>1, <2>2, <2>3 DEF RecoverInv, Standing, Owed
<1>2. CASE Detect
  <2>1. /\ pc = "detect" /\ pc' = "evaluate" /\ k = N + 1 /\ N \in Nat
        /\ UNCHANGED <<old, ctl, sys_mos_lock, first_cycle, mos_lock, smart_off>>
    BY <1>2, LengthType DEF Detect, PulseInv, control, host
  <2>2. Seen(DsgGroup, DsgOpr)' /\ Seen(ChgGroup, ChgOpr)'
    BY <1>2, DetectSeen, TableAssumption DEF Status
  <2>3. ASSUME NEW opr \in SUBSET Operated, NEW q \in Own(opr) PROVE old[q] = status[q]
    <3>1. PICK i \in 1..N : Order[i] = q
      BY DEF Operated, Own
    <3>2. q \in Guarded
      BY DEF Guarded, Own
    <3>. QED
      BY <2>1, <3>1, <3>2 DEF PulseInv
  <2>4. ASSUME NEW opr \in SUBSET Operated, Owed(opr) PROVE Owed(opr)'
    <3>1. \E q \in opr : old[q]
      BY <2>3, <2>4 DEF Owed, Standing, Own
    <3>. QED
      BY <2>1, <3>1 DEF Owed
  <2>5. (refused.dsg => refused'.dsg) /\ (refused.chg => refused'.chg)
    BY <2>1, NothingAsked
  <2>. QED
    BY <2>1, <2>2, <2>4, <2>5, TableAssumption DEF RecoverInv
<1>3. CASE Evaluate
  <2>1. /\ pc = "evaluate" /\ pc' = "operate"
        /\ UNCHANGED <<status, old, ctl, sys_mos_lock, first_cycle, mos_lock, smart_off>>
    BY <1>3 DEF Evaluate, control, detectors, host
  <2>2. /\ can'.dsg = \A p \in DsgGroup : ~status[p]
        /\ can'.chg = \A p \in ChgGroup : ~status[p]
    BY <1>3 DEF Evaluate
  <2>3. stood'.dsg = Stood(DsgGroup, DsgOpr) /\ stood'.chg = Stood(ChgGroup, ChgOpr)
    <3>. DEFINE d == Stood(DsgGroup, DsgOpr)
                c == Stood(ChgGroup, ChgOpr)
    <3>1. stood' = [dsg |-> d, chg |-> c]
      BY <2>1, Zenon DEF Remember
    <3>. HIDE DEF d, c
    <3>. QED
      BY <3>1 DEF d, c
  <2>4. /\ can'.dsg \/ stood'.dsg \/ Standing(DsgOpr)
        /\ can'.chg \/ stood'.chg \/ Standing(ChgOpr)
    BY <2>1, <2>2, <2>3 DEF RecoverInv, Seen, Stood, Own
  <2>5. (refused.dsg => refused'.dsg) /\ (refused.chg => refused'.chg)
    BY <2>1, NothingAsked
  <2>. QED
    BY <2>1, <2>4, <2>5, StillOwed DEF RecoverInv, Standing
<1>4. CASE Operate
  BY <1>4, OperateRecovers
<1>5. CASE AutoMos
  <2>1. /\ pc = "operate" /\ pc' = "first"
        /\ UNCHANGED <<k, status, old, can, ctl, sys_mos_lock, first_cycle, mos_lock, smart_off>>
    BY <1>5 DEF AutoMos, RecoverInv, control, detectors, samples, host
  <2>2. stood' = stood
    BY <2>1, Zenon DEF Remember
  <2>3. (refused.dsg => refused'.dsg) /\ (refused.chg => refused'.chg)
    BY <2>1, NothingAsked
  <2>. QED
    BY <2>1, <2>2, <2>3, StillOwed DEF RecoverInv, Standing
<1>6. CASE IdleDsg \/ IdleChg \/ ChargerIn \/ LoadOn \/ PdsgOff
  BY <1>6 DEF IdleDsg, IdleChg, ChargerIn, LoadOn, PdsgOff, Step, RecoverInv
<1>7. CASE FirstCycle
  BY <1>7, FirstRecovers
<1>8. CASE Export
  <2>1. /\ pc = "export" /\ pc' = "wait"
        /\ UNCHANGED <<k, status, old, ctl, sys_mos_lock, mos_lock, smart_off>>
    BY <1>8 DEF Export, control, detectors, host
  <2>2. (refused.dsg => refused'.dsg) /\ (refused.chg => refused'.chg)
    BY <2>1, NothingAsked
  <2>. QED
    BY <2>1, <2>2, StillOwed DEF RecoverInv
<1>9. CASE HostLock \/ HostSmart
  <2>1. /\ UNCHANGED <<pc, k, status, old, can, ctl, sys_mos_lock, first_cycle>>
        /\ smart_off' /\ ~mos_lock'.dsg /\ ~mos_lock'.chg
    <3>1. smart_off /\ ~mos_lock.dsg /\ ~mos_lock.chg
      BY DEF RecoverInv
    <3>2. CASE HostLock
      <4>1. ~mos_lock'.dsg /\ ~mos_lock'.chg
        BY <3>2 DEF HostLock, OnlyProtections
      <4>. QED
        BY <3>1, <3>2, <4>1 DEF HostLock, pulse
    <3>3. CASE HostSmart
      BY <3>1, <3>3 DEF HostSmart, pulse, OnlyProtections
    <3>. QED BY <1>9, <3>2, <3>3
  <2>2. stood' = stood
    BY <2>1, Zenon DEF Remember
  <2>3. (refused.dsg => refused'.dsg) /\ (refused.chg => refused'.chg)
    BY <2>1, NothingAsked
  <2>. QED
    BY <2>1, <2>2, <2>3, StillOwed DEF RecoverInv, Seen, Standing
<1>10. CASE HostEnv
  <2>1. /\ UNCHANGED <<pc, k, old, can, ctl, sys_mos_lock, first_cycle, mos_lock, smart_off>>
        /\ \A q : q \notin EnvWritable => status'[q] = status[q]
    BY <1>10 DEF HostEnv, control, samples, host, TypeOK
  <2>2. stood' = stood
    BY <2>1, Zenon DEF Remember
  <2>3. (refused.dsg => refused'.dsg) /\ (refused.chg => refused'.chg)
    BY <2>1, NothingAsked
  <2>4. ASSUME NEW opr PROVE Standing(opr)' = Standing(opr) /\ (Owed(opr) => Owed(opr)')
    BY <2>1 DEF Standing, Owed, Own
  <2>5. ASSUME NEW group, NEW opr, Seen(group, opr) PROVE Seen(group, opr)'
    BY <2>1, <2>4, <2>5 DEF Seen
  <2>. QED
    BY <2>1, <2>2, <2>3, <2>4, <2>5 DEF RecoverInv
<1>. QED
  BY <1>1, <1>2, <1>3, <1>4, <1>5, <1>6, <1>7, <1>8, <1>9, <1>10 DEF Next, Pulse

LEMMA InitRecovers ==
  ASSUME OnlyProtections, HInit
  PROVE  RecoverInv
<1>1. smart_off /\ ~mos_lock.dsg /\ ~mos_lock.chg
  BY DEF HInit, Init, OnlyProtections
<1>. QED
  BY <1>1 DEF HInit, Init, RecoverInv

\* The history is a pair of truth values per path.
THEOREM HTypeCorrect == HSpec => []HTypeOK
<1>1. HInit => HTypeOK
  BY DEF HInit, HTypeOK
<1>2. HTypeOK /\ [HNext]_hvars => HTypeOK'
  <2>. SUFFICES ASSUME HTypeOK, [HNext]_hvars PROVE HTypeOK'
    OBVIOUS
  <2>1. CASE UNCHANGED hvars
    BY <2>1 DEF hvars, HTypeOK
  <2>2. CASE Remember
    <3>1. Stood(DsgGroup, DsgOpr) \in BOOLEAN /\ Stood(ChgGroup, ChgOpr) \in BOOLEAN
      BY DEF Stood
    <3>2. ASSUME NEW asked, NEW stands \in BOOLEAN, NEW before \in BOOLEAN
          PROVE  RefusedAfter(asked, stands, before) \in BOOLEAN
      BY DEF RefusedAfter
    <3>. DEFINE d == RefusedAfter(Asked(DsgOpr), stood.dsg, refused.dsg)
                c == RefusedAfter(Asked(ChgOpr), stood.chg, refused.chg)
    <3>3. d \in BOOLEAN /\ c \in BOOLEAN
      BY <3>2 DEF HTypeOK
    <3>4. refused' = [dsg |-> d, chg |-> c]
      BY <2>2, Zenon DEF Remember
    <3>. HIDE DEF d, c
    <3>5. refused' \in [dsg : BOOLEAN, chg : BOOLEAN]
      BY <3>3, <3>4
    <3>6. stood' \in [dsg : BOOLEAN, chg : BOOLEAN]
      BY <2>2, <3>1 DEF Remember, HTypeOK
    <3>. QED
      BY <3>5, <3>6 DEF HTypeOK
  <2>. QED
    BY <2>1, <2>2 DEF HNext
<1>. QED
  BY <1>1, <1>2, PTL DEF HSpec

\* The history changes no behaviour of the pulse.
LEMMA HistoryOnly ==
  /\ HInit => Init
  /\ [HNext]_hvars => [Next]_vars
BY DEF HInit, HNext, hvars

\* When only protections open paths, a path is closed again as soon as its
\* protections are all released, in whatever order they overlapped, unless it
\* was last asked for while a status stood whose release no edge follows: one
\* without operation, or one the host writes.  For every table, that of the
\* program included (pp_afe_soft_set4data, pp_afe_soft_opr4data).
THEOREM RecoversSafe == HSpec => []RecoversWhenClear
<1>1. CASE OnlyProtections
  <2>1. HInit => TypeOK /\ PulseInv /\ RecoverInv
    BY <1>1, HistoryOnly, InitType, InitInv, InitRecovers
  <2>2. (TypeOK /\ PulseInv /\ RecoverInv) /\ [HNext]_hvars => (TypeOK /\ PulseInv /\ RecoverInv)'
    BY <1>1, HistoryOnly, NextType, NextInv, NextRecovers
  <2>3. TypeOK /\ PulseInv /\ RecoverInv => RecoversWhenClear
    BY DEF RecoversWhenClear, RecoverInv, Clear, Owed, Standing, Own
  <2>. QED
    BY <2>1, <2>2, <2>3, PTL DEF HSpec
<1>2. CASE ~OnlyProtections
  <2>1. RecoversWhenClear
    BY <1>2 DEF RecoversWhenClear
  <2>. QED
    BY <2>1, PTL
<1>. QED BY <1>1, <1>2
=============================================================================
