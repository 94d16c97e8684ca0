--------------------------- MODULE DebounceProofs ----------------------------
(***************************************************************************)
(* The debouncing of a status is right for every delay and every pattern   *)
(* of missed pulses.                                                       *)
(***************************************************************************)
EXTENDS Debounce, TLAPS

-----------------------------------------------------------------------------
(* Types. *)

\* The accumulator is cleared whenever it reaches the delay.
LEMMA AccumulatedBounded ==
  ASSUME NEW m \in Nat, NEW condition \in BOOLEAN, NEW dly \in 0..Horizon,
         NEW cycles \in Nat \ {0}
  PROVE  /\ Accumulated(m, condition, dly, cycles) \in 0..Horizon
         /\ Fires(m, condition, dly, cycles) \in BOOLEAN
  BY HorizonAssumption DEF Accumulated, Fires

\* The histories saturate at the horizon.
LEMMA HeldType ==
  ASSUME NEW for \in 0..Horizon, NEW condition \in BOOLEAN, NEW cycles \in Nat \ {0}
  PROVE  Held(for, condition, cycles) \in 0..Horizon
  BY HorizonAssumption DEF Held

\* An accumulator that does not exceed the history of its condition fires only
\* when the condition has held for the delay, and does not exceed it after the
\* sample; one that equals the history fires exactly then, and equals it after.
LEMMA Counting ==
  ASSUME NEW m \in 0..Horizon, NEW h \in 0..Horizon, m <= h, NEW condition \in BOOLEAN,
         NEW dly \in 0..Horizon, NEW cycles \in Nat \ {0}
  PROVE  LET f == Fires(m, condition, dly, cycles)
             a == Accumulated(m, condition, dly, cycles)
             held == Held(h, condition, cycles)
         IN  /\ f => condition /\ held >= dly /\ a = 0
             /\ a <= held
             /\ m = h => f = (condition /\ held >= dly) /\ (~f => a = held)
  BY HorizonAssumption DEF Fires, Accumulated, Held

\* What one sample leaves of the status and its accumulators.
LEMMA StatusSetFields ==
  ASSUME NEW d, d.status \in BOOLEAN, d.tms \in Nat, d.rms \in Nat,
         NEW trig \in BOOLEAN, NEW rls \in BOOLEAN, ~(trig /\ rls),
         NEW dly \in Nat, NEW cycles \in Nat \ {0}
  PROVE  LET s == StatusSet(d, trig, rls, dly, cycles)
             up == Fires(d.tms, trig, dly, cycles)
             down == Fires(d.rms, rls, dly, cycles)
         IN  /\ ~d.status => /\ s.status = up
                             /\ s.tms = Accumulated(d.tms, trig, dly, cycles)
                             /\ s.rms = 0
             /\ d.status => /\ s.status = ~down
                            /\ s.tms = 0
                            /\ s.rms = Accumulated(d.rms, rls, dly, cycles)
  BY DEF StatusSet, Fires, Accumulated

Inv == TypeOK /\ Synchronized

-----------------------------------------------------------------------------
(* One step. *)

\* A sample keeps the accumulators synchronized with the histories, and moves
\* the status and fires the time-out exactly when the delay has elapsed.
LEMMA SampleStep ==
  ASSUME Inv, NEW trig \in BOOLEAN, NEW rls \in BOOLEAN, NEW missed \in BOOLEAN,
         Sample(trig, rls, missed)
  PROVE  /\ Inv'
         /\ ~det.status => det'.status = (trig /\ trig_for' >= delay)
         /\ det.status => det'.status = ~(rls /\ rls_for' >= delay)
         /\ fired' => trig /\ trig_for' >= delay
<1>. DEFINE t == Accumulated(det.tms, trig, delay, times')
            r == Accumulated(det.rms, rls, delay, times')
            up == Fires(det.tms, trig, delay, times')
            down == Fires(det.rms, rls, delay, times')
<1>1. /\ times' \in {1, 4} /\ times' \in Nat \ {0} /\ Horizon \in Nat
      /\ (times' = 1 => times = 1 /\ ~missed)
      /\ delay \in 0..Horizon /\ delay' = delay /\ delay \in Delays
      /\ det \in [status : BOOLEAN, tms : 0..Horizon, rms : 0..Horizon]
      /\ ms \in 0..Horizon
      /\ trig_for \in 0..Horizon /\ rls_for \in 0..Horizon /\ real_for \in 0..Horizon
      /\ ~(trig /\ rls)
  BY DelaysAssumption, HorizonAssumption DEF Inv, TypeOK, Sample, CyclesAfter
<1>2. /\ det' = StatusSet(det, trig, rls, delay, times')
      /\ ms' = Accumulated(ms, trig, delay, times')
      /\ fired' = Fires(ms, trig, delay, times')
      /\ trig_for' = Held(trig_for, trig, times')
      /\ rls_for' = Held(rls_for, rls, times')
  BY DEF Sample
<1>3. /\ ~det.status => det'.status = up /\ det'.tms = t /\ det'.rms = 0
      /\ det.status => det'.status = ~down /\ det'.tms = 0 /\ det'.rms = r
  BY <1>1, <1>2, StatusSetFields
<1>4. /\ t \in 0..Horizon /\ r \in 0..Horizon
      /\ ms' \in 0..Horizon /\ fired' \in BOOLEAN
      /\ up \in BOOLEAN /\ down \in BOOLEAN
  <2>1. det.tms \in Nat /\ det.rms \in Nat /\ ms \in Nat
    BY <1>1
  <2>2. t \in 0..Horizon /\ up \in BOOLEAN
    BY <1>1, <2>1, AccumulatedBounded
  <2>3. r \in 0..Horizon /\ down \in BOOLEAN
    BY <1>1, <2>1, AccumulatedBounded
  <2>4. ms' \in 0..Horizon /\ fired' \in BOOLEAN
    BY <1>1, <1>2, <2>1, AccumulatedBounded
  <2>. HIDE DEF t, r, up, down
  <2>. QED
    BY <2>2, <2>3, <2>4
<1>5. trig_for' \in 0..Horizon /\ rls_for' \in 0..Horizon /\ real_for' \in 0..Horizon
  <2>1. (IF missed THEN Wait ELSE 1) \in Nat \ {0}
    BY WaitAssumption
  <2>2. real_for' = Held(real_for, trig, IF missed THEN Wait ELSE 1)
    BY DEF Sample
  <2>. QED
    BY <1>1, <1>2, <2>1, <2>2, HeldType
<1>6. det' \in [status : BOOLEAN, tms : 0..Horizon, rms : 0..Horizon]
  <2>1. det' = [status |-> det'.status, tms |-> det'.tms, rms |-> det'.rms]
    BY <1>2 DEF StatusSet
  <2>2. det'.status \in BOOLEAN /\ det'.tms \in 0..Horizon /\ det'.rms \in 0..Horizon
    BY <1>1, <1>3, <1>4
  <2>. QED
    BY <2>1, <2>2
<1>sync. /\ ~det.status => det.tms = trig_for /\ det.rms = 0
         /\ det.status => det.tms = 0 /\ det.rms = rls_for
         /\ ms <= trig_for
  BY DEF Inv, Synchronized
<1>7. ~det.status => /\ up = (trig /\ trig_for' >= delay)
                     /\ ~up => t = trig_for'
                     /\ up => rls_for' = 0 /\ trig /\ t = 0
  <2>. SUFFICES ASSUME ~det.status
                PROVE  /\ up = (trig /\ trig_for' >= delay)
                       /\ ~up => t = trig_for'
                       /\ up => rls_for' = 0 /\ trig /\ t = 0
    OBVIOUS
  <2>1. det.tms \in 0..Horizon /\ det.tms = trig_for
    BY <1>1, <1>sync
  <2>2. /\ up = (trig /\ trig_for' >= delay)
        /\ ~up => t = trig_for'
        /\ up => trig /\ t = 0
    BY <1>1, <1>2, <2>1, Counting
  <2>3. ~rls => rls_for' = 0
    BY <1>2 DEF Held
  <2>. QED
    BY <1>1, <2>2, <2>3
<1>8. det.status => /\ down = (rls /\ rls_for' >= delay)
                    /\ ~down => r = rls_for'
                    /\ down => trig_for' = 0 /\ rls /\ r = 0
  <2>. SUFFICES ASSUME det.status
                PROVE  /\ down = (rls /\ rls_for' >= delay)
                       /\ ~down => r = rls_for'
                       /\ down => trig_for' = 0 /\ rls /\ r = 0
    OBVIOUS
  <2>1. det.rms \in 0..Horizon /\ det.rms = rls_for
    BY <1>1, <1>sync
  <2>2. /\ down = (rls /\ rls_for' >= delay)
        /\ ~down => r = rls_for'
        /\ down => rls /\ r = 0
    BY <1>1, <1>2, <2>1, Counting
  <2>3. ~trig => trig_for' = 0
    BY <1>2 DEF Held
  <2>. QED
    BY <1>1, <2>2, <2>3
<1>9. ms' <= trig_for' /\ (fired' => trig /\ trig_for' >= delay)
  BY <1>1, <1>2, <1>sync, Counting
<1>10. TypeOK'
  BY <1>1, <1>4, <1>5, <1>6 DEF TypeOK
<1>11. times' = 1 => real_for' = trig_for'
  <2>. SUFFICES ASSUME times' = 1 PROVE real_for' = trig_for'
    OBVIOUS
  <2>1. ~missed /\ real_for = trig_for
    BY <1>1 DEF Inv, Synchronized
  <2>2. real_for' = Held(real_for, trig, 1)
    BY <2>1 DEF Sample
  <2>. QED
    BY <1>2, <2>1, <2>2
<1>12. Synchronized'
  BY <1>3, <1>4, <1>7, <1>8, <1>9, <1>11 DEF Synchronized
<1>. QED
  BY <1>3, <1>7, <1>8, <1>9, <1>10, <1>12 DEF Inv

LEMMA NextStep == Inv /\ [Next]_vars => Inv'
<1>. SUFFICES ASSUME Inv, [Next]_vars PROVE Inv'
  OBVIOUS
<1>1. CASE UNCHANGED vars
  BY <1>1 DEF vars, Inv, TypeOK, Synchronized
<1>. QED
  BY <1>1, SampleStep DEF Next

\* The accumulators always agree with the time the conditions have held.
THEOREM InvHolds == Spec => []Inv
<1>1. Init => Inv
  <2>. SUFFICES ASSUME Init PROVE Inv
    OBVIOUS
  <2>1. 0 \in 0..Horizon
    BY HorizonAssumption
  <2>2. TypeOK
    BY <2>1 DEF Init, TypeOK
  <2>3. Synchronized
    BY DEF Init, Synchronized
  <2>. QED
    BY <2>2, <2>3 DEF Inv
<1>. QED
  BY <1>1, NextStep, PTL DEF Spec

\* The accumulators and the histories keep their types: no accumulator reaches
\* its delay and stays there (pp_continued0).
THEOREM TypeCorrect == Spec => []TypeOK
<1>1. Inv => TypeOK
  BY DEF Inv
<1>. QED
  BY <1>1, InvHolds, PTL

-----------------------------------------------------------------------------
(* What the debouncing promises. *)

\* No status changes and no time-out fires before its condition has held for
\* the delay (_status_set, pp_continued0).
THEOREM DebouncedAlways == Spec => Debounced
<1>. DEFINE Good == /\ ~det.status /\ det'.status => trig_for' > 0 /\ trig_for' >= delay
                    /\ det.status /\ ~det'.status => rls_for' > 0 /\ rls_for' >= delay
                    /\ fired' => trig_for' > 0 /\ trig_for' >= delay
<1>1. Inv /\ [Next]_vars => [Good]_vars
  <2>. SUFFICES ASSUME Inv, NEW trig \in BOOLEAN, NEW rls \in BOOLEAN,
                       NEW missed \in BOOLEAN, Sample(trig, rls, missed)
                PROVE  Good
    BY DEF Next
  <2>1. /\ trig => trig_for' > 0
        /\ rls => rls_for' > 0
    BY DelaysAssumption, HorizonAssumption
    DEF Sample, Held, Inv, TypeOK, CyclesAfter
  <2>. QED
    BY <2>1, SampleStep
<1>. QED
  BY <1>1, InvHolds, PTL DEF Spec, Debounced

\* A condition that has held for the delay is acted on at that very sample
\* (_status_set).
THEOREM PromptAlways == Spec => Prompt
<1>. DEFINE Good == /\ trig_for' > 0 /\ trig_for' >= delay => det'.status
                    /\ rls_for' > 0 /\ rls_for' >= delay => ~det'.status
<1>1. Inv /\ [Next]_vars => [Good]_vars
  <2>. SUFFICES ASSUME Inv, NEW trig \in BOOLEAN, NEW rls \in BOOLEAN,
                       NEW missed \in BOOLEAN, Sample(trig, rls, missed)
                PROVE  Good
    BY DEF Next
  <2>1. /\ trig_for' > 0 => trig
        /\ rls_for' > 0 => rls
        /\ ~(trig /\ rls)
    BY DEF Sample, Held
  <2>2. /\ ~det.status => det'.status = (trig /\ trig_for' >= delay)
        /\ det.status => det'.status = ~(rls /\ rls_for' >= delay)
    BY SampleStep
  <2>3. det.status \in BOOLEAN
    BY DEF Inv, TypeOK
  <2>. QED
    BY <2>1, <2>2, <2>3
<1>. QED
  BY <1>1, InvHolds, PTL DEF Spec, Prompt
=============================================================================
