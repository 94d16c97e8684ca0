------------------------------ MODULE Debounce -------------------------------
(***************************************************************************)
(* One debounced protection status and one bare time-out, sampled by the   *)
(* pulse thread (_SOFT_DET and _status_set of pp_afe_soft_s.c, PP_CONTINUED*)
(* of pp_continued.h).  The delays are constants of the build; time is     *)
(* counted in AFE cycles, a delay that is no multiple of one rounded up.   *)
(***************************************************************************)
EXTENDS Integers, Continued

CONSTANTS
  Delays,  \* the delays of the build's detectors
  Wait,    \* the cycles a pulse waits for an interrupt that does not come
  Horizon  \* bound: the histories saturate here, at or above every delay

ASSUME DelaysAssumption == Delays \subseteq 0..Horizon
ASSUME WaitAssumption == Wait \in 1..4
ASSUME HorizonAssumption == Horizon \in Nat \ {0}

VARIABLES
  det,       \* the status with its two accumulators
  ms,        \* the accumulator of a bare PP_CONTINUED on the trip condition
  fired,     \* what that PP_CONTINUED returned at the last sample
  delay,     \* the delay of both
  times,     \* _afe.afe_times
  trig_for,  \* history: the counted cycles every sample has had the trip condition
  rls_for,   \* history: the same for the release condition
  real_for   \* history: the cycles of real time for the trip condition

vars == <<det, ms, fired, delay, times, trig_for, rls_for, real_for>>

\* No accumulator grows past the largest delay, so none overflows its int32_t.
TypeOK ==
  /\ det \in [status : BOOLEAN, tms : 0..Horizon, rms : 0..Horizon]
  /\ ms \in 0..Horizon
  /\ fired \in BOOLEAN
  /\ delay \in Delays
  /\ times \in {1, 4}
  /\ trig_for \in 0..Horizon /\ rls_for \in 0..Horizon /\ real_for \in 0..Horizon

Init ==
  /\ det = [status |-> FALSE, tms |-> 0, rms |-> 0]
  /\ ms = 0
  /\ fired = FALSE
  /\ delay \in Delays
  /\ times = 1
  /\ trig_for = 0 /\ rls_for = 0 /\ real_for = 0

\* The time a condition has held, after one more sample.
Held(for, condition, cycles) ==
  IF ~condition THEN 0 ELSE IF for + cycles > Horizon THEN Horizon ELSE for + cycles

\* One pulse.  Two thresholds apart: it meets at most one of the conditions.
Sample(trig, rls, missed) ==
  /\ ~(trig /\ rls)
  /\ times' = CyclesAfter(times, missed)
  /\ det' = StatusSet(det, trig, rls, delay, times')
  /\ ms' = Accumulated(ms, trig, delay, times')
  /\ fired' = Fires(ms, trig, delay, times')
  /\ trig_for' = Held(trig_for, trig, times')
  /\ rls_for' = Held(rls_for, rls, times')
  /\ real_for' = Held(real_for, trig, IF missed THEN Wait ELSE 1)
  /\ UNCHANGED delay

Next == \E trig, rls, missed \in BOOLEAN : Sample(trig, rls, missed)

Spec == Init /\ [][Next]_vars

-----------------------------------------------------------------------------
(* Properties. *)

\* A status changes, and a time-out fires, only after its condition has held
\* at every sample for the whole delay, whatever the samples before counted
\* for (_status_set, pp_continued0).
Debounced ==
  [][/\ ~det.status /\ det'.status => trig_for' > 0 /\ trig_for' >= delay
     /\ det.status /\ ~det'.status => rls_for' > 0 /\ rls_for' >= delay
     /\ fired' => trig_for' > 0 /\ trig_for' >= delay]_vars

\* A condition that has held for the delay is acted on at that very sample: no
\* reset of an accumulator makes a protection late, or keeps it once its
\* release condition has held.
Prompt ==
  [][/\ trig_for' > 0 /\ trig_for' >= delay => det'.status
     /\ rls_for' > 0 /\ rls_for' >= delay => ~det'.status]_vars

\* What ties the accumulators to the time the conditions really held; the
\* counted time is the real one as long as no pulse was missed.
Synchronized ==
  /\ ~det.status => det.tms = trig_for /\ det.rms = 0
  /\ det.status => det.tms = 0 /\ det.rms = rls_for
  /\ ms <= trig_for
  /\ times = 1 => real_for = trig_for

\* delay_ms is a time (pp_afe_soft_s.c:23): a status trips only after its
\* condition has held that long.
NotEarly == [][~det.status /\ det'.status => real_for' >= delay]_vars
=============================================================================
