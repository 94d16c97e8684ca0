----------------------------- MODULE Continued -----------------------------
(***************************************************************************)
(* The time accumulator every delay of the program is built on             *)
(* (pp_continued.c) and the debounced status made of two of them           *)
(* (_status_set of pp_afe_soft_s.c).  Time is counted in AFE cycles: one   *)
(* call adds afe_times cycles.                                             *)
(***************************************************************************)
EXTENDS Naturals

\* Mutant: a missed interrupt multiplies the cycles instead of setting them.
CyclesGrow(afe_times, missed) == IF missed THEN 4 * afe_times ELSE afe_times

\* The cycles a pulse counts for: one without interrupt counts for 4, and
\* nothing ever sets afe_times back.
CyclesAfter(afe_times, missed) == IF missed THEN 4 ELSE afe_times

\* pp_continued(&ms, condition, delay): what it returns, and what it leaves in
\* the accumulator.  It resets the accumulator when it fires.
\* Mutant: the comparison is strict.
FiresLate(ms, condition, delay, cycles) == condition /\ ms + cycles > delay

Fires(ms, condition, delay, cycles) == condition /\ ms + cycles >= delay

\* Mutant: the accumulator is not reset when it fires.
AccumulatedForever(ms, condition, delay, cycles) == IF condition THEN ms + cycles ELSE 0

Accumulated(ms, condition, delay, cycles) ==
  IF condition /\ ms + cycles < delay THEN ms + cycles ELSE 0

\* Mutant: what no longer trips counts as released.
StatusSetSwapped(d, trig, rls, delay, cycles) ==
  LET release == d.status /\ ~trig
      up      == d.status /\ ~Fires(d.rms, release, delay, cycles)
      trip    == ~up /\ trig
  IN  [status |-> up \/ Fires(d.tms, trip, delay, cycles),
       tms    |-> Accumulated(d.tms, trip, delay, cycles),
       rms    |-> Accumulated(d.rms, release, delay, cycles)]

\* _status_set: the trip accumulator runs first, so the release accumulator
\* already sees a status that has just tripped.
StatusSet(d, trig, rls, delay, cycles) ==
  LET trip    == ~d.status /\ trig
      up      == d.status \/ Fires(d.tms, trip, delay, cycles)
      release == up /\ rls
  IN  [status |-> up /\ ~Fires(d.rms, release, delay, cycles),
       tms    |-> Accumulated(d.tms, trip, delay, cycles),
       rms    |-> Accumulated(d.rms, release, delay, cycles)]
=============================================================================
