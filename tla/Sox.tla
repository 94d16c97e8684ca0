-------------------------------- MODULE Sox --------------------------------
(***************************************************************************)
(* The gauge of the battery (pp_sox.c): what is left in it (rmah), what it *)
(* holds (fmah), and how both are learned from what is measured between a  *)
(* full and an empty battery.  _sox is kept over restarts as it was stored *)
(* last.                                                                   *)
(*                                                                         *)
(* Capacities are integers; what the code computes in floats is rounded,   *)
(* the charge of the battery alone is in thousandths of them.              *)
(* A call stands for all calls of pp_sox_cal with one measurement: the     *)
(* charge cr that flowed in them, and whether they were brief.  PP_BAT_    *)
(* OCV_SHEET is not defined: ff_x_100_x is always 0 and ff_x_100_type 0 or *)
(* 2.  soh and cyc_cnt only count, and the log lines are left out.         *)
(*                                                                         *)
(* External: the battery, charged with a loss of 1.5%, as the code expects.*)
(***************************************************************************)
EXTENDS Integers, Continued

CONSTANTS
  Design,      \* _afe_cfg.fmah
  Hundred,     \* 100 mAh
  Fade,        \* what fmah loses in a cycle, a fifth of it in max_cyc cycles
  ShortTime,   \* 10 s and 300 s in calls that are not brief
  LongTime,
  Batch,       \* calls of the program in such a call
  Packs,       \* the batteries: what each holds, whether it is at 30 to 55 degrees
  Amount,      \* charge that flows in a call
  ColdRate,    \* percent of its charge a cold battery cannot give
  StoreTime,   \* _sox is stored after so many calls at the latest
  MaxFaults    \* bound: disturbances of regular full cycles

ASSUME SoxAssumption ==
  /\ Design \in Nat /\ Hundred \in Nat /\ Fade \in Nat
  /\ Hundred > 0 /\ 5 * Hundred <= 3 * Design
  /\ ShortTime \in Nat /\ LongTime \in Nat /\ Batch \in Nat
  /\ \A p \in Packs : p.holds \in Nat /\ p.holds > 0 /\ p.warm \in BOOLEAN
  /\ Amount \in Nat /\ ColdRate \in 0 .. 49 /\ StoreTime \in Nat /\ MaxFaults \in Nat

VARIABLES
  sox,       \* _sox
  ms,        \* the accumulators of the PP_CONTINUED, in their order
  edge,      \* ov_status and uv_status of pp_sox_cal
  first,     \* _sys.first_cycle_flag
  stored,    \* _sox as it was stored last
  age,       \* calls since
  pack,      \* the battery,
  q,         \*   its charge, in thousandths,
  goal,      \*   whether it is being filled or emptied,
  cold,      \*   whether it is cold
  faults,    \* disturbances so far
  st         \* history: sox_in.st of the last call, -1 if there was none

gauge == <<sox, ms, edge, first>>
battery == <<pack, q, goal, cold>>
vars == <<gauge, stored, age, battery, faults, st>>

----------------------------------------------------------------------------
(* The arithmetic *)

Ratio(a, b) == (2 * a + b) \div (2 * b)
Percent(p, x) == Ratio(p * x, 100)
Up(a, b) == (a + b - 1) \div b
Least(a, b) == IF a < b THEN a ELSE b
Most(a, b) == IF a < b THEN b ELSE a
Abs(x) == IF x < 0 THEN -x ELSE x

(* update_fmah_careful: one percent at most. *)
Careful(fmah, predict) == Most(Percent(99, fmah), Least(predict, Percent(101, fmah)))

(* Mutant: whatever is predicted is taken. *)
LearnedAnything(fmah, predict, trusted) ==
  Least(IF trusted THEN predict ELSE Careful(fmah, predict), Percent(101, Design))

(* update_fmah: nothing below 60% of the design, nothing above 101%. *)
Learned(fmah, predict, trusted) ==
  IF 5 * predict < 3 * Design
    THEN fmah
    ELSE Least(IF trusted THEN predict ELSE Careful(fmah, predict), Percent(101, Design))

(* comp_crt_calc *)
Compensation(actual, still, crt) ==
  IF actual > 0
    THEN Most(Ratio(-9 * crt, 10), Least(4 * crt, Ratio(still * crt, actual)))
    ELSE 0

----------------------------------------------------------------------------
(* rmah_fmah_fix, in the order of the code; in is sox_in *)

(* The first call ever: the design capacity, half of it. *)
Initialised(s) ==
  LET known == s.fmah >= Hundred
      f     == IF known THEN s.fmah ELSE Learned(s.fmah, Design, TRUE)
  IN  IF known /\ s.pct # 255
        THEN s
        ELSE [s EXCEPT !.fmah = f, !.pct = 50, !.rmah = Percent(50, f)]

(* A measurement from empty to full begins. *)
Marked(s) == [s EXCEPT !.type = 2, !.dsgd = 0, !.chgd = 0]

Unmarked(s) == [s EXCEPT !.type = 0, !.dsgd = 0, !.chgd = 0]

Started(s, in) == IF in.js /\ in.fit /\ in.low THEN Marked(s) ELSE s

Cycled(s) ==
  IF 10 * s.cyc <= 9 * s.fmah
    THEN s
    ELSE [s EXCEPT !.fmah = Learned(s.fmah, s.fmah - Fade, TRUE), !.cyc = 0]

Calls(in) == IF in.brief THEN 0 ELSE 1

(* The three PP_CONTINUED: discharging since full; no longer discharging;     *)
(* not charging while a measurement from empty is under way.                  *)
Discharging(s, in) == in.st = 1 /\ s.cf = 1 /\ ~s.dsg
Discharged(s, in) == in.st # 1 /\ s.dsg
Interrupted(s, in) == in.st # 2 /\ s.type = 2 /\ s.chgd > Hundred

Watched(s, in) ==
  LET a == IF Fires(ms[1], Discharging(s, in), ShortTime, Calls(in))
             THEN [s EXCEPT !.dsg = TRUE] ELSE s
      b == IF Fires(ms[2], Discharged(a, in), ShortTime, Calls(in))
             THEN [a EXCEPT !.cf = 2, !.dsg = FALSE] ELSE a
  IN  [sox |-> IF Fires(ms[3], Interrupted(b, in), LongTime, Calls(in)) THEN Unmarked(b) ELSE b,
       ms  |-> <<Accumulated(ms[1], Discharging(s, in), ShortTime, Calls(in)),
                 Accumulated(ms[2], Discharged(a, in), ShortTime, Calls(in)),
                 Accumulated(ms[3], Interrupted(b, in), LongTime, Calls(in))>>]

(* Mutant: the loss is forgotten. *)
FilledGross(s) == IF s.chgd > s.dsgd THEN s.chgd - s.dsgd ELSE 0

(* What went in since the mark, less the 1.5% that charging costs. *)
Filled(s) == IF s.chgd > s.dsgd THEN Ratio(985 * (s.chgd - s.dsgd), 1000) ELSE 0

Full(s, in) ==
  IF ~(in.fit /\ (in.ov \/ in.cf))
    THEN s
    ELSE LET f == IF s.type = 0 THEN s.fmah ELSE Learned(s.fmah, Filled(s), TRUE)
         IN  [Unmarked(s) EXCEPT !.cf = 1, !.dsg = FALSE, !.fmah = f,
                                 !.rmah = f, !.pct = 100, !.comp = 0]

(* The first measurement from full to empty is believed, a later one at 30 to *)
(* 55 degrees and without a pause; any other one changes fmah by 1%.          *)
Emptied(s, in) ==
  LET low == s.pct < 25
      f   == IF low /\ s.cf # 0
               THEN Learned(s.fmah, s.fmah - s.rmah, ~s.lrn \/ (s.cf = 1 /\ in.warm))
               ELSE s.fmah
      m   == IF in.warm THEN Marked(s) ELSE s
  IN  IF ~(in.fit /\ in.uv)
        THEN s
        ELSE [m EXCEPT !.fmah = f, !.lrn = s.lrn \/ (low /\ s.cf # 0),
                       !.cf = 0, !.dsg = s.dsg /\ s.cf = 0,
                       !.rmah = IF low THEN 0 ELSE s.rmah,
                       !.pct = IF low THEN 0 ELSE s.pct]

Corrected(s, in) == IF in.ov /\ in.uv THEN s ELSE Emptied(Full(s, in), in)

(* mah_cmlt: what a cold battery cannot give is taken off below 60%, spread   *)
(* over what is left, and given back while it is charged.  mah_t1 and mah_t2  *)
(* are equal between two calls; flow is their difference.                     *)
Lost(s, in) ==
  LET still == Percent(in.rate, s.fmah) - s.comp
  IN  IF s.pct <= 60 THEN Compensation(s.rmah - still, still, -in.cr) ELSE 0

Regained(s, in) == Compensation(s.fmah - s.rmah - s.comp, s.comp, in.cr)

(* Mutant: what is taken off is added. *)
FlowInverted(s, in) == CASE in.st = 1 -> in.cr + Lost(s, in)
                         [] in.st = 2 -> in.cr + Regained(s, in)
                         [] OTHER -> 0

Flow(s, in) == CASE in.st = 1 -> in.cr - Lost(s, in)
                 [] in.st = 2 -> in.cr + Regained(s, in)
                 [] OTHER -> 0

(* Mutant: what flows out is not taken off the measurement. *)
CountedIn(s, in) ==
  CASE in.st = 1 -> [s EXCEPT !.comp = s.comp + Lost(s, in)]
    [] in.st = 2 -> [s EXCEPT !.comp = s.comp - Regained(s, in),
                              !.chgd = IF s.type # 0 THEN s.chgd + in.cr ELSE s.chgd]
    [] OTHER -> s

Counted(s, in) ==
  CASE in.st = 1 -> [s EXCEPT !.comp = s.comp + Lost(s, in),
                              !.dsgd = IF s.type # 0 THEN s.dsgd - in.cr ELSE s.dsgd]
    [] in.st = 2 -> [s EXCEPT !.comp = s.comp - Regained(s, in),
                              !.chgd = IF s.type # 0 THEN s.chgd + in.cr ELSE s.chgd]
    [] OTHER -> s

(* Mutant: what is below nothing is shown. *)
ShownBelow(rmah, fmah, in) ==
  LET pct == (10000 * rmah + 99 * fmah) \div (100 * fmah)
  IN  IF pct < 100 THEN pct
      ELSE IF ~in.cf /\ in.st = 2 THEN 99 ELSE 100

(* The percentage is rounded up, and 100 is shown only when the charger has   *)
(* finished or is gone.                                                       *)
Shown(rmah, fmah, in) ==
  LET pct == IF rmah > 0 THEN (10000 * rmah + 99 * fmah) \div (100 * fmah) ELSE 0
  IN  IF pct < 100 THEN pct
      ELSE IF ~in.cf /\ in.st = 2 THEN 99 ELSE 100

(* mah_calc *)
Calculated(s, in, flow) ==
  LET diff == IF 10 * Abs(flow) > Batch * s.fmah THEN 0 ELSE flow
      rest == CASE in.st = 1 -> Least(s.rmah, s.fmah) + diff
                [] in.st = 2 -> Most(s.rmah, 0) + diff
                [] OTHER -> s.rmah
  IN  [s EXCEPT !.cyc = IF diff < 0 THEN s.cyc - diff ELSE s.cyc,
                !.rmah = rest, !.pct = Shown(rest, s.fmah, in)]

----------------------------------------------------------------------------
(* _sox as it is in a new program *)
Factory == [lrn |-> FALSE, cf |-> 0, dsg |-> FALSE, type |-> 0, dsgd |-> 0, chgd |-> 0,
            comp |-> 0, fmah |-> 0, pct |-> 255, rmah |-> 0, cyc |-> 0]

(* What a cold battery cannot give. *)
Floor == IF cold THEN 1000 * Percent(ColdRate, pack.holds) ELSE 0
Top == 1000 * pack.holds
Empty == q <= Floor
Charged == q = Top

(* What the chip reports of a full battery: that charging has ended, or an    *)
(* over-voltage.                                                              *)
Ends == IF Charged THEN {"eoc", "ov1"} ELSE {"none"}

Input(dir, cr, fit, brief, end) ==
  [st |-> dir, cr |-> cr, fit |-> fit, brief |-> brief, js |-> first,
   low |-> Empty, uv |-> Empty /\ ~edge.uv,
   cf |-> end = "eoc", ov |-> end = "ov1" /\ ~edge.ov,
   warm |-> pack.warm /\ ~cold, rate |-> IF cold THEN ColdRate ELSE 0]

(* pp_sox_cal, then the operations of the pulse: _sys_chk ends the first      *)
(* cycle and may store the environment, or has to.  (An \E over one value     *)
(* names a state of _sox between two parts of the computation.)               *)
Cal(in, end) ==
  \E a \in {Cycled(Started(Initialised(sox), in))} :
  \E w \in {Watched(a, in)} :
  \E s \in {Corrected(w.sox, in)} :
  \E c \in {Counted(s, in)}, flow \in {Flow(s, in)} :
    /\ sox' = Calculated(c, in, flow)
    /\ ms' = w.ms
    /\ edge' = [ov |-> end = "ov1", uv |-> Empty]
    /\ first' = FALSE
    /\ st' = in.st
    /\ \/ stored' = sox' /\ age' = 0
       \/ age + 1 < StoreTime /\ stored' = stored /\ age' = age + 1

Measured(dir, cr, fit, brief) ==
  \E end \in Ends : \E in \in {Input(dir, cr, fit, brief, end)} : Cal(in, end)

----------------------------------------------------------------------------
Init ==
  /\ sox = Factory /\ stored = Factory
  /\ ms = <<0, 0, 0>>
  /\ edge = [ov |-> FALSE, uv |-> FALSE]
  /\ first \in BOOLEAN
  /\ age = 0
  /\ pack \in Packs
  /\ q \in {0, 500 * pack.holds, Top}
  /\ goal \in {"empty", "full"}
  /\ cold = FALSE
  /\ faults = 0
  /\ st = -1

AtGoal == IF goal = "full" THEN Charged ELSE Empty

Discharge ==
  /\ goal = "empty" /\ ~AtGoal
  /\ LET d == Least(Amount, Up(q - Floor, 1000))
     IN  Measured(1, -d, TRUE, FALSE) /\ q' = Most(Floor, q - 1000 * d)
  /\ UNCHANGED <<pack, goal, cold, faults>>

Charge ==
  /\ goal = "full" /\ ~AtGoal
  /\ LET c == Least(Amount, Up(Top - q, 985))
     IN  Measured(2, c, TRUE, FALSE) /\ q' = Least(Top, q + 985 * c)
  /\ UNCHANGED <<pack, goal, cold, faults>>

(* The current has stopped; what flows may still show its direction.          *)
Still == Measured(0, 0, TRUE, FALSE) /\ UNCHANGED <<battery, faults>>

Rest == AtGoal /\ Still

Turned == goal' = IF goal = "full" THEN "empty" ELSE "full"

Turn ==
  /\ AtGoal
  /\ \E dir \in {0, IF goal = "full" THEN 2 ELSE 1} : Measured(dir, 0, TRUE, FALSE)
  /\ Turned
  /\ cold' = (cold /\ goal = "full")
  /\ UNCHANGED <<pack, q, faults>>

(* Disturbances: a full or empty battery with cells too different; a partial  *)
(* cycle; a pause; a short current below the resolution; a cold discharge; a  *)
(* loss of power; the command that forgets what is stored.                    *)
Disturbed == faults < MaxFaults /\ faults' = faults + 1

Unbalanced ==
  /\ AtGoal /\ Disturbed
  /\ Measured(0, 0, FALSE, FALSE)
  /\ Turned /\ UNCHANGED <<pack, q, cold>>

TurnEarly ==
  /\ ~AtGoal /\ Disturbed
  /\ Turned /\ UNCHANGED <<gauge, stored, age, pack, q, cold, st>>

Pause ==
  /\ ~AtGoal /\ Disturbed
  /\ Measured(0, 0, TRUE, FALSE)
  /\ UNCHANGED battery

Blip ==
  /\ Disturbed
  /\ \E dir \in {1, 2} : Measured(dir, 0, TRUE, TRUE)
  /\ UNCHANGED battery

Chill ==
  /\ ~cold /\ goal = "empty" /\ Disturbed
  /\ cold' = TRUE
  /\ UNCHANGED <<gauge, stored, age, pack, q, goal, st>>

Booted ==
  /\ ms' = <<0, 0, 0>>
  /\ edge' = [ov |-> FALSE, uv |-> FALSE]
  /\ first' \in BOOLEAN
  /\ age' = 0
  /\ st' = -1
  /\ UNCHANGED battery

Crash == Disturbed /\ Booted /\ sox' = stored /\ UNCHANGED stored

RestoreSox == Disturbed /\ Booted /\ sox' = Factory /\ stored' = Factory

Next ==
  \/ Discharge \/ Charge \/ Rest \/ Turn
  \/ Unbalanced \/ TurnEarly \/ Pause \/ Blip \/ Chill \/ Crash \/ RestoreSox

Spec == Init /\ [][Next]_vars

(* The battery is used: it is emptied and filled again and again.             *)
FairSpec == Spec /\ WF_vars(Discharge \/ Charge \/ Turn)

----------------------------------------------------------------------------
(* Properties *)

Believed(f) == 5 * f >= 3 * Design /\ f <= Percent(101, Design)

Gauge ==
  [lrn : BOOLEAN, cf : 0 .. 2, dsg : BOOLEAN, type : {0, 2}, dsgd : Nat, chgd : Nat,
   comp : Int, fmah : Nat, pct : 0 .. 100 \cup {255}, rmah : Int, cyc : Nat]

TypeOK ==
  /\ sox \in Gauge /\ stored \in Gauge
  /\ ms \in (0 .. ShortTime) \X (0 .. ShortTime) \X (0 .. LongTime)
  /\ edge \in [ov : BOOLEAN, uv : BOOLEAN] /\ first \in BOOLEAN
  /\ age \in 0 .. StoreTime
  /\ pack \in Packs /\ q \in 0 .. Top
  /\ goal \in {"empty", "full"} /\ cold \in BOOLEAN
  /\ faults \in 0 .. MaxFaults /\ st \in -1 .. 2

(* Whatever is measured, fmah stays between 60% and 101% of the design        *)
(* capacity (the comments at pp_sox.c:80 and 85), stored or not, by whichever *)
(* of its five updates, the fading of a cycle included.                       *)
CapacityBelieved ==
  /\ sox.pct # 255 => Believed(sox.fmah)
  /\ stored.pct # 255 => Believed(stored.fmah)

(* What one disturbance can cost a measurement *)
Cost == Most((StoreTime - 1) * Amount, Percent(ColdRate, pack.holds))

(* What a measurement from empty has counted is what went into the battery    *)
(* since it was empty, whatever interrupted it, but for what one disturbance  *)
(* can cost: the calls since the last store, or a battery emptied in the cold.*)
MarkHonest ==
  sox.type = 2 => Abs(985 * sox.chgd - 1000 * sox.dsgd - q) <= 1000 * (1 + faults * (2 + Cost))

(* Between full and empty the percentage follows the current, up or down, by  *)
(* a point more at most, when fmah fades: no correction makes it jump.        *)
FollowsCurrent ==
  [][ (sox.pct # 255 /\ ~Charged /\ ~Empty) =>
        /\ st' = 1 => sox'.pct <= sox.pct + 1
        /\ st' = 2 => sox'.pct >= sox.pct - 1 ]_vars

(* fmah is within half a percent of the design, rmah within two.              *)
Known ==
  /\ 200 * Abs(sox.fmah - pack.holds) <= Design
  /\ Abs(1000 * sox.rmah - q) <= 1000 * Percent(2, Design)

(* Regular cycles teach the gauge what the battery holds and what is left in  *)
(* it, from whatever the disturbances made of it.                             *)
Learns == <>[]Known

=============================================================================
