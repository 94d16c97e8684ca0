----------------------------- MODULE SoxProofs ------------------------------
(***************************************************************************)
(* Whatever is measured and however often power fails, the gauge believes  *)
(* in no capacity outside the bounds of its design, its percentage follows *)
(* the current, and a measurement counts what goes into the battery.       *)
(***************************************************************************)
EXTENDS Sox, TLAPS

-----------------------------------------------------------------------------
(* The arithmetic. *)

\* A rounded quotient is an integer, whatever the sign of its dividend.
LEMMA RatioInt == ASSUME NEW a \in Int, NEW b \in Nat, b > 0 PROVE Ratio(a, b) \in Int
  <1>1. 2 * a + b \in Int /\ 2 * b \in Int /\ 2 * b > 0
    OBVIOUS
  <1> QED BY <1>1 DEF Ratio

\* So is a percentage.
LEMMA PercentInt == ASSUME NEW p \in Int, NEW x \in Int PROVE Percent(p, x) \in Int
  <1>1. p * x \in Int
    OBVIOUS
  <1> QED BY <1>1, RatioInt DEF Percent

\* A percent less, the same, or a percent more.
LEMMA CarefulBetween ==
  ASSUME NEW f \in Nat, NEW p \in Int
  PROVE  /\ Careful(f, p) \in Int
         /\ Careful(f, p) >= f \/ Careful(f, p) >= p
  <1>1. Percent(99, f) \in Int /\ Percent(101, f) \in Int
    BY PercentInt
  <1>2. Percent(101, f) >= f
    BY DEF Percent, Ratio
  <1> QED BY <1>1, <1>2 DEF Careful, Most, Least

\* An update keeps fmah between the bounds of the design (pp_sox.c:78).
LEMMA LearnedBelieved ==
  ASSUME NEW f \in Nat, Believed(f), NEW p \in Int, NEW t \in BOOLEAN
  PROVE  Learned(f, p, t) \in Nat /\ Believed(Learned(f, p, t))
  <1>1. Careful(f, p) \in Int /\ (Careful(f, p) >= f \/ Careful(f, p) >= p)
    BY CarefulBetween
  <1>2. Percent(101, Design) \in Int /\ Percent(101, Design) >= Design
    BY PercentInt, SoxAssumption DEF Percent, Ratio
  <1>3. CASE 5 * p < 3 * Design
    BY <1>3 DEF Learned
  <1>4. CASE ~(5 * p < 3 * Design)
    <2> DEFINE x == IF t THEN p ELSE Careful(f, p)
    <2>1. x \in Int /\ 5 * x >= 3 * Design
      BY <1>1, <1>4, SoxAssumption DEF Believed
    <2>2. Learned(f, p, t) = Least(x, Percent(101, Design))
      BY <1>4 DEF Learned
    <2> HIDE DEF x
    <2> QED BY <1>2, <2>1, <2>2, SoxAssumption DEF Least, Believed
  <1> QED BY <1>3, <1>4

\* The first update gives the design capacity.
LEMMA LearnedFirst ==
  ASSUME NEW f \in Nat
  PROVE  Learned(f, Design, TRUE) \in Nat /\ Believed(Learned(f, Design, TRUE))
  <1>1. Percent(101, Design) \in Int /\ Percent(101, Design) >= Design
    BY PercentInt, SoxAssumption DEF Percent, Ratio
  <1>2. Learned(f, Design, TRUE) = Design
    BY <1>1, SoxAssumption DEF Learned, Least
  <1>3. Design \in Nat /\ Believed(Design)
    BY <1>1, SoxAssumption DEF Believed
  <1> QED BY <1>2, <1>3

\* What the compensation adds to a current is an integer.
LEMMA CompensationInt ==
  ASSUME NEW a \in Int, NEW still \in Int, NEW crt \in Int
  PROVE  Compensation(a, still, crt) \in Int
  <1>1. still * crt \in Int /\ -9 * crt \in Int /\ 4 * crt \in Int
    OBVIOUS
  <1>2. Ratio(-9 * crt, 10) \in Int
    BY <1>1, RatioInt
  <1>3. a > 0 => Ratio(still * crt, a) \in Int
    BY <1>1, RatioInt
  <1> QED BY <1>1, <1>2, <1>3 DEF Compensation, Most, Least

-----------------------------------------------------------------------------
(* The parts of a call. *)

\* A record that was never used, or one with a capacity to believe in.
Sound(s) == s \in Gauge /\ (Believed(s.fmah) \/ s = Factory)

Good(s) == s \in Gauge /\ Believed(s.fmah)

Inputs == [st : 0 .. 2, cr : Int, fit : BOOLEAN, brief : BOOLEAN, js : BOOLEAN,
           low : BOOLEAN, uv : BOOLEAN, cf : BOOLEAN, ov : BOOLEAN, warm : BOOLEAN,
           rate : 0 .. 100]

\* What is measured has the direction it is said to have.
Directed(in) == (in.st = 1 => in.cr <= 0) /\ (in.st = 2 => in.cr >= 0)

\* The first call ever sets what the battery holds and what is in it.
LEMMA SetCharge ==
  ASSUME NEW s \in Gauge, NEW f \in Nat, NEW r \in Int, NEW p \in 0 .. 100
  PROVE  LET n == [s EXCEPT !.fmah = f, !.pct = p, !.rmah = r] IN n \in Gauge /\ n.fmah = f
  BY DEF Gauge

\* The watches set the flags of the measurement from full to empty.
LEMMA SetFlags ==
  ASSUME NEW s \in Gauge, NEW c \in 0 .. 2, NEW d \in BOOLEAN
  PROVE  [s EXCEPT !.cf = c, !.dsg = d] \in Gauge
  BY DEF Gauge

\* Setting the mark touches nothing else.
LEMMA SetMark ==
  ASSUME NEW s \in Gauge, NEW d \in BOOLEAN
  PROVE  /\ [s EXCEPT !.dsg = d] \in Gauge
         /\ [s EXCEPT !.dsg = d].rmah = s.rmah
         /\ [s EXCEPT !.dsg = d].fmah = s.fmah
  <1>1. [s EXCEPT !.dsg = d] \in Gauge
    BY DEF Gauge
  <1>2. [s EXCEPT !.dsg = d].rmah = s.rmah /\ [s EXCEPT !.dsg = d].fmah = s.fmah
    BY DEF Gauge
  <1> QED BY <1>1, <1>2

\* A full battery sets all that its correction touches.
LEMMA SetFull ==
  ASSUME NEW s \in Gauge, NEW f \in Nat
  PROVE  [s EXCEPT !.cf = 1, !.dsg = FALSE, !.fmah = f, !.rmah = f, !.pct = 100, !.comp = 0] \in Gauge
  <1>1. 1 \in 0 .. 2 /\ FALSE \in BOOLEAN /\ f \in Int /\ 100 \in 0 .. 100 \cup {255} /\ 0 \in Int
    OBVIOUS
  <1> QED BY <1>1, ZenonT(60) DEF Gauge

\* A mark is a record of the gauge.
LEMMA MarkedGauge == ASSUME NEW s \in Gauge PROVE Marked(s) \in Gauge
  BY DEF Gauge, Marked

\* After the first lines of a call the capacity is believed: it was, or it is
\* the design's.
LEMMA InitialisedGood == ASSUME NEW s, Sound(s) PROVE Good(Initialised(s))
  <1> DEFINE f == IF s.fmah >= Hundred THEN s.fmah ELSE Learned(s.fmah, Design, TRUE)
  <1>1. s.fmah \in Nat
    BY DEF Sound, Gauge
  <1>2. s.fmah >= Hundred => Believed(s.fmah)
    BY SoxAssumption DEF Sound, Factory
  <1>3. f \in Nat /\ Believed(f)
    BY <1>1, <1>2, LearnedFirst
  <1>5. Initialised(s) = s \/ Initialised(s) = [s EXCEPT !.fmah = f, !.pct = 50, !.rmah = Percent(50, f)]
    BY DEF Initialised
  <1>6. Initialised(s) = s => Good(s)
    <2>1. CASE s.fmah >= Hundred
      BY <1>2, <2>1 DEF Sound, Good
    <2>2. CASE ~(s.fmah >= Hundred)
      <3>1. Initialised(s).fmah = f
        BY <2>2 DEF Initialised, Sound, Gauge
      <3> QED BY <3>1, <1>3 DEF Sound, Good
    <2> QED BY <2>1, <2>2
  <1> HIDE DEF f
  <1>4. Percent(50, f) \in Int
    BY <1>3, PercentInt
  <1>7. Good([s EXCEPT !.fmah = f, !.pct = 50, !.rmah = Percent(50, f)])
    <2> DEFINE r == Percent(50, f)
    <2>1. s \in Gauge /\ r \in Int /\ 50 \in 0 .. 100
      BY <1>4 DEF Sound
    <2> HIDE DEF r
    <2>2. [s EXCEPT !.fmah = f, !.pct = 50, !.rmah = r] \in Gauge
      BY <1>3, <2>1, SetCharge, ZenonT(30)
    <2>3. [s EXCEPT !.fmah = f, !.pct = 50, !.rmah = r].fmah = f
      BY <1>3, <2>1 DEF Gauge
    <2>4. Good([s EXCEPT !.fmah = f, !.pct = 50, !.rmah = r])
      BY <1>3, <2>2, <2>3 DEF Good
    <2> QED BY <2>4 DEF r
  <1> QED BY <1>5, <1>6, <1>7

\* The mark of an empty start leaves the capacity alone.
LEMMA StartedGood ==
  ASSUME NEW s, Good(s), NEW in \in Inputs PROVE Good(Started(s, in))
  <1>1. Marked(s) \in Gauge /\ Marked(s).fmah = s.fmah
    BY DEF Good, Gauge, Marked
  <1> QED BY <1>1 DEF Started, Good

\* A cycle's fading is an update like any other (pp_sox.c:175).
LEMMA CycledGood == ASSUME NEW s, Good(s) PROVE Good(Cycled(s))
  <1> DEFINE f == Learned(s.fmah, s.fmah - Fade, TRUE)
  <1>1. s.fmah - Fade \in Int
    BY SoxAssumption DEF Good, Gauge
  <1>2. f \in Nat /\ Believed(f)
    BY <1>1, LearnedBelieved DEF Good, Gauge
  <1>3. Cycled(s) = s \/ Cycled(s) = [s EXCEPT !.fmah = f, !.cyc = 0]
    BY DEF Cycled
  <1> HIDE DEF f
  <1>4. Good([s EXCEPT !.fmah = f, !.cyc = 0])
    BY <1>2 DEF Good, Gauge
  <1> QED BY <1>3, <1>4

\* The watches leave the capacity alone.
LEMMA WatchedGood ==
  ASSUME NEW s, Good(s), NEW in \in Inputs
  PROVE  Good(Watched(s, in).sox)
  <1> DEFINE a == IF Fires(ms[1], Discharging(s, in), ShortTime, Calls(in))
                    THEN [s EXCEPT !.dsg = TRUE] ELSE s
             b == IF Fires(ms[2], Discharged(a, in), ShortTime, Calls(in))
                    THEN [a EXCEPT !.cf = 2, !.dsg = FALSE] ELSE a
             c == IF Fires(ms[3], Interrupted(b, in), LongTime, Calls(in)) THEN Unmarked(b) ELSE b
  <1>1. a \in Gauge /\ a.fmah = s.fmah
    BY ZenonT(30) DEF Good, Gauge
  <1>2. Watched(s, in).sox = c
    BY DEF Watched
  <1> HIDE DEF a
  <1>3. b \in Gauge /\ b.fmah = s.fmah
    <2> DEFINE n == [a EXCEPT !.cf = 2, !.dsg = FALSE]
    <2>1. n \in Gauge
      <3>1. 2 \in 0 .. 2 /\ FALSE \in BOOLEAN
        OBVIOUS
      <3> QED BY <1>1, <3>1, SetFlags
    <2>2. n.fmah = s.fmah
      BY <1>1 DEF Gauge
    <2>3. b = n \/ b = a
      OBVIOUS
    <2> HIDE DEF n, b
    <2> QED BY <1>1, <2>1, <2>2, <2>3
  <1> HIDE DEF b
  <1>4. Unmarked(b) \in Gauge /\ Unmarked(b).fmah = s.fmah
    BY <1>3 DEF Gauge, Unmarked
  <1>5. c \in Gauge /\ c.fmah = s.fmah
    BY <1>3, <1>4
  <1> HIDE DEF c
  <1> QED BY <1>2, <1>5 DEF Good

\* A full battery believes what was counted only within the bounds.
LEMMA FullGood ==
  ASSUME NEW s, Good(s), NEW in \in Inputs
  PROVE  Good(Full(s, in))
  <1> DEFINE f == IF s.type = 0 THEN s.fmah ELSE Learned(s.fmah, Filled(s), TRUE)
             u == Unmarked(s)
             n == [u EXCEPT !.cf = 1, !.dsg = FALSE, !.fmah = f,
                            !.rmah = f, !.pct = 100, !.comp = 0]
  <1>1. Filled(s) \in Int
    <2>1. 985 * (s.chgd - s.dsgd) \in Int
      BY DEF Good, Gauge
    <2> QED BY <2>1, RatioInt DEF Filled
  <1>2. f \in Nat /\ Believed(f)
    BY <1>1, LearnedBelieved DEF Good, Gauge
  <1>3. Full(s, in) = s \/ Full(s, in) = n
    BY DEF Full
  <1>4. u \in Gauge
    BY DEF Good, Gauge, Unmarked
  <1> HIDE DEF f, u
  <1>5. n \in Gauge /\ n.fmah = f
    <2>1. n \in Gauge
      BY <1>2, <1>4, SetFull
    <2>2. n.fmah = f
      BY <1>2, <1>4 DEF Gauge
    <2> QED BY <2>1, <2>2
  <1> HIDE DEF n
  <1> QED BY <1>2, <1>3, <1>5 DEF Good

\* So does an empty one, in its three updates.
LEMMA EmptiedGood ==
  ASSUME NEW s, Good(s), NEW in \in Inputs
  PROVE  Good(Emptied(s, in))
  <1> DEFINE low == s.pct < 25
             t == ~s.lrn \/ (s.cf = 1 /\ in.warm)
             f == IF low /\ s.cf # 0 THEN Learned(s.fmah, s.fmah - s.rmah, t) ELSE s.fmah
             m == IF in.warm THEN Marked(s) ELSE s
             l == s.lrn \/ (low /\ s.cf # 0)
             r == IF low THEN 0 ELSE s.rmah
             p == IF low THEN 0 ELSE s.pct
             d == s.dsg /\ s.cf = 0
             n == [m EXCEPT !.fmah = f, !.lrn = l, !.cf = 0, !.dsg = d, !.rmah = r, !.pct = p]
  <1>1. t \in BOOLEAN /\ l \in BOOLEAN /\ d \in BOOLEAN
    BY DEF Good, Gauge, Inputs
  <1>2. r \in Int /\ p \in 0 .. 100 \cup {255} /\ s.fmah - s.rmah \in Int
    BY DEF Good, Gauge
  <1>3. m \in Gauge
    <2>1. s \in Gauge /\ Marked(s) \in Gauge
      BY MarkedGauge DEF Good
    <2> QED BY <2>1
  <1>4. Emptied(s, in) = s \/ Emptied(s, in) = n
    BY DEF Emptied
  <1> HIDE DEF t, l, m, r, p, d
  <1>5. f \in Nat /\ Believed(f)
    BY <1>1, <1>2, LearnedBelieved DEF Good, Gauge
  <1> HIDE DEF f
  <1>6. n \in Gauge /\ n.fmah = f
    <2>1. n \in Gauge
      <3>1. 0 \in 0 .. 2 /\ d \in BOOLEAN
        BY <1>1
      <3>2. f \in Nat /\ l \in BOOLEAN /\ r \in Int /\ p \in 0 .. 100 \cup {255} /\ m \in Gauge
        BY <1>1, <1>2, <1>3, <1>5
      <3> QED BY <3>1, <3>2, ZenonT(30) DEF Gauge
    <2>2. n.fmah = f
      BY <1>3 DEF Gauge
    <2> QED BY <2>1, <2>2
  <1> HIDE DEF n
  <1> QED BY <1>4, <1>5, <1>6 DEF Good

\* Both corrections, or none.
LEMMA CorrectedGood ==
  ASSUME NEW s, Good(s), NEW in \in Inputs
  PROVE  Good(Corrected(s, in))
  BY FullGood, EmptiedGood DEF Corrected

\* What a current counts for, and what a cold battery keeps, are integers.
LEMMA AmountsInt ==
  ASSUME NEW s, Good(s), NEW in \in Inputs
  PROVE  Lost(s, in) \in Int /\ Regained(s, in) \in Int /\ Flow(s, in) \in Int
  <1>1. Percent(in.rate, s.fmah) \in Int
    <2>1. in.rate \in Int /\ s.fmah \in Int
      BY DEF Good, Gauge, Inputs
    <2> QED BY <2>1, PercentInt
  <1>2. Lost(s, in) \in Int
    <2> DEFINE still == Percent(in.rate, s.fmah) - s.comp
    <2>1. still \in Int /\ s.rmah - still \in Int /\ -in.cr \in Int
      BY <1>1 DEF Good, Gauge, Inputs
    <2>2. Lost(s, in) = IF s.pct <= 60 THEN Compensation(s.rmah - still, still, -in.cr) ELSE 0
      BY DEF Lost
    <2> HIDE DEF still
    <2>3. Compensation(s.rmah - still, still, -in.cr) \in Int
      BY <2>1, CompensationInt
    <2> QED BY <2>2, <2>3
  <1>3. Regained(s, in) \in Int
    <2>1. s.fmah - s.rmah - s.comp \in Int /\ s.comp \in Int /\ in.cr \in Int
      BY DEF Good, Gauge, Inputs
    <2> QED BY <2>1, CompensationInt DEF Regained
  <1> QED BY <1>2, <1>3 DEF Flow, Inputs

\* Counting adds to what is counted and leaves the capacity alone.
LEMMA CountedGood ==
  ASSUME NEW s, Good(s), NEW in \in Inputs, Directed(in)
  PROVE  Good(Counted(s, in))
  <1> DEFINE l == s.comp + Lost(s, in)
             g == s.comp - Regained(s, in)
             d == IF s.type # 0 THEN s.dsgd - in.cr ELSE s.dsgd
             c == IF s.type # 0 THEN s.chgd + in.cr ELSE s.chgd
             n1 == [s EXCEPT !.comp = l, !.dsgd = d]
             n2 == [s EXCEPT !.comp = g, !.chgd = c]
  <1>1. l \in Int /\ g \in Int
    BY AmountsInt DEF Good, Gauge
  <1>2. in.st = 1 => d \in Nat
    BY DEF Good, Gauge, Inputs, Directed
  <1>3. in.st = 2 => c \in Nat
    BY DEF Good, Gauge, Inputs, Directed
  <1>4. \/ in.st = 1 /\ Counted(s, in) = n1
        \/ in.st = 2 /\ Counted(s, in) = n2
        \/ Counted(s, in) = s
    BY DEF Counted, Inputs
  <1> HIDE DEF l, g, d, c
  <1>5. in.st = 1 => n1 \in Gauge /\ n1.fmah = s.fmah
    BY <1>1, <1>2, ZenonT(30) DEF Good, Gauge
  <1>6. in.st = 2 => n2 \in Gauge /\ n2.fmah = s.fmah
    BY <1>1, <1>3, ZenonT(30) DEF Good, Gauge
  <1> HIDE DEF n1, n2
  <1> QED BY <1>4, <1>5, <1>6 DEF Good

\* The percentage is at most 100 (pp_sox.c:392).
LEMMA ShownByte ==
  ASSUME NEW r \in Int, NEW f \in Nat, f > 0, NEW in \in Inputs
  PROVE  Shown(r, f, in) \in 0 .. 100
  <1> DEFINE x == 10000 * r + 99 * f
             y == 100 * f
  <1>1. x \in Int /\ y \in Int /\ y > 0
    OBVIOUS
  <1>2. r > 0 => x >= 0
    OBVIOUS
  <1>3. Shown(r, f, in) = LET pct == IF r > 0 THEN x \div y ELSE 0
                          IN  IF pct < 100 THEN pct ELSE IF ~in.cf /\ in.st = 2 THEN 99 ELSE 100
    BY DEF Shown
  <1> HIDE DEF x, y
  <1>4. r > 0 => x \div y \in Int /\ x \div y >= 0
    BY <1>1, <1>2
  <1> QED BY <1>3, <1>4

\* The last part of a call leaves the capacity alone.
LEMMA CalculatedGood ==
  ASSUME NEW s, Good(s), NEW in \in Inputs, NEW flow \in Int
  PROVE  Good(Calculated(s, in, flow))
  <1> DEFINE diff == IF 10 * Abs(flow) > Batch * s.fmah THEN 0 ELSE flow
             rest == CASE in.st = 1 -> Least(s.rmah, s.fmah) + diff
                       [] in.st = 2 -> Most(s.rmah, 0) + diff
                       [] OTHER -> s.rmah
             cyc == IF diff < 0 THEN s.cyc - diff ELSE s.cyc
             pct == Shown(rest, s.fmah, in)
             n == [s EXCEPT !.cyc = cyc, !.rmah = rest, !.pct = pct]
  <1>1. diff \in Int
    OBVIOUS
  <1>2. s.fmah \in Nat /\ s.fmah > 0 /\ s.rmah \in Int /\ s.cyc \in Nat
    BY SoxAssumption DEF Good, Gauge, Believed
  <1>3. Calculated(s, in, flow) = n
    BY DEF Calculated
  <1> HIDE DEF diff
  <1>4. rest \in Int
    BY <1>1, <1>2 DEF Least, Most, Inputs
  <1>5. cyc \in Nat
    BY <1>1, <1>2
  <1> HIDE DEF rest, cyc
  <1>6. pct \in 0 .. 100
    BY <1>2, <1>4, ShownByte
  <1> HIDE DEF pct
  <1>7. n \in Gauge /\ n.fmah = s.fmah
    BY <1>4, <1>5, <1>6 DEF Good, Gauge
  <1> HIDE DEF n
  <1> QED BY <1>3, <1>7 DEF Good

\* The accumulators of the watches end at their times.
LEMMA WatchedMs ==
  ASSUME NEW s, Good(s), NEW in \in Inputs, TypeOK
  PROVE  Watched(s, in).ms \in (0 .. ShortTime) \X (0 .. ShortTime) \X (0 .. LongTime)
  <1> DEFINE a == IF Fires(ms[1], Discharging(s, in), ShortTime, Calls(in))
                    THEN [s EXCEPT !.dsg = TRUE] ELSE s
             b == IF Fires(ms[2], Discharged(a, in), ShortTime, Calls(in))
                    THEN [a EXCEPT !.cf = 2, !.dsg = FALSE] ELSE a
             x == Accumulated(ms[1], Discharging(s, in), ShortTime, Calls(in))
             y == Accumulated(ms[2], Discharged(a, in), ShortTime, Calls(in))
             z == Accumulated(ms[3], Interrupted(b, in), LongTime, Calls(in))
  <1>1. ShortTime \in Nat /\ LongTime \in Nat /\ Calls(in) \in Nat
    BY SoxAssumption DEF Calls
  <1>2. ms[1] \in Nat /\ ms[2] \in Nat /\ ms[3] \in Nat
    BY <1>1 DEF TypeOK
  <1>3. Watched(s, in).ms = <<x, y, z>>
    BY DEF Watched
  <1> HIDE DEF a, b
  <1>4. x \in 0 .. ShortTime
    BY <1>1, <1>2 DEF Accumulated
  <1>5. y \in 0 .. ShortTime
    BY <1>1, <1>2 DEF Accumulated
  <1>6. z \in 0 .. LongTime
    BY <1>1, <1>2 DEF Accumulated
  <1> HIDE DEF x, y, z
  <1> QED BY <1>3, <1>4, <1>5, <1>6

-----------------------------------------------------------------------------
(* A call, and what surrounds it. *)

Inv == TypeOK /\ Sound(sox) /\ Sound(stored)

\* What a call leaves of the gauge and of the store.
Kept ==
  /\ Sound(sox') /\ Sound(stored')
  /\ ms' \in (0 .. ShortTime) \X (0 .. ShortTime) \X (0 .. LongTime)
  /\ edge' \in [ov : BOOLEAN, uv : BOOLEAN]
  /\ first' \in BOOLEAN /\ age' \in 0 .. StoreTime /\ st' \in -1 .. 2

\* The whole call.
LEMMA CalKept ==
  ASSUME Inv, NEW in \in Inputs, Directed(in), NEW end, Cal(in, end)
  PROVE  Kept
  <1> DEFINE a == Cycled(Started(Initialised(sox), in))
             w == Watched(a, in)
             s == Corrected(w.sox, in)
             c == Counted(s, in)
             flow == Flow(s, in)
  <1>1. Good(a)
    BY InitialisedGood, StartedGood, CycledGood DEF Inv
  <1>2. /\ sox' = Calculated(c, in, flow) /\ ms' = w.ms
        /\ edge' = [ov |-> end = "ov1", uv |-> Empty]
        /\ first' = FALSE /\ st' = in.st
        /\ \/ stored' = sox' /\ age' = 0
           \/ age + 1 < StoreTime /\ stored' = stored /\ age' = age + 1
    BY DEF Cal
  <1> HIDE DEF a
  <1>3. Good(w.sox)
    BY <1>1, WatchedGood
  <1>4. ms' \in (0 .. ShortTime) \X (0 .. ShortTime) \X (0 .. LongTime)
    BY <1>1, <1>2, WatchedMs DEF Inv
  <1> HIDE DEF w
  <1>5. Good(s)
    BY <1>3, CorrectedGood
  <1> HIDE DEF s
  <1>6. Good(c) /\ flow \in Int
    BY <1>5, CountedGood, AmountsInt
  <1> HIDE DEF c, flow
  <1>7. Good(sox')
    BY <1>2, <1>6, CalculatedGood
  <1>8. Sound(sox') /\ Sound(stored')
    BY <1>2, <1>7 DEF Good, Sound, Inv
  <1>9. edge' \in [ov : BOOLEAN, uv : BOOLEAN]
    <2>1. (end = "ov1") \in BOOLEAN /\ Empty \in BOOLEAN
      BY DEF Empty
    <2> QED BY <1>2, <2>1
  <1>10. age' \in 0 .. StoreTime
    BY <1>2, SoxAssumption DEF Inv, TypeOK
  <1>11. st' \in -1 .. 2
    BY <1>2 DEF Inputs
  <1> QED BY <1>2, <1>4, <1>8, <1>9, <1>10, <1>11 DEF Kept

\* The whole call with what the chip measures.
LEMMA MeasuredKept ==
  ASSUME Inv, NEW dir \in 0 .. 2, NEW cr \in Int, NEW fit \in BOOLEAN, NEW brief \in BOOLEAN,
         dir = 1 => cr <= 0, dir = 2 => cr >= 0, Measured(dir, cr, fit, brief)
  PROVE  Kept
  <1>1. PICK end \in Ends : Cal(Input(dir, cr, fit, brief, end), end)
    BY DEF Measured
  <1> DEFINE in == Input(dir, cr, fit, brief, end)
  <1>2. in \in Inputs
    <2>1. first \in BOOLEAN /\ edge.uv \in BOOLEAN /\ edge.ov \in BOOLEAN /\ cold \in BOOLEAN
      BY DEF Inv, TypeOK
    <2>2. pack.warm \in BOOLEAN
      BY SoxAssumption DEF Inv, TypeOK
    <2>3. (IF cold THEN ColdRate ELSE 0) \in 0 .. 100
      BY SoxAssumption
    <2>4. /\ Empty \in BOOLEAN /\ (Empty /\ ~edge.uv) \in BOOLEAN /\ (end = "eoc") \in BOOLEAN
          /\ (end = "ov1" /\ ~edge.ov) \in BOOLEAN /\ (pack.warm /\ ~cold) \in BOOLEAN
      BY <2>1, <2>2 DEF Empty
    <2> QED BY <2>1, <2>3, <2>4 DEF Input, Inputs
  <1>3. Directed(in)
    BY DEF Directed, Input
  <1> HIDE DEF in
  <1>4. Cal(in, end)
    BY <1>1 DEF in
  <1> QED BY <1>2, <1>3, <1>4, CalKept

\* Kept and a battery that stays what it is are all the invariant needs.
LEMMA KeptInv ==
  ASSUME Inv, Kept, pack' = pack, q' \in 0 .. Top, goal' \in {"empty", "full"},
         cold' \in BOOLEAN, faults' \in 0 .. MaxFaults
  PROVE  Inv'
  <1>1. sox' \in Gauge /\ stored' \in Gauge /\ Sound(sox)' /\ Sound(stored)'
    BY DEF Kept, Sound
  <1>2. pack' \in Packs /\ (q \in 0 .. Top)'
    BY DEF Inv, TypeOK, Top
  <1> QED BY <1>1, <1>2 DEF Kept, Inv, TypeOK

\* A step without a call.
LEMMA UncalledInv ==
  ASSUME Inv, UNCHANGED <<gauge, stored, age, pack, q, st>>,
         goal' \in {"empty", "full"}, cold' \in BOOLEAN, faults' \in 0 .. MaxFaults
  PROVE  Inv'
  BY DEF Inv, TypeOK, gauge, Sound, Top

\* What a cold battery cannot give is less than what it holds.
LEMMA FloorBelow ==
  ASSUME Inv
  PROVE  /\ Top \in Nat /\ Floor \in Int /\ 0 <= Floor /\ Floor < Top
         /\ Percent(ColdRate, pack.holds) \in Nat
         /\ Floor = IF cold THEN 1000 * Percent(ColdRate, pack.holds) ELSE 0
  <1>1. ColdRate \in Int /\ pack.holds \in Int /\ ColdRate >= 0 /\ ColdRate <= 49 /\ pack.holds > 0
    BY SoxAssumption DEF Inv, TypeOK
  <1>2. Percent(ColdRate, pack.holds) \in Int
    BY <1>1, PercentInt
  <1> DEFINE x == ColdRate * pack.holds
  <1>3. x \in Int /\ x >= 0 /\ x <= 49 * pack.holds
    BY <1>1
  <1>4. Percent(ColdRate, pack.holds) = (2 * x + 100) \div 200
    BY DEF Percent, Ratio
  <1> HIDE DEF x
  <1>5. (2 * x + 100) \div 200 >= 0 /\ (2 * x + 100) \div 200 < pack.holds
    BY <1>1, <1>3
  <1> QED BY <1>1, <1>2, <1>4, <1>5 DEF Floor, Top

\* Discharging ends at what a cold battery keeps.
Lower(d, r) ==
  /\ d <= Amount
  /\ r \in 0 .. Top /\ r >= Floor
  /\ r <= q /\ q - r <= 1000 * d /\ 1000 * d < q - r + 1000
  /\ r # Floor => r = q - 1000 * d

Drawn(d, r) == Measured(1, -d, TRUE, FALSE) /\ q' = r /\ Lower(d, r)

LEMMA DischargeAmount == ASSUME Inv, Discharge PROVE \E d \in Nat, r \in Int : Drawn(d, r)
  <1> DEFINE gap == q - Floor
             all == Up(gap, 1000)
             d == Least(Amount, all)
             r == Most(Floor, q - 1000 * d)
  <1>1. q \in 0 .. Top /\ Floor \in Int /\ Floor >= 0 /\ ~(q <= Floor) /\ Top \in Nat
    BY FloorBelow DEF Inv, TypeOK, Discharge, AtGoal, Empty
  <1>2. Measured(1, -d, TRUE, FALSE) /\ q' = r
    BY ZenonT(30) DEF Discharge
  <1>3. gap \in Nat /\ gap > 0 /\ q = Floor + gap
    BY <1>1
  <1> HIDE DEF gap
  <1>4. all \in Nat /\ 1000 * all >= gap /\ 1000 * all < gap + 1000
    BY <1>3 DEF Up
  <1> HIDE DEF all
  <1>5. d \in Nat /\ d <= Amount /\ d <= all /\ (d # all => d + 1 <= all)
    BY <1>4, SoxAssumption DEF Least
  <1> HIDE DEF d
  <1>6. /\ r \in 0 .. Top /\ r >= Floor /\ r \in Int
        /\ r <= q /\ q - r <= 1000 * d
        /\ 1000 * d < q - r + 1000
        /\ r # Floor => r = q - 1000 * d
    BY <1>1, <1>3, <1>4, <1>5 DEF Most
  <1> HIDE DEF r
  <1>7. Lower(d, r)
    BY <1>5, <1>6 DEF Lower
  <1>8. Drawn(d, r)
    BY <1>2, <1>7, ZenonT(30) DEF Drawn
  <1> QED BY <1>5, <1>6, <1>8

LEMMA DischargeInv == ASSUME Inv, Discharge PROVE Inv'
  <1>1. PICK d \in Nat, r \in Int : Drawn(d, r)
    BY DischargeAmount
  <1>2. Measured(1, -d, TRUE, FALSE) /\ q' = r /\ Lower(d, r)
    BY <1>1, ZenonT(30) DEF Drawn
  <1>3. Measured(1, -d, TRUE, FALSE) /\ q' \in 0 .. Top
    BY <1>2, ZenonT(30) DEF Lower
  <1>4. Kept
    <2>1. 1 \in 0 .. 2 /\ -d \in Int /\ TRUE \in BOOLEAN /\ FALSE \in BOOLEAN /\ -d <= 0 /\ 1 # 2
      OBVIOUS
    <2> QED BY <1>3, <2>1, MeasuredKept, ZenonT(30)
  <1> QED BY <1>3, <1>4, KeptInv DEF Discharge, Inv, TypeOK

\* Charging, with its loss, ends at what the battery holds.
Higher(c, r) ==
  /\ c <= Amount
  /\ r \in 0 .. Top
  /\ q <= r /\ r - q <= 985 * c /\ 985 * c < r - q + 985
  /\ r # Top => r = q + 985 * c

Given(c, r) == Measured(2, c, TRUE, FALSE) /\ q' = r /\ Higher(c, r)

LEMMA ChargeAmount == ASSUME Inv, Charge PROVE \E c \in Nat, r \in Int : Given(c, r)
  <1> DEFINE gap == Top - q
             all == Up(gap, 985)
             c == Least(Amount, all)
             r == Least(Top, q + 985 * c)
  <1>1. q \in 0 .. Top /\ Top \in Nat
    BY FloorBelow DEF Inv, TypeOK
  <1>2. Measured(2, c, TRUE, FALSE) /\ q' = r
    BY ZenonT(30) DEF Charge
  <1>3. gap \in Nat /\ Top = q + gap
    BY <1>1
  <1> HIDE DEF gap
  <1>4. all \in Nat /\ 985 * all >= gap /\ 985 * all < gap + 985
    BY <1>3 DEF Up
  <1> HIDE DEF all
  <1>5. c \in Nat /\ c <= Amount /\ c <= all /\ (c # all => c + 1 <= all)
    BY <1>4, SoxAssumption DEF Least
  <1> HIDE DEF c
  <1>6. /\ r \in 0 .. Top /\ r \in Int
        /\ q <= r /\ r - q <= 985 * c
        /\ 985 * c < r - q + 985
        /\ r # Top => r = q + 985 * c
    BY <1>1, <1>3, <1>4, <1>5 DEF Least
  <1> HIDE DEF r
  <1>7. Higher(c, r)
    BY <1>5, <1>6 DEF Higher
  <1>8. Given(c, r)
    BY <1>2, <1>7, ZenonT(30) DEF Given
  <1> QED BY <1>5, <1>6, <1>8

LEMMA ChargeInv == ASSUME Inv, Charge PROVE Inv'
  <1>1. PICK c \in Nat, r \in Int : Given(c, r)
    BY ChargeAmount
  <1>2. Measured(2, c, TRUE, FALSE) /\ q' = r /\ Higher(c, r)
    BY <1>1, ZenonT(30) DEF Given
  <1>3. Measured(2, c, TRUE, FALSE) /\ q' \in 0 .. Top
    BY <1>2, ZenonT(30) DEF Higher
  <1>4. Kept
    <2>1. 2 \in 0 .. 2 /\ c \in Int /\ TRUE \in BOOLEAN /\ FALSE \in BOOLEAN /\ c >= 0 /\ 2 # 1
      OBVIOUS
    <2> QED BY <1>3, <2>1, MeasuredKept, ZenonT(30)
  <1> QED BY <1>3, <1>4, KeptInv DEF Charge, Inv, TypeOK

\* A call without a current, whatever else it changes.
LEMMA StillKept ==
  ASSUME Inv, NEW dir \in 0 .. 2, NEW fit \in BOOLEAN, NEW brief \in BOOLEAN,
         Measured(dir, 0, fit, brief)
  PROVE  Kept
  BY MeasuredKept

\* A start finds what was stored or what the program was built with.
LEMMA BootedInv ==
  ASSUME Inv, Booted, Disturbed, Sound(sox'), Sound(stored')
  PROVE  Inv'
  <1>1. Kept
    BY SoxAssumption DEF Booted, Kept
  <1>2. faults' \in 0 .. MaxFaults
    BY SoxAssumption DEF Disturbed, Inv, TypeOK
  <1> QED BY <1>1, <1>2, KeptInv DEF Booted, battery, Inv, TypeOK

\* A new program's record claims no capacity.
LEMMA FactorySound == Sound(Factory)
  BY DEF Sound, Factory, Gauge

\* The invariant holds at the first start.
LEMMA InitInv == Init => Inv
  <1> SUFFICES ASSUME Init PROVE Inv
    OBVIOUS
  <1>1. Sound(sox) /\ Sound(stored) /\ sox \in Gauge /\ stored \in Gauge
    BY FactorySound DEF Init, Sound
  <1>2. pack \in Packs /\ q \in 0 .. Top
    BY SoxAssumption DEF Init, Top
  <1>3. ms \in (0 .. ShortTime) \X (0 .. ShortTime) \X (0 .. LongTime)
    BY SoxAssumption DEF Init
  <1>4. edge \in [ov : BOOLEAN, uv : BOOLEAN] /\ first \in BOOLEAN /\ cold \in BOOLEAN
    BY DEF Init
  <1>5. age \in 0 .. StoreTime /\ faults \in 0 .. MaxFaults /\ st \in -1 .. 2
    BY SoxAssumption DEF Init
  <1>6. goal \in {"empty", "full"}
    BY DEF Init
  <1> QED BY <1>1, <1>2, <1>3, <1>4, <1>5, <1>6 DEF Inv, TypeOK

\* The invariant survives every step: a call with whatever is measured, a
\* restart, a command.
LEMMA NextInv == Inv /\ [Next]_vars => Inv'
  <1> SUFFICES ASSUME Inv, [Next]_vars PROVE Inv'
    OBVIOUS
  <1>0. 0 \in 0 .. 2 /\ TRUE \in BOOLEAN /\ FALSE \in BOOLEAN
    OBVIOUS
  <1>1. faults \in 0 .. MaxFaults /\ (Disturbed => faults' \in 0 .. MaxFaults)
    BY SoxAssumption DEF Inv, TypeOK, Disturbed
  <1>2. CASE Discharge
    BY <1>2, DischargeInv
  <1>3. CASE Charge
    BY <1>3, ChargeInv
  <1>4. CASE Rest
    <2>1. Measured(0, 0, TRUE, FALSE) /\ UNCHANGED <<battery, faults>>
      BY <1>4 DEF Rest, Still
    <2>2. Kept
      BY <1>0, <2>1, StillKept, ZenonT(30)
    <2> QED BY <1>1, <2>1, <2>2, KeptInv DEF battery, Inv, TypeOK
  <1>5. CASE Turn
    <2>1. PICK dir \in {0, IF goal = "full" THEN 2 ELSE 1} : Measured(dir, 0, TRUE, FALSE)
      BY <1>5 DEF Turn
    <2>4. dir \in 0 .. 2
      BY <2>1
    <2>2. Kept
      BY <1>0, <2>1, <2>4, StillKept, ZenonT(30)
    <2>3. cold' \in BOOLEAN /\ goal' \in {"empty", "full"} /\ UNCHANGED <<pack, q, faults>>
      BY <1>5 DEF Turn, Turned, Inv, TypeOK
    <2> QED BY <1>1, <2>2, <2>3, KeptInv DEF Inv, TypeOK
  <1>6. CASE Unbalanced
    <2>1. Kept
      BY <1>0, <1>6, StillKept, ZenonT(30) DEF Unbalanced
    <2>2. goal' \in {"empty", "full"} /\ UNCHANGED <<pack, q, cold>> /\ Disturbed
      BY <1>6 DEF Unbalanced, Turned
    <2> QED BY <1>1, <2>1, <2>2, KeptInv DEF Inv, TypeOK
  <1>7. CASE TurnEarly
    <2>1. goal' \in {"empty", "full"} /\ UNCHANGED <<gauge, stored, age, pack, q, cold, st>> /\ Disturbed
      BY <1>7 DEF TurnEarly, Turned
    <2>2. cold' \in BOOLEAN
      BY <2>1 DEF Inv, TypeOK
    <2> QED BY <1>1, <2>1, <2>2, UncalledInv
  <1>8. CASE Pause
    <2>1. Kept
      BY <1>0, <1>8, StillKept, ZenonT(30) DEF Pause
    <2> QED BY <1>1, <1>8, <2>1, KeptInv DEF Pause, battery, Inv, TypeOK
  <1>9. CASE Blip
    <2>1. PICK dir \in {1, 2} : Measured(dir, 0, TRUE, TRUE)
      BY <1>9 DEF Blip
    <2>3. dir \in 0 .. 2
      BY <2>1
    <2>2. Kept
      BY <1>0, <2>1, <2>3, StillKept, ZenonT(30)
    <2> QED BY <1>1, <1>9, <2>2, KeptInv DEF Blip, battery, Inv, TypeOK
  <1>10. CASE Chill
    <2>1. cold' = TRUE /\ UNCHANGED <<gauge, stored, age, pack, q, goal, st>> /\ Disturbed
      BY <1>10 DEF Chill
    <2>2. goal' \in {"empty", "full"}
      BY <2>1 DEF Inv, TypeOK
    <2> QED BY <1>1, <2>1, <2>2, UncalledInv
  <1>11. CASE Crash
    BY <1>11, BootedInv DEF Crash, Inv
  <1>12. CASE RestoreSox
    BY <1>12, BootedInv, FactorySound DEF RestoreSox
  <1>13. CASE UNCHANGED vars
    BY <1>13, UncalledInv DEF vars, gauge, battery, Inv, TypeOK
  <1> QED BY <1>2, <1>3, <1>4, <1>5, <1>6, <1>7, <1>8, <1>9, <1>10, <1>11, <1>12, <1>13 DEF Next

\* The gauge and the battery keep their types, the percentage fits its byte and
\* is at most 100 (pp_sox.c:392).
THEOREM TypeCorrect == Spec => []TypeOK
  <1>1. Inv => TypeOK
    BY DEF Inv
  <1> QED BY <1>1, InitInv, NextInv, PTL DEF Spec

\* Whatever is measured and however often it restarts, fmah is between 60% and
\* 101% of the design capacity (pp_sox.c:78).
THEOREM CapacityAlwaysBelieved == Spec => []CapacityBelieved
  <1>1. Inv => CapacityBelieved
    BY DEF Inv, Sound, Factory, CapacityBelieved
  <1> QED BY <1>1, InitInv, NextInv, PTL DEF Spec
-----------------------------------------------------------------------------
(* The percentage follows the current. *)

\* The percentage before it is cut off at 100.
Rounded(r, f) == IF r > 0 THEN (10000 * r + 99 * f) \div (100 * f) ELSE 0

\* What is shown is what is left, but for the 99 that waits for the charger.
Agrees(s) ==
  \/ s.pct = 255
  \/ s.pct = Rounded(s.rmah, s.fmah)
  \/ s.pct \in {99, 100} /\ Rounded(s.rmah, s.fmah) >= 100

AgreeInv == Agrees(sox) /\ Agrees(stored)

\* A cycle takes less than a percent of any capacity that is believed: a fifth
\* of the design is lost in 34 cycles or more.
SlowFade == 505 * Fade <= 3 * Design

\* Less in the battery, and a fading of less than a percent: at most a point more.
LEMMA RoundedFades ==
  ASSUME NEW r \in Int, NEW f \in Nat, f > 0, NEW r2 \in Int, r2 <= r,
         NEW f2 \in Nat, f2 > 0, f2 <= f, 100 * (f - f2) <= f2, Rounded(r, f) < 100
  PROVE  Rounded(r2, f2) <= Rounded(r, f) + 1
  <1> DEFINE G == Rounded(r, f)
             H == Rounded(r2, f2)
  <1>1. CASE r2 <= 0
    <2>1. H = 0
      BY <1>1 DEF Rounded
    <2>2. G \in Int /\ G >= 0
      <3>1. CASE r > 0
        <4> DEFINE x == 10000 * r + 99 * f
                   y == 100 * f
        <4>1. x \in Int /\ y \in Int /\ y > 0 /\ x >= 0
          BY <3>1
        <4>2. G = x \div y
          BY <3>1 DEF Rounded
        <4> HIDE DEF x, y, G
        <4> QED BY <4>1, <4>2
      <3>2. CASE ~(r > 0)
        BY <3>2 DEF Rounded
      <3> QED BY <3>1, <3>2
    <2> SUFFICES H <= G + 1
      OBVIOUS
    <2> HIDE DEF G, H
    <2> QED BY <2>1, <2>2
  <1>2. CASE r2 > 0
    <2>1. r > 0
      BY <1>2
    <2>2. G \in Int /\ 100 * f * G <= 10000 * r + 99 * f /\ 10000 * r + 99 * f < 100 * f * (G + 1)
      <3> DEFINE x == 10000 * r + 99 * f
                 y == 100 * f
      <3>1. x \in Int /\ y \in Int /\ y > 0
        OBVIOUS
      <3>2. G = x \div y
        BY <2>1 DEF Rounded
      <3> HIDE DEF x, y
      <3>3. G \in Int /\ y * G <= x /\ x < y * (G + 1)
        BY <3>1, <3>2
      <3> QED BY <3>3 DEF x, y
    <2>3. H \in Int /\ 100 * f2 * H <= 10000 * r2 + 99 * f2
      <3> DEFINE x == 10000 * r2 + 99 * f2
                 y == 100 * f2
      <3>1. x \in Int /\ y \in Int /\ y > 0
        OBVIOUS
      <3>2. H = x \div y
        BY <1>2 DEF Rounded
      <3> HIDE DEF x, y
      <3>3. H \in Int /\ y * H <= x
        BY <3>1, <3>2
      <3> QED BY <3>3 DEF x, y
    <2>4. G < 100
      OBVIOUS
    <2> SUFFICES H <= G + 1
      OBVIOUS
    <2> HIDE DEF G, H
    <2> SUFFICES ASSUME H >= G + 2 PROVE FALSE
      BY <2>2, <2>3
    <2> DEFINE d == f - f2
               u == f2 * G
               v == d * G
    <2>5. d \in Nat /\ 100 * d <= f2 /\ f = f2 + d /\ u \in Int /\ v \in Int
      BY <2>2
    <2>6. f * G = u + v
      BY <2>2
    <2>7. 100 * u + 200 * f2 <= 10000 * r2 + 99 * f2
      <3>1. f2 * (G + 2) <= f2 * H
        BY <2>2, <2>3
      <3>2. f2 * (G + 2) = u + 2 * f2
        BY <2>2
      <3>3. 100 * f2 * H = 100 * (f2 * H) /\ f2 * H \in Int
        BY <2>3
      <3> HIDE DEF u
      <3> QED BY <2>3, <2>5, <3>1, <3>2, <3>3
    <2>8. 10000 * r + 99 * f < 100 * u + 100 * v + 100 * f
      <3>1. 100 * f * (G + 1) = 100 * (f * G) + 100 * f
        BY <2>2
      <3> QED BY <2>2, <2>6, <3>1
    <2>9. v <= 99 * d
      BY <2>2, <2>4, <2>5
    <2> HIDE DEF u, v, d
    <2> QED BY <2>5, <2>7, <2>8, <2>9
  <1> QED BY <1>1, <1>2

\* More in the battery, and no more room: no less is shown.
LEMMA RoundedGrows ==
  ASSUME NEW r \in Int, NEW f \in Nat, f > 0, NEW r2 \in Int, r2 >= r,
         NEW f2 \in Nat, f2 > 0, f2 <= f
  PROVE  Rounded(r2, f2) >= Rounded(r, f)
  <1> DEFINE G == Rounded(r, f)
             H == Rounded(r2, f2)
             x == 10000 * r + 99 * f
             y == 100 * f
             x2 == 10000 * r2 + 99 * f2
             y2 == 100 * f2
  <1>1. x \in Int /\ y \in Int /\ y > 0 /\ x2 \in Int /\ y2 \in Int /\ y2 > 0
    OBVIOUS
  <1>2. (r > 0 => G = x \div y) /\ (~(r > 0) => G = 0)
    BY DEF Rounded
  <1>3. (r2 > 0 => H = x2 \div y2) /\ (~(r2 > 0) => H = 0)
    BY DEF Rounded
  <1>4. r2 > 0 => x2 >= 0
    OBVIOUS
  <1> SUFFICES H >= G
    OBVIOUS
  <1> HIDE DEF G, H
  <1>5. H \in Int /\ H >= 0 /\ (r2 > 0 => y2 * H <= x2 /\ x2 < y2 * (H + 1))
    <2> HIDE DEF x2, y2
    <2> QED BY <1>1, <1>3, <1>4
  <1>6. G \in Int /\ (r > 0 => y * G <= x)
    <2> HIDE DEF x, y
    <2> QED BY <1>1, <1>2
  <1>7. CASE r > 0 /\ G > 0
    <2> SUFFICES ASSUME G >= H + 1 PROVE FALSE
      BY <1>5, <1>6
    <2> DEFINE u == f * G
               v == f2 * G
    <2>1. u \in Int /\ v \in Int /\ 100 * u <= 10000 * r + 99 * f
      BY <1>6, <1>7
    <2>2. 10000 * r2 + 99 * f2 < 100 * v
      <3>1. x2 < y2 * (H + 1) /\ y2 * (H + 1) <= y2 * G
        BY <1>1, <1>5, <1>6, <1>7
      <3>2. y2 * G = 100 * v /\ y2 * G \in Int /\ y2 * (H + 1) \in Int
        BY <1>1, <1>5, <1>6
      <3> SUFFICES x2 < 100 * v
        OBVIOUS
      <3> HIDE DEF x2, y2, v
      <3> QED BY <1>1, <3>1, <3>2
    <2> DEFINE d == f - f2
    <2>3. u - v >= d /\ d >= 0
      <3>1. u - v = d * G /\ d * G >= d
        BY <1>6, <1>7
      <3> QED BY <3>1
    <2>4. d \in Int /\ f = f2 + d
      OBVIOUS
    <2> HIDE DEF u, v, d
    <2> QED BY <2>1, <2>2, <2>3, <2>4
  <1>8. CASE ~(r > 0 /\ G > 0)
    BY <1>2, <1>5, <1>6, <1>8
  <1> QED BY <1>7, <1>8

\* The compensation never turns a current around (pp_sox.c:131).
LEMMA FlowDirected ==
  ASSUME NEW s, Good(s), NEW in \in Inputs, Directed(in)
  PROVE  (in.st = 1 => Flow(s, in) <= 0) /\ (in.st = 2 => Flow(s, in) >= 0)
  <1>1. ASSUME NEW a \in Int, NEW still \in Int, NEW crt \in Nat
        PROVE  Compensation(a, still, crt) >= -crt
    <2>1. Ratio(-9 * crt, 10) \in Int /\ Ratio(-9 * crt, 10) >= -crt
      BY DEF Ratio
    <2>2. still * crt \in Int
      OBVIOUS
    <2>3. a > 0 => Ratio(still * crt, a) \in Int
      BY <2>2, RatioInt
    <2> QED BY <2>1, <2>3 DEF Compensation, Most, Least
  <1>2. /\ in.cr \in Int /\ s.rmah \in Int /\ s.comp \in Int /\ s.fmah \in Int
        /\ Percent(in.rate, s.fmah) \in Int
    <2>1. /\ in.cr \in Int /\ s.rmah \in Int /\ s.comp \in Int /\ s.fmah \in Int
          /\ in.rate \in Int
      BY DEF Good, Gauge, Inputs
    <2> QED BY <2>1, PercentInt
  <1>3. ASSUME in.st = 1 PROVE Flow(s, in) <= 0
    <2> DEFINE still == Percent(in.rate, s.fmah) - s.comp
    <2>1. still \in Int /\ s.rmah - still \in Int /\ -in.cr \in Nat
      BY <1>2, <1>3 DEF Directed
    <2>2. Lost(s, in) = IF s.pct <= 60 THEN Compensation(s.rmah - still, still, -in.cr) ELSE 0
      BY DEF Lost
    <2> HIDE DEF still
    <2>3. Compensation(s.rmah - still, still, -in.cr) >= -(-in.cr)
      BY <1>1, <2>1
    <2>4. Lost(s, in) \in Int /\ Lost(s, in) >= in.cr
      BY <1>2, <2>1, <2>2, <2>3, AmountsInt
    <2> QED BY <1>2, <1>3, <2>4 DEF Flow
  <1>4. ASSUME in.st = 2 PROVE Flow(s, in) >= 0
    <2>1. s.fmah - s.rmah - s.comp \in Int /\ in.cr \in Nat
      BY <1>2, <1>4 DEF Directed
    <2>2. Regained(s, in) \in Int /\ Regained(s, in) >= -in.cr
      BY <1>1, <1>2, <2>1, AmountsInt DEF Regained
    <2> QED BY <1>2, <1>4, <2>2 DEF Flow
  <1> QED BY <1>3, <1>4

\* Between full and empty nothing is corrected: until the current is counted
\* a call leaves rmah and the percentage alone, and lets fmah fade.
LEMMA UncorrectedKeeps ==
  ASSUME NEW s, Good(s), s.pct # 255, NEW in \in Inputs, ~in.uv, ~in.ov, ~in.cf
  PROVE  LET a == Cycled(Started(Initialised(s), in))
             c == Corrected(Watched(a, in).sox, in)
         IN  /\ Good(c) /\ c.rmah = s.rmah
             /\ c.fmah = s.fmah \/ c.fmah = s.fmah - Fade
  <1> DEFINE b == Started(s, in)
             a == Cycled(b)
             w == Watched(a, in).sox
  <1>1. Initialised(s) = s
    BY SoxAssumption DEF Initialised, Good, Believed, Gauge
  <1>2. Good(b) /\ b.rmah = s.rmah /\ b.fmah = s.fmah
    <2>1. Good(b)
      BY StartedGood
    <2>2. Marked(s).rmah = s.rmah /\ Marked(s).fmah = s.fmah
      BY DEF Marked, Good, Gauge
    <2> QED BY <2>1, <2>2 DEF Started
  <1> HIDE DEF b
  <1>3. Good(a) /\ a.rmah = b.rmah /\ (a.fmah = b.fmah \/ a.fmah = b.fmah - Fade)
    <2> DEFINE f == Learned(b.fmah, b.fmah - Fade, TRUE)
    <2>1. Good(a)
      BY <1>2, CycledGood
    <2>2. b.fmah \in Nat /\ b.fmah <= Percent(101, Design)
      BY <1>2 DEF Good, Gauge, Believed
    <2>3. Percent(101, Design) \in Int
      BY PercentInt, SoxAssumption
    <2>4. f = b.fmah \/ f = b.fmah - Fade
      BY <2>2, <2>3, SoxAssumption DEF Learned, Least
    <2>5. a = b \/ a = [b EXCEPT !.fmah = f, !.cyc = 0]
      BY DEF Cycled
    <2> HIDE DEF f, a
    <2>7. b \in Gauge
      BY <1>2 DEF Good
    <2>8. [b EXCEPT !.fmah = f, !.cyc = 0].rmah = b.rmah /\ [b EXCEPT !.fmah = f, !.cyc = 0].fmah = f
      BY <2>7 DEF Gauge
    <2>6. a.rmah = b.rmah /\ (a.fmah = b.fmah \/ a.fmah = f)
      BY <2>5, <2>8
    <2> QED BY <2>1, <2>4, <2>6
  <1> HIDE DEF a
  <1>4. Good(w) /\ w.rmah = a.rmah /\ w.fmah = a.fmah
    <2> DEFINE x == IF Fires(ms[1], Discharging(a, in), ShortTime, Calls(in))
                      THEN [a EXCEPT !.dsg = TRUE] ELSE a
               y == IF Fires(ms[2], Discharged(x, in), ShortTime, Calls(in))
                      THEN [x EXCEPT !.cf = 2, !.dsg = FALSE] ELSE x
               z == IF Fires(ms[3], Interrupted(y, in), LongTime, Calls(in)) THEN Unmarked(y) ELSE y
    <2>1. w = z
      BY DEF Watched
    <2>2. a \in Gauge
      BY <1>3 DEF Good
    <2>3. x \in Gauge /\ x.rmah = a.rmah /\ x.fmah = a.fmah
      <3> DEFINE m == [a EXCEPT !.dsg = TRUE]
      <3>1. m \in Gauge /\ m.rmah = a.rmah /\ m.fmah = a.fmah
        <4>1. TRUE \in BOOLEAN
          OBVIOUS
        <4> QED BY <2>2, <4>1, SetMark
      <3>2. x = m \/ x = a
        BY Zenon
      <3> HIDE DEF m, x
      <3> QED BY <2>2, <3>1, <3>2
    <2> HIDE DEF x
    <2>4. y \in Gauge /\ y.rmah = a.rmah /\ y.fmah = a.fmah
      <3> DEFINE n == [x EXCEPT !.cf = 2, !.dsg = FALSE]
      <3>1. n \in Gauge
        <4>1. 2 \in 0 .. 2 /\ FALSE \in BOOLEAN
          OBVIOUS
        <4> QED BY <2>3, <4>1, SetFlags
      <3>2. n.rmah = a.rmah /\ n.fmah = a.fmah
        BY <2>3 DEF Gauge
      <3>3. y = n \/ y = x
        OBVIOUS
      <3> HIDE DEF n, y
      <3> QED BY <2>3, <3>1, <3>2, <3>3
    <2> HIDE DEF y
    <2>5. Unmarked(y).rmah = a.rmah /\ Unmarked(y).fmah = a.fmah
      BY <2>4 DEF Gauge, Unmarked
    <2>6. Good(w)
      BY <1>3, WatchedGood
    <2> HIDE DEF w
    <2> QED BY <2>1, <2>4, <2>5, <2>6
  <1> HIDE DEF w
  <1>5. Corrected(w, in) = w
    BY DEF Corrected, Full, Emptied
  <1> QED BY <1>1, <1>2, <1>3, <1>4, <1>5 DEF a, b, w

\* Whatever a call does before it, its last part shows what is left.
LEMMA CalculatedAgrees ==
  ASSUME NEW s, Good(s), NEW in \in Inputs, NEW flow \in Int
  PROVE  LET n == Calculated(s, in, flow)
         IN  /\ Agrees(n) /\ n.pct = Shown(n.rmah, s.fmah, in) /\ n.fmah = s.fmah
             /\ n.rmah \in Int
             /\ in.st = 1 /\ flow <= 0 => n.rmah <= s.rmah
             /\ in.st = 2 /\ flow >= 0 => n.rmah >= s.rmah
  <1> DEFINE diff == IF 10 * Abs(flow) > Batch * s.fmah THEN 0 ELSE flow
             rest == CASE in.st = 1 -> Least(s.rmah, s.fmah) + diff
                       [] in.st = 2 -> Most(s.rmah, 0) + diff
                       [] OTHER -> s.rmah
             cyc == IF diff < 0 THEN s.cyc - diff ELSE s.cyc
             pct == Shown(rest, s.fmah, in)
             n == [s EXCEPT !.cyc = cyc, !.rmah = rest, !.pct = pct]
  <1>1. s \in Gauge /\ s.fmah \in Nat /\ s.fmah > 0 /\ s.rmah \in Int
    BY SoxAssumption DEF Good, Gauge, Believed
  <1>2. Calculated(s, in, flow) = n
    BY DEF Calculated
  <1>3. diff \in Int /\ (flow <= 0 => diff <= 0) /\ (flow >= 0 => diff >= 0)
    OBVIOUS
  <1> HIDE DEF diff
  <1>4. /\ rest \in Int
        /\ in.st = 1 /\ flow <= 0 => rest <= s.rmah
        /\ in.st = 2 /\ flow >= 0 => rest >= s.rmah
    BY <1>1, <1>3 DEF Least, Most, Inputs
  <1>5. \/ pct = Rounded(rest, s.fmah)
        \/ pct \in {99, 100} /\ Rounded(rest, s.fmah) >= 100
    <2>1. Rounded(rest, s.fmah) \in Int
      BY <1>1, <1>4, ShownByte DEF Rounded
    <2>2. pct = IF Rounded(rest, s.fmah) < 100 THEN Rounded(rest, s.fmah)
                ELSE IF ~in.cf /\ in.st = 2 THEN 99 ELSE 100
      BY DEF Shown, Rounded
    <2> HIDE DEF pct
    <2> QED BY <2>1, <2>2
  <1> HIDE DEF rest, cyc
  <1>6. n.rmah = rest /\ n.pct = pct /\ n.fmah = s.fmah
    BY <1>1 DEF Gauge
  <1> HIDE DEF n
  <1> QED BY <1>2, <1>4, <1>5, <1>6 DEF Agrees

\* What FollowsCurrent says of a call.
Follows ==
  /\ st' = 1 => sox'.pct <= sox.pct + 1
  /\ st' = 2 => sox'.pct >= sox.pct - 1

\* Whatever is measured, the percentage shown agrees with what is left.
LEMMA CalAgrees ==
  ASSUME Inv, AgreeInv, NEW in \in Inputs, Directed(in), NEW end, Cal(in, end)
  PROVE  AgreeInv'
  <1> DEFINE a == Cycled(Started(Initialised(sox), in))
             w == Watched(a, in)
             s == Corrected(w.sox, in)
             c == Counted(s, in)
             flow == Flow(s, in)
  <1>1. Good(s)
    <2>1. Good(a)
      BY InitialisedGood, StartedGood, CycledGood DEF Inv
    <2> HIDE DEF a
    <2>2. Good(w.sox)
      BY <2>1, WatchedGood
    <2> HIDE DEF w
    <2> QED BY <2>2, CorrectedGood
  <1>2. sox' = Calculated(c, in, flow) /\ (stored' = sox' \/ stored' = stored)
    BY DEF Cal
  <1> HIDE DEF s
  <1>3. Good(c) /\ flow \in Int
    BY <1>1, CountedGood, AmountsInt
  <1> HIDE DEF c, flow
  <1>4. Agrees(sox')
    BY <1>2, <1>3, CalculatedAgrees
  <1>5. Agrees(sox)' /\ (Agrees(stored)' \/ stored' = stored)
    BY <1>2, <1>4 DEF Agrees
  <1> QED BY <1>5 DEF AgreeInv, Agrees

\* Between full and empty it follows the current.
LEMMA CalFollows ==
  ASSUME SlowFade, Inv, AgreeInv, sox.pct # 255, NEW in \in Inputs, Directed(in),
         ~in.uv, ~in.ov, ~in.cf, NEW end, Cal(in, end)
  PROVE  Follows
  <1> DEFINE s == Corrected(Watched(Cycled(Started(Initialised(sox), in)), in).sox, in)
             c == Counted(s, in)
             flow == Flow(s, in)
             n == Calculated(c, in, flow)
  <1>1. Good(sox)
    BY DEF Inv, Sound, Factory, Good
  <1>2. Good(s) /\ s.rmah = sox.rmah /\ (s.fmah = sox.fmah \/ s.fmah = sox.fmah - Fade)
    BY <1>1, UncorrectedKeeps
  <1>3. sox' = n /\ st' = in.st
    BY DEF Cal
  <1> HIDE DEF s
  <1>4. Good(c) /\ c.rmah = s.rmah /\ c.fmah = s.fmah
    <2>1. Good(c)
      BY <1>2, CountedGood
    <2>2. c.rmah = s.rmah /\ c.fmah = s.fmah
      BY <1>2 DEF Counted, Good, Gauge
    <2> QED BY <2>1, <2>2
  <1>5. /\ flow \in Int
        /\ in.st = 1 => flow <= 0
        /\ in.st = 2 => flow >= 0
    BY <1>2, AmountsInt, FlowDirected
  <1> HIDE DEF c, flow
  <1>6. /\ Agrees(n) /\ n.pct = Shown(n.rmah, c.fmah, in) /\ n.fmah = c.fmah /\ n.rmah \in Int
        /\ in.st = 1 /\ flow <= 0 => n.rmah <= c.rmah
        /\ in.st = 2 /\ flow >= 0 => n.rmah >= c.rmah
    BY <1>4, <1>5, CalculatedAgrees
  <1> HIDE DEF n
  <1> DEFINE f == sox.fmah
             f2 == c.fmah
             r == sox.rmah
             r2 == n.rmah
             G == Rounded(r, f)
             H == Rounded(r2, f2)
  <1>7. /\ f \in Nat /\ f2 \in Nat /\ r \in Int /\ r2 \in Int
        /\ f > 0 /\ f2 > 0 /\ f2 <= f /\ 100 * (f - f2) <= f2
    <2>1. /\ f \in Nat /\ f2 \in Nat /\ r \in Int /\ r2 \in Int
          /\ 5 * f >= 3 * Design /\ 5 * f2 >= 3 * Design
          /\ f2 = f \/ f2 = f - Fade
      BY <1>1, <1>2, <1>4, <1>6 DEF Good, Gauge, Believed
    <2> HIDE DEF f, f2, r, r2
    <2> QED BY <2>1, SoxAssumption DEF SlowFade
  <1>8. /\ in.st = 1 => r2 <= r
        /\ in.st = 2 => r2 >= r
    BY <1>2, <1>4, <1>5, <1>6
  <1>9. G \in Int /\ H \in Int
    <2>1. 10000 * r + 99 * f \in Int /\ 100 * f > 0 /\ 10000 * r2 + 99 * f2 \in Int /\ 100 * f2 > 0
      BY <1>7
    <2> HIDE DEF f, f2, r, r2
    <2> QED BY <1>7, <2>1 DEF Rounded
  <1>10. /\ sox.pct = G \/ (sox.pct \in {99, 100} /\ G >= 100)
         /\ sox'.pct = IF H < 100 THEN H ELSE IF in.st = 2 THEN 99 ELSE 100
    <2>1. sox'.pct = Shown(r2, f2, in)
      BY <1>3, <1>6
    <2>2. Shown(r2, f2, in) = IF H < 100 THEN H ELSE IF in.st = 2 THEN 99 ELSE 100
      BY DEF Shown, Rounded
    <2>3. sox.pct = G \/ (sox.pct \in {99, 100} /\ G >= 100)
      BY DEF AgreeInv, Agrees
    <2> QED BY <2>1, <2>2, <2>3
  <1>11. sox.pct \in 0 .. 100 /\ sox'.pct \in Int
    <2> HIDE DEF G, H
    <2>1. sox.pct \in 0 .. 100
      BY <1>1 DEF Good, Gauge
    <2> QED BY <1>9, <1>10, <2>1
  <1>12. ASSUME in.st = 1, G < 100 PROVE H <= G + 1
    BY <1>7, <1>8, <1>12, RoundedFades
  <1>13. ASSUME in.st = 2 PROVE H >= G
    BY <1>7, <1>8, <1>13, RoundedGrows
  <1> HIDE DEF G, H
  <1> QED BY <1>3, <1>9, <1>10, <1>11, <1>12, <1>13 DEF Follows

\* A call with what the chip measures.  Between full and empty it reports
\* neither.
LEMMA MeasuredFollows ==
  ASSUME Inv, AgreeInv, NEW dir \in 0 .. 2, NEW cr \in Int, NEW fit \in BOOLEAN,
         NEW brief \in BOOLEAN, dir = 1 => cr <= 0, dir = 2 => cr >= 0,
         Measured(dir, cr, fit, brief)
  PROVE  /\ AgreeInv'
         /\ SlowFade /\ sox.pct # 255 /\ ~Charged /\ ~Empty => Follows
  <1>1. PICK end \in Ends : Cal(Input(dir, cr, fit, brief, end), end)
    BY DEF Measured
  <1> DEFINE in == Input(dir, cr, fit, brief, end)
  <1>2. in \in Inputs
    <2>1. /\ Empty \in BOOLEAN /\ (end = "eoc") \in BOOLEAN
          /\ (end = "ov1" /\ ~edge.ov) \in BOOLEAN
          /\ (Empty /\ ~edge.uv) \in BOOLEAN /\ (pack.warm /\ ~cold) \in BOOLEAN
          /\ first \in BOOLEAN /\ (IF cold THEN ColdRate ELSE 0) \in 0 .. 100
      BY SoxAssumption DEF Inv, TypeOK, Empty
    <2> QED BY <2>1 DEF Input, Inputs
  <1>3. Directed(in)
    BY DEF Directed, Input
  <1>4. ~Charged /\ ~Empty => ~in.uv /\ ~in.ov /\ ~in.cf
    BY DEF Ends, Input
  <1> HIDE DEF in
  <1>5. Cal(in, end)
    BY <1>1 DEF in
  <1> QED BY <1>2, <1>3, <1>4, <1>5, CalAgrees, CalFollows

\* What FollowsCurrent says of a step.
FollowsStep == sox.pct # 255 /\ ~Charged /\ ~Empty => Follows

\* A step without a call changes nothing that is shown.
LEMMA UncalledFollows ==
  ASSUME Inv, AgreeInv, UNCHANGED <<sox, stored, st>>
  PROVE  AgreeInv' /\ FollowsStep
  <1>1. sox.pct \in Int
    BY DEF Inv, TypeOK, Gauge
  <1> QED BY <1>1 DEF AgreeInv, Agrees, FollowsStep, Follows

\* A start is no call either.
LEMMA BootedFollows ==
  ASSUME Inv, AgreeInv, Crash \/ RestoreSox
  PROVE  AgreeInv' /\ FollowsStep
  <1>1. st' = -1 /\ Agrees(Factory)
    BY DEF Crash, RestoreSox, Booted, Agrees, Factory
  <1>2. sox' \in {stored, Factory} /\ stored' \in {stored, Factory}
    BY DEF Crash, RestoreSox
  <1>3. Agrees(sox') /\ Agrees(stored')
    BY <1>1, <1>2 DEF AgreeInv
  <1> QED BY <1>1, <1>3 DEF AgreeInv, Agrees, FollowsStep, Follows

\* Every step follows the current, whatever it measures.
LEMMA NextFollows ==
  ASSUME SlowFade, Inv, AgreeInv, [Next]_vars
  PROVE  AgreeInv' /\ FollowsStep
  <1>0. 0 \in 0 .. 2 /\ TRUE \in BOOLEAN /\ FALSE \in BOOLEAN /\ 0 \in Int
    OBVIOUS
  <1>1. ASSUME NEW dir \in 0 .. 2, NEW fit \in BOOLEAN, NEW brief \in BOOLEAN,
               Measured(dir, 0, fit, brief)
        PROVE  AgreeInv' /\ FollowsStep
    BY <1>1, MeasuredFollows DEF FollowsStep
  <1>2. CASE Discharge
    <2>0. PICK d \in Nat, r \in Int : Drawn(d, r)
      BY <1>2, DischargeAmount
    <2>1. Measured(1, -d, TRUE, FALSE)
      BY <2>0, ZenonT(30) DEF Drawn
    <2>2. 1 \in 0 .. 2 /\ -d \in Int /\ -d <= 0 /\ 1 # 2
      OBVIOUS
    <2> QED BY <1>0, <2>1, <2>2, MeasuredFollows, ZenonT(30) DEF FollowsStep
  <1>3. CASE Charge
    <2>0. PICK c \in Nat, r \in Int : Given(c, r)
      BY <1>3, ChargeAmount
    <2>1. Measured(2, c, TRUE, FALSE)
      BY <2>0, ZenonT(30) DEF Given
    <2>2. 2 \in 0 .. 2 /\ c \in Int /\ c >= 0 /\ 2 # 1
      OBVIOUS
    <2> QED BY <1>0, <2>1, <2>2, MeasuredFollows, ZenonT(30) DEF FollowsStep
  <1>4. CASE Rest \/ Unbalanced \/ Pause
    <2>1. \E fit \in BOOLEAN : Measured(0, 0, fit, FALSE)
      BY <1>4 DEF Rest, Still, Unbalanced, Pause
    <2> QED BY <1>0, <1>1, <2>1, ZenonT(30)
  <1>5. CASE Turn \/ Blip
    <2>1. \E dir \in {0, 1, 2}, brief \in BOOLEAN : Measured(dir, 0, TRUE, brief)
      BY <1>5 DEF Turn, Blip
    <2>2. {0, 1, 2} = 0 .. 2
      OBVIOUS
    <2> QED BY <1>0, <1>1, <2>1, <2>2, ZenonT(30)
  <1>6. CASE TurnEarly \/ Chill
    BY <1>6, UncalledFollows DEF TurnEarly, Chill, gauge
  <1>7. CASE Crash \/ RestoreSox
    BY <1>7, BootedFollows
  <1>8. CASE UNCHANGED vars
    BY <1>8, UncalledFollows DEF vars, gauge
  <1> QED BY <1>2, <1>3, <1>4, <1>5, <1>6, <1>7, <1>8 DEF Next

\* Between full and empty no correction makes the percentage jump: it follows
\* the current, but for a point when fmah fades (pp_sox.c:171).
THEOREM FollowsAlways == ASSUME SlowFade PROVE Spec => FollowsCurrent
  <1>1. Init => AgreeInv
    BY DEF Init, AgreeInv, Agrees, Factory
  <1>2. Inv /\ AgreeInv /\ [Next]_vars => AgreeInv'
    BY NextFollows
  <1>3. Inv /\ AgreeInv /\ [Next]_vars =>
          [sox.pct # 255 /\ ~Charged /\ ~Empty =>
             /\ st' = 1 => sox'.pct <= sox.pct + 1
             /\ st' = 2 => sox'.pct >= sox.pct - 1]_vars
    BY NextFollows DEF FollowsStep, Follows
  <1> QED BY <1>1, <1>2, <1>3, InitInv, NextInv, PTL DEF Spec, FollowsCurrent

-----------------------------------------------------------------------------
(* What a measurement from empty has counted. *)

\* Two records of the same measurement.
Same(s, n) == n.type = s.type /\ n.chgd = s.chgd /\ n.dsgd = s.dsgd

Fresh(n) == n.chgd = 0 /\ n.dsgd = 0

\* The corrections of a call: a measurement goes on, ends, or begins anew when
\* the battery is as empty as it gets.
Measuring(s, n, in) ==
  n.type = 2 =>
    \/ Same(s, n) /\ (in.fit /\ (in.ov \/ in.cf) => in.uv)
    \/ Fresh(n) /\ in.fit /\ (in.low \/ in.uv)

\* The first three parts of a call.
LEMMA BeginsMeasuring ==
  ASSUME NEW s, Sound(s), NEW in \in Inputs
  PROVE  LET n == Cycled(Started(Initialised(s), in))
         IN  Same(s, n) \/ (Fresh(n) /\ in.fit /\ in.low)
  <1> DEFINE i == Initialised(s)
             b == Started(i, in)
             n == Cycled(b)
  <1>1. Good(i) /\ Good(b)
    BY InitialisedGood, StartedGood
  <1>2. Same(s, i)
    BY DEF Initialised, Same, Sound, Gauge
  <1>3. Same(i, b) \/ (Fresh(b) /\ in.fit /\ in.low)
    <2>1. Fresh(Marked(i))
      BY <1>1 DEF Good, Gauge, Marked, Fresh
    <2>2. b = i \/ (b = Marked(i) /\ in.fit /\ in.low)
      BY DEF Started
    <2> QED BY <2>1, <2>2 DEF Same
  <1>4. Same(b, n)
    BY <1>1 DEF Cycled, Good, Gauge, Same
  <1> HIDE DEF i, b, n
  <1>5. Same(s, n) \/ (Fresh(n) /\ in.fit /\ in.low)
    BY <1>2, <1>3, <1>4 DEF Same, Fresh
  <1> QED BY <1>5 DEF n, b, i

\* The watches may end it.
LEMMA WatchedMeasuring ==
  ASSUME NEW s, Good(s), NEW in \in Inputs
  PROVE  Watched(s, in).sox.type = 2 => Same(s, Watched(s, in).sox)
  <1> DEFINE a == IF Fires(ms[1], Discharging(s, in), ShortTime, Calls(in))
                    THEN [s EXCEPT !.dsg = TRUE] ELSE s
             b == IF Fires(ms[2], Discharged(a, in), ShortTime, Calls(in))
                    THEN [a EXCEPT !.cf = 2, !.dsg = FALSE] ELSE a
             c == IF Fires(ms[3], Interrupted(b, in), LongTime, Calls(in)) THEN Unmarked(b) ELSE b
  <1>1. a \in Gauge /\ Same(s, a)
    BY ZenonT(30) DEF Good, Gauge, Same
  <1>2. Watched(s, in).sox = c
    BY DEF Watched
  <1> HIDE DEF a
  <1>3. b \in Gauge /\ Same(a, b)
    <2> DEFINE n == [a EXCEPT !.cf = 2, !.dsg = FALSE]
    <2>1. n \in Gauge
      <3>1. 2 \in 0 .. 2 /\ FALSE \in BOOLEAN
        OBVIOUS
      <3> QED BY <1>1, <3>1, SetFlags
    <2>2. Same(a, n)
      BY <1>1 DEF Gauge, Same
    <2>3. b = n \/ b = a
      OBVIOUS
    <2> HIDE DEF n, b
    <2> QED BY <1>1, <2>1, <2>2, <2>3 DEF Same
  <1> HIDE DEF b
  <1>4. Unmarked(b).type = 0
    BY <1>3 DEF Gauge, Unmarked
  <1>5. c.type = 2 => Same(b, c)
    BY <1>4 DEF Same
  <1> HIDE DEF c
  <1> QED BY <1>1, <1>2, <1>3, <1>5 DEF Same

\* A full battery ends it, an empty one begins it.
LEMMA CorrectedMeasuring ==
  ASSUME NEW s, Good(s), NEW in \in Inputs
  PROVE  Measuring(s, Corrected(s, in), in)
  <1> DEFINE f == Full(s, in)
             e == Emptied(f, in)
  <1>1. Good(f)
    BY FullGood
  <1>2. \/ f = s /\ ~(in.fit /\ (in.ov \/ in.cf))
        \/ f.type = 0
    <2> DEFINE x == IF s.type = 0 THEN s.fmah ELSE Learned(s.fmah, Filled(s), TRUE)
               u == Unmarked(s)
               n == [u EXCEPT !.cf = 1, !.dsg = FALSE, !.fmah = x, !.rmah = x, !.pct = 100, !.comp = 0]
    <2>1. u.type = 0 /\ u \in Gauge
      BY DEF Good, Gauge, Unmarked
    <2>2. (f = s /\ ~(in.fit /\ (in.ov \/ in.cf))) \/ f = n
      BY DEF Full
    <2> HIDE DEF f, x, u
    <2>3. n.type = 0
      BY <2>1 DEF Gauge
    <2> QED BY <2>2, <2>3
  <1> HIDE DEF f
  <1>3. Same(f, e) \/ (Fresh(e) /\ in.fit /\ in.uv)
    <2> DEFINE low == f.pct < 25
               x == IF low /\ f.cf # 0
                      THEN Learned(f.fmah, f.fmah - f.rmah, ~f.lrn \/ (f.cf = 1 /\ in.warm)) ELSE f.fmah
               m == IF in.warm THEN Marked(f) ELSE f
               l == f.lrn \/ (low /\ f.cf # 0)
               d == f.dsg /\ f.cf = 0
               r == IF low THEN 0 ELSE f.rmah
               p == IF low THEN 0 ELSE f.pct
               n == [m EXCEPT !.fmah = x, !.lrn = l, !.cf = 0, !.dsg = d, !.rmah = r, !.pct = p]
    <2>1. m \in Gauge
      <3>1. f \in Gauge /\ Marked(f) \in Gauge
        BY <1>1, MarkedGauge DEF Good
      <3> QED BY <3>1
    <2>2. Same(f, m) \/ Fresh(m)
      BY <1>1 DEF Good, Gauge, Marked, Same, Fresh
    <2>3. e = f \/ (in.fit /\ in.uv /\ e = n)
      BY DEF Emptied
    <2> HIDE DEF x, m, l, d, r, p, e
    <2>4. n.type = m.type /\ n.chgd = m.chgd /\ n.dsgd = m.dsgd
      BY <2>1 DEF Gauge
    <2> QED BY <2>2, <2>3, <2>4 DEF Same, Fresh
  <1>4. Corrected(s, in) = IF in.ov /\ in.uv THEN s ELSE e
    BY DEF Corrected, f
  <1> HIDE DEF e
  <1>5. CASE in.ov /\ in.uv
    BY <1>4, <1>5 DEF Measuring, Same
  <1>6. CASE ~(in.ov /\ in.uv)
    <2>1. Corrected(s, in) = e
      BY <1>4, <1>6
    <2>2. Measuring(s, e, in)
      BY <1>2, <1>3 DEF Measuring, Same
    <2> QED BY <2>1, <2>2
  <1> QED BY <1>5, <1>6

\* What flows is counted on the side it flows to, and the rest of a call does
\* not touch it.
In(in) == IF in.st = 2 THEN in.cr ELSE 0
Out(in) == IF in.st = 1 THEN 0 - in.cr ELSE 0

LEMMA CountedMeasuring ==
  ASSUME NEW s, Good(s), NEW in \in Inputs, Directed(in), NEW flow \in Int, s.type = 2
  PROVE  LET n == Calculated(Counted(s, in), in, flow)
         IN  n.type = 2 /\ n.chgd = s.chgd + In(in) /\ n.dsgd = s.dsgd + Out(in)
  <1> DEFINE c == Counted(s, in)
             n == Calculated(c, in, flow)
  <1>1. Good(c)
    BY CountedGood
  <1>2. c.type = 2 /\ c.chgd = s.chgd + In(in) /\ c.dsgd = s.dsgd + Out(in)
    <2> DEFINE l == s.comp + Lost(s, in)
               g == s.comp - Regained(s, in)
               d == s.dsgd - in.cr
               i == s.chgd + in.cr
    <2>0. s \in Gauge /\ s.chgd \in Int /\ s.dsgd \in Int /\ in.cr \in Int
      BY DEF Good, Gauge, Inputs
    <2>1. CASE in.st = 1
      <3>1. c = [s EXCEPT !.comp = l, !.dsgd = d]
        BY <2>1 DEF Counted
      <3>2. In(in) = 0 /\ Out(in) = 0 - in.cr /\ d = s.dsgd + Out(in)
        BY <2>0, <2>1 DEF In, Out
      <3> HIDE DEF l, d
      <3>3. c.type = s.type /\ c.chgd = s.chgd /\ c.dsgd = d
        BY <2>0, <3>1 DEF Gauge
      <3> QED BY <2>0, <3>2, <3>3
    <2>2. CASE in.st = 2
      <3>1. c = [s EXCEPT !.comp = g, !.chgd = i]
        BY <2>2 DEF Counted
      <3>2. In(in) = in.cr /\ Out(in) = 0 /\ i = s.chgd + In(in)
        BY <2>0, <2>2 DEF In, Out
      <3> HIDE DEF g, i
      <3>3. c.type = s.type /\ c.chgd = i /\ c.dsgd = s.dsgd
        BY <2>0, <3>1 DEF Gauge
      <3> QED BY <2>0, <3>2, <3>3
    <2>3. CASE in.st = 0
      BY <2>3 DEF Counted, Good, Gauge, Inputs, In, Out
    <2> QED BY <2>1, <2>2, <2>3 DEF Inputs
  <1> HIDE DEF c
  <1>3. Same(c, n)
    BY <1>1 DEF Calculated, Good, Gauge, Same
  <1> HIDE DEF n
  <1>4. n.type = 2 /\ n.chgd = s.chgd + In(in) /\ n.dsgd = s.dsgd + Out(in)
    BY <1>2, <1>3 DEF Same
  <1> QED BY <1>4 DEF n, c

LEMMA UncountedMeasuring ==
  ASSUME NEW s, Good(s), NEW in \in Inputs, Directed(in), NEW flow \in Int, s.type # 2
  PROVE  Calculated(Counted(s, in), in, flow).type # 2
  <1> DEFINE c == Counted(s, in)
  <1>1. Good(c)
    BY CountedGood
  <1>2. c.type = s.type
    BY DEF Counted, Good, Gauge, Inputs
  <1> HIDE DEF c
  <1>3. Calculated(c, in, flow).type = c.type
    BY <1>1 DEF Calculated, Good, Gauge
  <1> QED BY <1>2, <1>3 DEF c

\* What a whole call does to a measurement.
LEMMA CalMeasuring ==
  ASSUME Inv, NEW in \in Inputs, Directed(in), NEW end, Cal(in, end), sox'.type = 2
  PROVE  \/ /\ sox.type = 2 /\ sox'.chgd = sox.chgd + In(in) /\ sox'.dsgd = sox.dsgd + Out(in)
            /\ in.fit /\ (in.ov \/ in.cf) => in.uv
         \/ /\ in.fit /\ (in.low \/ in.uv)
            /\ sox'.chgd = In(in) /\ sox'.dsgd = Out(in)
  <1> DEFINE a == Cycled(Started(Initialised(sox), in))
             w == Watched(a, in).sox
             s == Corrected(w, in)
             flow == Flow(s, in)
  <1>1. Good(a)
    BY InitialisedGood, StartedGood, CycledGood DEF Inv
  <1>2. Same(sox, a) \/ (Fresh(a) /\ in.fit /\ in.low)
    BY BeginsMeasuring DEF Inv
  <1>3. sox' = Calculated(Counted(s, in), in, flow)
    BY DEF Cal
  <1> HIDE DEF a
  <1>4. Good(w) /\ (w.type = 2 => Same(a, w))
    BY <1>1, WatchedGood, WatchedMeasuring
  <1> HIDE DEF w
  <1>5. Good(s) /\ Measuring(w, s, in)
    BY <1>4, CorrectedGood, CorrectedMeasuring
  <1> HIDE DEF s
  <1>6. flow \in Int
    BY <1>5, AmountsInt
  <1> HIDE DEF flow
  <1>7. s.type = 2
    BY <1>3, <1>5, <1>6, UncountedMeasuring
  <1>8. sox'.chgd = s.chgd + In(in) /\ sox'.dsgd = s.dsgd + Out(in)
    BY <1>3, <1>5, <1>6, <1>7, CountedMeasuring
  <1>9. In(in) \in Int /\ Out(in) \in Int
    BY DEF In, Out, Inputs
  <1>10. CASE Fresh(s) /\ in.fit /\ (in.low \/ in.uv)
    BY <1>8, <1>9, <1>10 DEF Fresh
  <1>11. CASE Same(w, s) /\ (in.fit /\ (in.ov \/ in.cf) => in.uv)
    <2>1. Same(a, s)
      BY <1>4, <1>7, <1>11 DEF Same
    <2>2. CASE Same(sox, a)
      BY <1>7, <1>8, <1>11, <2>1, <2>2 DEF Same
    <2>3. CASE Fresh(a) /\ in.fit /\ in.low
      BY <1>8, <1>9, <2>1, <2>3 DEF Same, Fresh
    <2> QED BY <1>2, <2>2, <2>3
  <1> QED BY <1>5, <1>7, <1>10, <1>11 DEF Measuring

-----------------------------------------------------------------------------
(* What it counted is what went into the battery. *)

\* What the disturbances so far can have cost.
Budget == faults * (2 + Cost)

Within(s, x, n) == Abs(985 * s.chgd - 1000 * s.dsgd - x) <= 1000 * n

\* A measurement under way begins at what a cold battery keeps and is rounded
\* up once, when the battery is full.  Without a disturbance the battery is not
\* emptied before it has ended.
Room ==
  CASE goal = "empty" -> IF Empty THEN Budget ELSE Budget - 1
    [] goal = "full" /\ ~Charged -> Budget
    [] goal = "full" /\ Charged -> IF edge.ov THEN Budget - 1 ELSE Budget + 1

MarkInv ==
  /\ cold => faults > 0
  /\ age = 0 \/ age < StoreTime
  /\ sox.type = 2 => Within(sox, q, Room)
  /\ stored.type = 2 => Within(stored, q, Budget + 1 + age * Amount)

\* What one disturbance costs, and what the age of the store makes of it.
LEMMA CostCovers ==
  ASSUME Inv
  PROVE  /\ Cost \in Nat /\ Percent(ColdRate, pack.holds) <= Cost
         /\ \A n \in Nat : n < StoreTime => n * Amount <= Cost
  <1>1. Percent(ColdRate, pack.holds) \in Nat
    BY FloorBelow
  <1>2. (StoreTime - 1) * Amount \in Int
    BY SoxAssumption
  <1>3. Cost \in Nat /\ Percent(ColdRate, pack.holds) <= Cost /\ (StoreTime - 1) * Amount <= Cost
    BY <1>1, <1>2 DEF Cost, Most
  <1>4. ASSUME NEW n \in Nat, n < StoreTime PROVE n * Amount <= (StoreTime - 1) * Amount
    <2>1. n <= StoreTime - 1 /\ StoreTime - 1 \in Nat /\ Amount \in Nat
      BY <1>4, SoxAssumption
    <2> DEFINE k == StoreTime - 1 - n
    <2>2. k \in Nat /\ StoreTime - 1 = n + k
      BY <2>1, SoxAssumption
    <2> HIDE DEF k
    <2>3. (n + k) * Amount = n * Amount + k * Amount /\ k * Amount >= 0 /\ n * Amount \in Int /\ k * Amount \in Int
      BY <2>1, <2>2
    <2> QED BY <2>2, <2>3
  <1>5. ASSUME NEW n \in Nat, n < StoreTime PROVE n * Amount <= Cost
    <2>1. n * Amount \in Int
      BY SoxAssumption
    <2> QED BY <1>2, <1>3, <1>4, <1>5, <2>1
  <1> QED BY <1>3, <1>5

\* A disturbance adds its cost.
LEMMA BudgetGrows ==
  ASSUME Inv, pack' = pack, faults' = faults \/ Disturbed
  PROVE  /\ Budget \in Nat /\ Budget' \in Nat /\ Cost' = Cost
         /\ faults' = faults => Budget' = Budget
         /\ Disturbed => Budget' = Budget + 2 + Cost
         /\ faults > 0 => Budget >= 2 + Cost
  <1>1. Cost \in Nat /\ faults \in Nat
    BY CostCovers, SoxAssumption DEF Inv, TypeOK
  <1>2. Cost' = Cost
    BY DEF Cost
  <1> DEFINE C == 2 + Cost
  <1>3. C \in Nat /\ C' = C /\ Budget = faults * C /\ Budget' = faults' * C
    BY <1>1, <1>2 DEF Budget
  <1> HIDE DEF C
  <1>4. faults * C \in Nat /\ (faults + 1) * C = faults * C + C
    BY <1>1, <1>3
  <1>5. faults > 0 => faults * C >= C
    <2>1. faults > 0 => faults - 1 \in Nat /\ faults * C = (faults - 1) * C + C /\ (faults - 1) * C >= 0
      BY <1>1, <1>3
    <2> QED BY <1>3, <1>4, <2>1
  <1>6. C = 2 + Cost
    BY DEF C
  <1> QED BY <1>1, <1>2, <1>3, <1>4, <1>5, <1>6 DEF Disturbed

LEMMA RoomAround ==
  ASSUME Inv
  PROVE  Budget \in Nat /\ Room \in Budget - 1 .. Budget + 1
  <1>1. Budget \in Nat
    <2>1. Cost \in Nat /\ faults \in Nat
      BY CostCovers, SoxAssumption DEF Inv, TypeOK
    <2> QED BY <2>1 DEF Budget
  <1>2. goal \in {"empty", "full"}
    BY DEF Inv, TypeOK
  <1> QED BY <1>1, <1>2 DEF Room

\* What a call with whatever the chip measures does to a measurement.
Marks(dir, cr, fit) ==
  LET in == IF dir = 2 THEN cr ELSE 0
      out == IF dir = 1 THEN 0 - cr ELSE 0
  IN  /\ sox'.type = 2 =>
           \/ /\ sox.type = 2 /\ sox'.chgd = sox.chgd + in /\ sox'.dsgd = sox.dsgd + out
              /\ Charged /\ fit => edge.ov /\ edge'.ov
           \/ fit /\ Empty /\ sox'.chgd = in /\ sox'.dsgd = out
      /\ ~Charged => ~edge'.ov

\* It makes the store new, or a call older.
Aged ==
  \/ stored' = sox' /\ age' = 0
  \/ age + 1 < StoreTime /\ stored' = stored /\ age' = age + 1

LEMMA MeasuredMarks ==
  ASSUME Inv, NEW dir \in 0 .. 2, NEW cr \in Int, NEW fit \in BOOLEAN, NEW brief \in BOOLEAN,
         dir = 1 => cr <= 0, dir = 2 => cr >= 0, Measured(dir, cr, fit, brief)
  PROVE  Marks(dir, cr, fit) /\ Aged
  <1>1. PICK end \in Ends : Cal(Input(dir, cr, fit, brief, end), end)
    BY DEF Measured
  <1> DEFINE in == Input(dir, cr, fit, brief, end)
  <1>2. in \in Inputs
    <2>1. /\ Empty \in BOOLEAN /\ (end = "eoc") \in BOOLEAN
          /\ (end = "ov1" /\ ~edge.ov) \in BOOLEAN
          /\ (Empty /\ ~edge.uv) \in BOOLEAN /\ (pack.warm /\ ~cold) \in BOOLEAN
          /\ first \in BOOLEAN /\ (IF cold THEN ColdRate ELSE 0) \in 0 .. 100
      BY SoxAssumption DEF Inv, TypeOK, Empty
    <2> QED BY <2>1 DEF Input, Inputs
  <1>3. Directed(in)
    BY DEF Directed, Input
  <1>4. /\ in.fit = fit /\ (in.low \/ in.uv => Empty) /\ (in.uv => Empty)
        /\ in.cf = (end = "eoc") /\ in.ov = (end = "ov1" /\ ~edge.ov)
        /\ In(in) = (IF dir = 2 THEN cr ELSE 0) /\ Out(in) = (IF dir = 1 THEN 0 - cr ELSE 0)
    BY DEF Input, In, Out
  <1> HIDE DEF in
  <1>5. Cal(in, end)
    BY <1>1 DEF in
  <1>6. edge' = [ov |-> end = "ov1", uv |-> Empty] /\ Aged
    BY <1>5 DEF Cal, Aged
  <1>7. edge'.ov = (end = "ov1")
    BY <1>6
  <1>8. /\ Charged => end \in {"eoc", "ov1"} /\ ~Empty
        /\ ~Charged => end = "none"
    BY FloorBelow DEF Ends, Charged, Empty
  <1>9. sox'.type = 2 =>
          \/ /\ sox.type = 2 /\ sox'.chgd = sox.chgd + In(in) /\ sox'.dsgd = sox.dsgd + Out(in)
             /\ in.fit /\ (in.ov \/ in.cf) => in.uv
          \/ /\ in.fit /\ (in.low \/ in.uv)
             /\ sox'.chgd = In(in) /\ sox'.dsgd = Out(in)
    BY <1>2, <1>3, <1>5, CalMeasuring
  <1>10. ~Charged => ~edge'.ov
    BY <1>7, <1>8
  <1>11. ~(in.fit /\ (in.ov \/ in.cf)) \/ in.uv => (Charged /\ fit => edge.ov /\ edge'.ov)
    <2>1. edge.ov \in BOOLEAN
      BY DEF Inv, TypeOK
    <2> QED BY <1>4, <1>7, <1>8, <2>1
  <1> QED BY <1>4, <1>6, <1>9, <1>10, <1>11 DEF Marks

\* Without a current it counts nothing.
Untouched(fit) ==
  sox'.type = 2 =>
    \/ /\ sox.type = 2 /\ sox'.chgd = sox.chgd /\ sox'.dsgd = sox.dsgd
       /\ Charged /\ fit => edge.ov /\ edge'.ov
    \/ fit /\ Empty /\ sox'.chgd = 0 /\ sox'.dsgd = 0

LEMMA StillMarks ==
  ASSUME Inv, NEW dir \in 0 .. 2, NEW cr \in Int, cr = 0, NEW fit \in BOOLEAN,
         NEW brief \in BOOLEAN, Measured(dir, cr, fit, brief)
  PROVE  Untouched(fit) /\ Aged
  <1>1. cr <= 0 /\ cr >= 0 /\ 0 - cr = 0
    OBVIOUS
  <1>2. Marks(dir, cr, fit) /\ Aged
    BY <1>1, MeasuredMarks, ZenonT(30)
  <1>3. sox.chgd \in Int /\ sox.dsgd \in Int
    BY DEF Inv, TypeOK, Gauge
  <1>4. sox.chgd + 0 = sox.chgd /\ sox.dsgd + 0 = sox.dsgd
    BY <1>3
  <1>5. (IF dir = 2 THEN cr ELSE 0) = 0 /\ (IF dir = 1 THEN 0 - cr ELSE 0) = 0
    BY <1>1
  <1> QED BY <1>2, <1>4, <1>5, ZenonT(30) DEF Marks, Untouched

\* A bound that holds holds for more.
LEMMA WithinMore ==
  ASSUME NEW s, NEW x \in Int, s.chgd \in Int, s.dsgd \in Int, NEW a \in Int, NEW b \in Int,
         a <= b, Within(s, x, a)
  PROVE  Within(s, x, b)
  <1> DEFINE y == 985 * s.chgd - 1000 * s.dsgd - x
  <1>1. y \in Int /\ Abs(y) <= 1000 * a
    BY DEF Within
  <1> HIDE DEF y
  <1>2. Abs(y) <= 1000 * b
    BY <1>1 DEF Abs
  <1> QED BY <1>2 DEF Within, y

\* The room after a step is what the budget leaves.
LEMMA RoomNext ==
  ASSUME goal' \in {"empty", "full"}, Budget' \in Nat
  PROVE  Room' \in Budget' - 1 .. Budget' + 1
  BY DEF Room

\* A charge that moves takes what was counted no further than it moved.
LEMMA FromMoved ==
  ASSUME NEW s, s.chgd \in Int, s.dsgd \in Int, NEW a \in Int, NEW b \in Int, NEW m \in Nat,
         NEW k \in Int, NEW n \in Int,
         a - b <= 1000 * m, b - a <= 1000 * m, Within(s, a, k), n >= k + m
  PROVE  Within(s, b, n)
  <1> DEFINE y == 985 * s.chgd - 1000 * s.dsgd
  <1>1. y \in Int /\ Abs(y - a) <= 1000 * k
    BY DEF Within
  <1> HIDE DEF y
  <1>2. Abs(y - b) <= 1000 * n
    BY <1>1 DEF Abs
  <1> QED BY <1>2 DEF Within, y

\* A call makes the store a call older, or new.
LEMMA MarkKept ==
  ASSUME Inv, Inv', MarkInv, Aged, pack' = pack,
         faults' = faults \/ Disturbed,
         NEW r \in Int, q' = r, r - q <= 1000 * Amount, q - r <= 1000 * Amount,
         cold' => faults' > 0, sox'.type = 2 => Within(sox', r, Room')
  PROVE  MarkInv'
  <1>1. Budget \in Nat /\ Budget' \in Nat /\ Budget' >= Budget
    BY BudgetGrows, CostCovers
  <1>2. Room' \in Int /\ Room' <= Budget' + 1
    BY <1>1, RoomNext DEF Inv, TypeOK
  <1>3. /\ q \in Int /\ Amount \in Nat /\ age \in Nat
        /\ sox' \in Gauge /\ stored \in Gauge
    BY FloorBelow, SoxAssumption DEF Inv, TypeOK
  <1>4. CASE stored' = sox' /\ age' = 0
    <2>1. stored'.type = 2 => Within(stored', r, Budget' + 1 + age' * Amount)
      <3> SUFFICES ASSUME sox'.type = 2 PROVE Within(sox', r, Budget' + 1 + age' * Amount)
        BY <1>4
      <3>1. age' * Amount = 0
        BY <1>3, <1>4
      <3>2. Within(sox', r, Room')
        OBVIOUS
      <3>3. sox'.chgd \in Int /\ sox'.dsgd \in Int
        BY <1>3 DEF Gauge
      <3> DEFINE n == Budget' + 1 + age' * Amount
      <3>4. n \in Int /\ Room' <= n
        <4> DEFINE k == Budget'
                   o == Room'
                   z == age' * Amount
        <4>1. k \in Nat /\ z = 0
          BY <1>1, <3>1
        <4>2. o \in Int /\ o <= k + 1
          BY <1>2
        <4> HIDE DEF k, o, z
        <4>3. k + 1 + z \in Int /\ o <= k + 1 + z
          BY <4>1, <4>2
        <4> QED BY <4>3 DEF k, o, z
      <3> HIDE DEF n
      <3>5. Within(sox', r, n)
        BY <1>2, <1>3, <3>2, <3>3, <3>4, WithinMore
      <3> QED BY <3>5 DEF n
    <2> QED BY <1>4, <2>1 DEF MarkInv
  <1>5. CASE age + 1 < StoreTime /\ stored' = stored /\ age' = age + 1
    <2>1. stored'.type = 2 => Within(stored', r, Budget' + 1 + age' * Amount)
      <3> SUFFICES ASSUME stored.type = 2 PROVE Within(stored, r, Budget' + 1 + age' * Amount)
        BY <1>5
      <3> DEFINE k == Budget + 1 + age * Amount
                 n == Budget' + 1 + age' * Amount
      <3>1. k \in Int /\ n \in Int /\ n >= k + Amount
        <4> DEFINE x == age * Amount
                   z == age' * Amount
                   b == Budget
                   c == Budget'
        <4>1. x \in Int /\ z = x + Amount /\ b \in Nat /\ c \in Nat /\ c >= b
          BY <1>1, <1>3, <1>5
        <4> HIDE DEF x, z, b, c
        <4>2. b + 1 + x \in Int /\ c + 1 + z \in Int /\ c + 1 + z >= b + 1 + x + Amount
          BY <1>3, <4>1
        <4> QED BY <4>2 DEF x, z, b, c
      <3>2. Within(stored, q, k)
        BY DEF MarkInv
      <3>3. stored.chgd \in Int /\ stored.dsgd \in Int
        BY <1>3 DEF Gauge
      <3> HIDE DEF k, n
      <3>4. Within(stored, r, n)
        BY <1>3, <3>1, <3>2, <3>3, FromMoved, ZenonT(30)
      <3> QED BY <3>4 DEF n
    <2> QED BY <1>5, <2>1 DEF MarkInv
  <1> QED BY <1>4, <1>5 DEF Aged

\* A measurement that has just begun, at what the battery still holds.
LEMMA FreshWithin ==
  ASSUME Inv, MarkInv, Empty
  PROVE  q \in Int /\ 0 <= q /\ q <= 1000 * Cost /\ (q = 0 \/ faults > 0)
  <1>1. q \in Nat /\ q <= Floor
    BY FloorBelow DEF Inv, TypeOK, Empty
  <1> QED BY <1>1, FloorBelow, CostCovers DEF MarkInv

\* A call without a current while nothing else happens.
LEMMA RestMarks ==
  ASSUME Inv, MarkInv, Rest \/ Turn
  PROVE  MarkInv'
  <1>1. /\ AtGoal /\ UNCHANGED <<pack, q, faults>>
        /\ \/ goal' = goal /\ cold' = cold
           \/ goal = "full" /\ goal' = "empty" /\ cold' = cold
           \/ goal = "empty" /\ goal' = "full" /\ cold' = FALSE
    <2>1. cold \in BOOLEAN /\ goal \in {"empty", "full"}
      BY DEF Inv, TypeOK
    <2> QED BY <2>1 DEF Rest, Still, Turn, Turned, battery
  <1>2. Untouched(TRUE) /\ Aged
    <2>1. \E dir \in {0, 1, 2} : Measured(dir, 0, TRUE, FALSE)
      BY DEF Rest, Still, Turn
    <2>2. {0, 1, 2} = 0 .. 2 /\ 0 \in Int /\ TRUE \in BOOLEAN /\ FALSE \in BOOLEAN
      OBVIOUS
    <2> QED BY <2>1, <2>2, StillMarks, ZenonT(30)
  <1>3. Inv'
    BY NextInv DEF Next
  <1>4. Budget \in Nat /\ Budget' = Budget /\ Cost \in Nat /\ (faults > 0 => Budget >= 2 + Cost)
    BY <1>1, BudgetGrows, CostCovers
  <1>5. Floor \in Int /\ Floor < Top /\ Top' = Top /\ (cold' = cold => Floor' = Floor) /\ Floor' \in Int /\ Floor' < Top
    BY <1>1, FloorBelow DEF Floor, Top
  <1>6. q \in Int /\ goal \in {"empty", "full"} /\ edge.ov \in BOOLEAN /\ edge'.ov \in BOOLEAN
    BY <1>3, FloorBelow DEF Inv, TypeOK
  <1>7. ASSUME sox'.type = 2 PROVE Within(sox', q', Room')
    <2>1. CASE Empty /\ sox'.chgd = 0 /\ sox'.dsgd = 0
      <3>1. q \in Int /\ 0 <= q /\ q <= 1000 * Cost /\ (q = 0 \/ faults > 0)
        BY <2>1, FreshWithin
      <3>2. Room' \in Int /\ Room' >= Budget
        BY <1>1, <1>4, <1>5, <1>6, <2>1 DEF Room, Empty, Charged, AtGoal
      <3>3. Within(sox', q, Budget)
        <4>1. q <= 1000 * Budget
          BY <1>4, <1>1, <3>1, SoxAssumption DEF Inv, TypeOK
        <4> QED BY <1>4, <2>1, <3>1, <4>1 DEF Within, Abs
      <3> QED BY <1>1, <1>4, <1>6, <2>1, <3>2, <3>3, WithinMore
    <2>2. CASE /\ sox.type = 2 /\ sox'.chgd = sox.chgd /\ sox'.dsgd = sox.dsgd
               /\ Charged => edge.ov /\ edge'.ov
      <3>1. Within(sox, q, Room)
        BY <2>2 DEF MarkInv
      <3>2. Room' = Room
        BY <1>1, <1>4, <1>5, <1>6, <2>2 DEF Room, Empty, Charged, AtGoal
      <3> QED BY <1>1, <2>2, <3>1, <3>2 DEF Within
    <2> QED BY <1>2, <1>7, <2>1, <2>2 DEF Untouched
  <1>8. q' = q /\ q - q <= 1000 * Amount
    BY <1>1, <1>6, SoxAssumption
  <1>9. cold' => faults' > 0
    BY <1>1 DEF MarkInv
  <1>10. sox'.type = 2 => Within(sox', q, Room')
    BY <1>7, <1>8
  <1> QED BY <1>1, <1>2, <1>3, <1>6, <1>8, <1>9, <1>10, MarkKept, ZenonT(30)

\* A disturbance pays for whatever it does to a measurement.
LEMMA DisturbedMarks ==
  ASSUME Inv, MarkInv, Unbalanced \/ Pause \/ Blip
  PROVE  MarkInv'
  <1>1. UNCHANGED <<pack, q, cold>> /\ Disturbed
    BY DEF Unbalanced, Pause, Blip, battery
  <1>2. PICK fit \in BOOLEAN : Untouched(fit) /\ Aged
    <2>1. \E dir \in {0, 1, 2}, fit \in BOOLEAN, brief \in BOOLEAN : Measured(dir, 0, fit, brief)
      BY DEF Unbalanced, Pause, Blip
    <2>2. {0, 1, 2} = 0 .. 2 /\ 0 \in Int
      OBVIOUS
    <2> QED BY <2>1, <2>2, StillMarks, ZenonT(30)
  <1>3. Inv'
    BY NextInv DEF Next
  <1>4. Budget \in Nat /\ Budget' = Budget + 2 + Cost /\ Cost \in Nat
    BY <1>1, BudgetGrows, CostCovers
  <1>5. Room \in Int /\ Room <= Budget + 1 /\ Room' \in Int /\ Room' >= Budget + 1 + Cost
    <2>1. Budget' \in Nat /\ goal' \in {"empty", "full"}
      BY <1>3, <1>4 DEF Inv, TypeOK
    <2>2. Room' \in Budget' - 1 .. Budget' + 1
      BY <2>1, RoomNext
    <2>3. Room \in Budget - 1 .. Budget + 1
      BY RoomAround
    <2> QED BY <1>4, <2>2, <2>3
  <1>6. q \in Int /\ sox \in Gauge
    BY FloorBelow DEF Inv, TypeOK
  <1>7. ASSUME sox'.type = 2 PROVE Within(sox', q', Room')
    <2>1. CASE Empty /\ sox'.chgd = 0 /\ sox'.dsgd = 0
      <3>1. q \in Int /\ 0 <= q /\ q <= 1000 * Cost
        BY <2>1, FreshWithin
      <3>2. Within(sox', q, Cost)
        BY <1>4, <2>1, <3>1 DEF Within, Abs
      <3> QED BY <1>1, <1>4, <1>5, <1>6, <2>1, <3>2, WithinMore
    <2>2. CASE sox.type = 2 /\ sox'.chgd = sox.chgd /\ sox'.dsgd = sox.dsgd
      <3>1. Within(sox, q, Room)
        BY <2>2 DEF MarkInv
      <3>2. sox.chgd \in Int /\ sox.dsgd \in Int
        BY <1>6 DEF Gauge
      <3>3. Within(sox, q, Room')
        BY <1>4, <1>5, <1>6, <3>1, <3>2, WithinMore
      <3> QED BY <1>1, <2>2, <3>3 DEF Within
    <2> QED BY <1>2, <1>7, <2>1, <2>2 DEF Untouched
  <1>8. q' = q /\ q - q <= 1000 * Amount
    BY <1>1, <1>6, SoxAssumption
  <1>9. cold' => faults' > 0
    BY <1>1, SoxAssumption DEF Disturbed, Inv, TypeOK
  <1>10. sox'.type = 2 => Within(sox', q, Room')
    BY <1>7, <1>8
  <1> QED BY <1>1, <1>2, <1>3, <1>6, <1>8, <1>9, <1>10, MarkKept, ZenonT(30)

\* So does one without a call.
LEMMA UncalledMarks ==
  ASSUME Inv, MarkInv, TurnEarly \/ Chill
  PROVE  MarkInv'
  <1>1. UNCHANGED <<gauge, stored, age, pack, q>> /\ Disturbed
    BY DEF TurnEarly, Chill
  <1>3. Inv'
    BY NextInv DEF Next
  <1>4. Budget \in Nat /\ Budget' = Budget + 2 + Cost /\ Cost \in Nat
    BY <1>1, BudgetGrows, CostCovers
  <1>5. Room \in Int /\ Room <= Budget + 1 /\ Room' \in Int /\ Room' >= Budget + 1 + Cost
    <2>1. Budget' \in Nat /\ goal' \in {"empty", "full"}
      BY <1>3, <1>4 DEF Inv, TypeOK
    <2>2. Room' \in Budget' - 1 .. Budget' + 1
      BY <2>1, RoomNext
    <2>3. Room \in Budget - 1 .. Budget + 1
      BY RoomAround
    <2> QED BY <1>4, <2>2, <2>3
  <1>6. q \in Int /\ sox \in Gauge /\ stored \in Gauge /\ age * Amount \in Int
    BY FloorBelow, SoxAssumption DEF Inv, TypeOK
  <1>7. ASSUME sox'.type = 2 PROVE Within(sox', q', Room')
    <2>1. Within(sox, q, Room) /\ sox' = sox
      BY <1>1, <1>7 DEF MarkInv, gauge
    <2>2. sox.chgd \in Int /\ sox.dsgd \in Int
      BY <1>6 DEF Gauge
    <2>3. Within(sox, q, Room')
      BY <1>4, <1>5, <1>6, <2>1, <2>2, WithinMore
    <2> QED BY <1>1, <2>1, <2>3
  <1>8. ASSUME stored'.type = 2 PROVE Within(stored', q', Budget' + 1 + age' * Amount)
    <2> DEFINE x == age * Amount
    <2>1. Within(stored, q, Budget + 1 + x)
      BY <1>1, <1>8 DEF MarkInv
    <2>2. 985 * stored.chgd - 1000 * stored.dsgd - q \in Int /\ x \in Int
      BY <1>6 DEF Gauge
    <2>3. age' * Amount = x
      BY <1>1
    <2> HIDE DEF x
    <2>4. Within(stored, q, Budget' + 1 + x)
      BY <1>4, <2>1, <2>2 DEF Within, Abs
    <2> QED BY <1>1, <2>3, <2>4
  <1>9. cold' => faults' > 0
    BY <1>1, SoxAssumption DEF Disturbed, Inv, TypeOK
  <1>10. age' = 0 \/ age' < StoreTime
    BY <1>1 DEF MarkInv
  <1> QED BY <1>7, <1>8, <1>9, <1>10 DEF MarkInv

\* A start goes back to what was stored, the calls since are lost.
LEMMA BootedMarks ==
  ASSUME Inv, MarkInv, Crash \/ RestoreSox
  PROVE  MarkInv'
  <1>1. Booted /\ Disturbed /\ UNCHANGED <<pack, q, cold>> /\ age' = 0
    BY DEF Crash, RestoreSox, Booted, battery
  <1>2. sox' = stored' /\ stored' \in {stored, Factory}
    BY DEF Crash, RestoreSox
  <1>3. Inv'
    BY NextInv DEF Next
  <1>4. Budget \in Nat /\ Budget' = Budget + 2 + Cost /\ Cost \in Nat
    BY <1>1, BudgetGrows, CostCovers
  <1>5. Room' \in Int /\ Room' >= Budget + 1 + Cost /\ Room' <= Budget' + 1
    <2>1. Budget' \in Nat /\ goal' \in {"empty", "full"}
      BY <1>3, <1>4 DEF Inv, TypeOK
    <2>2. Room' \in Budget' - 1 .. Budget' + 1
      BY <2>1, RoomNext
    <2> QED BY <1>4, <2>2
  <1>6. q \in Int /\ stored \in Gauge /\ age \in Nat /\ Amount \in Nat
    BY FloorBelow, SoxAssumption DEF Inv, TypeOK
  <1>7. age * Amount \in Int /\ age * Amount <= Cost
    <2>1. CASE age = 0
      BY <1>4, <1>6, <2>1
    <2>2. CASE age < StoreTime
      BY <1>6, <2>2, CostCovers
    <2> QED BY <1>6, <2>1, <2>2 DEF MarkInv
  <1>8. ASSUME stored'.type = 2 PROVE Within(stored', q', Budget + 1 + Cost)
    <2> DEFINE x == age * Amount
    <2>1. stored' = stored
      BY <1>2, <1>8 DEF Factory
    <2>2. Within(stored, q, Budget + 1 + x)
      BY <1>8, <2>1 DEF MarkInv
    <2>3. 985 * stored.chgd - 1000 * stored.dsgd - q \in Int
      BY <1>6 DEF Gauge
    <2> HIDE DEF x
    <2>4. x \in Int /\ x <= Cost
      BY <1>7 DEF x
    <2> QED BY <1>1, <1>4, <2>1, <2>2, <2>3, <2>4 DEF Within, Abs
  <1>9. ASSUME stored'.type = 2 PROVE Within(sox', q', Room') /\ Within(stored', q', Budget' + 1 + age' * Amount)
    <2>1. age' * Amount = 0
      BY <1>1, <1>6
    <2>2. stored' \in Gauge /\ q' \in Int
      BY <1>1, <1>3, <1>6 DEF Inv, TypeOK
    <2>3. 985 * stored'.chgd - 1000 * stored'.dsgd - q' \in Int
      BY <2>2 DEF Gauge
    <2>4. Within(stored', q', Budget + 1 + Cost)
      BY <1>8, <1>9
    <2> QED BY <1>2, <1>4, <1>5, <2>1, <2>3, <2>4 DEF Within, Abs
  <1>10. cold' => faults' > 0
    BY <1>1, SoxAssumption DEF Disturbed, Inv, TypeOK
  <1> QED BY <1>1, <1>2, <1>9, <1>10 DEF MarkInv

\* What is drawn is counted exactly, until the last of it.
LEMMA DischargeMarks ==
  ASSUME Inv, MarkInv, Discharge
  PROVE  MarkInv'
  <1>1. PICK d \in Nat, r \in Int : Drawn(d, r)
    BY DischargeAmount
  <1>2. UNCHANGED <<pack, goal, cold, faults>> /\ goal = "empty" /\ ~Empty
    BY DEF Discharge, AtGoal
  <1>3. Marks(1, -d, TRUE) /\ Aged
    <2>1. 1 \in 0 .. 2 /\ -d \in Int /\ TRUE \in BOOLEAN /\ FALSE \in BOOLEAN /\ -d <= 0 /\ 1 # 2
      OBVIOUS
    <2>2. Measured(1, -d, TRUE, FALSE)
      BY <1>1, ZenonT(30) DEF Drawn
    <2> QED BY <2>1, <2>2, MeasuredMarks, ZenonT(30)
  <1>4. Inv'
    BY NextInv DEF Next
  <1>5. Budget \in Nat /\ Budget' = Budget
    BY <1>2, BudgetGrows
  <1>6. /\ d \in Nat /\ q \in Int /\ r \in Int /\ r <= q /\ q - r <= 1000 * d
        /\ 1000 * d < q - r + 1000 /\ (r # Floor => r = q - 1000 * d)
        /\ r >= Floor /\ d <= Amount
    <2>1. q \in Int
      BY FloorBelow DEF Inv, TypeOK
    <2>2. /\ r <= q /\ q - r <= 1000 * d
          /\ 1000 * d < q - r + 1000 /\ (r # Floor => r = q - 1000 * d)
          /\ r >= Floor /\ d <= Amount
      <3>1. Lower(d, r)
        BY <1>1, ZenonT(30) DEF Drawn
      <3> QED BY <3>1 DEF Lower
    <2> QED BY <2>1, <2>2
  <1>7. q' = r
    BY <1>1, ZenonT(30) DEF Drawn
  <1>8. Floor' = Floor /\ Floor \in Int
    BY <1>2, FloorBelow DEF Floor
  <1>9. Room = Budget - 1 /\ Room' = IF r <= Floor THEN Budget ELSE Budget - 1
    BY <1>2, <1>5, <1>7, <1>8 DEF Room, Empty
  <1>10. ASSUME sox'.type = 2 PROVE Within(sox', r, Room')
    <2>1. sox.type = 2 /\ sox'.chgd = sox.chgd + 0 /\ sox'.dsgd = sox.dsgd + d
      <3>1. (IF 1 = 2 THEN -d ELSE 0) = 0 /\ (IF 1 = 1 THEN 0 - (-d) ELSE 0) = d
        OBVIOUS
      <3> QED BY <1>2, <1>3, <1>10, <3>1 DEF Marks
    <2>2. Within(sox, q, Budget - 1)
      BY <1>9, <2>1 DEF MarkInv
    <2>3. sox.chgd \in Int /\ sox.dsgd \in Int
      BY DEF Inv, TypeOK, Gauge
    <2> DEFINE x == 985 * sox.chgd - 1000 * sox.dsgd - q
    <2>4. x \in Int /\ Abs(x) <= 1000 * (Budget - 1)
      BY <1>6, <2>2, <2>3 DEF Within
    <2>5. 985 * sox'.chgd - 1000 * sox'.dsgd - r = x - (1000 * d - (q - r))
      BY <1>6, <2>1, <2>3
    <2> HIDE DEF x
    <2> DEFINE b == Budget
               n == Room'
               y == x - (1000 * d - (q - r))
    <2>6. /\ b \in Nat /\ n \in Int /\ n = (IF r <= Floor THEN b ELSE b - 1)
          /\ Abs(x) <= 1000 * (b - 1)
      BY <1>5, <1>9, <2>4
    <2> HIDE DEF b, n
    <2>7. Abs(y) <= 1000 * n
      <3>1. Floor \in Int
        BY <1>8
      <3> QED BY <1>6, <2>4, <2>6, <3>1 DEF Abs
    <2> QED BY <2>5, <2>7 DEF Within, n
  <1>11. r - q <= 1000 * Amount /\ q - r <= 1000 * Amount
    <2>1. Amount \in Nat
      BY SoxAssumption
    <2> QED BY <1>6, <2>1
  <1>12. cold' => faults' > 0
    BY <1>2 DEF MarkInv
  <1> QED BY <1>2, <1>3, <1>4, <1>6, <1>7, <1>10, <1>11, <1>12, MarkKept

\* What is charged is counted exactly, until the battery is full.
LEMMA ChargeMarks ==
  ASSUME Inv, MarkInv, Charge
  PROVE  MarkInv'
  <1>1. PICK c \in Nat, r \in Int : Given(c, r)
    BY ChargeAmount
  <1>2. UNCHANGED <<pack, goal, cold, faults>> /\ goal = "full" /\ ~Charged
    BY DEF Charge, AtGoal
  <1>3. Marks(2, c, TRUE) /\ Aged
    <2>1. 2 \in 0 .. 2 /\ c \in Int /\ TRUE \in BOOLEAN /\ FALSE \in BOOLEAN /\ c >= 0 /\ 2 # 1
      OBVIOUS
    <2>2. Measured(2, c, TRUE, FALSE)
      BY <1>1, ZenonT(30) DEF Given
    <2> QED BY <2>1, <2>2, MeasuredMarks, ZenonT(30)
  <1>4. Inv'
    BY NextInv DEF Next
  <1>5. Budget \in Nat /\ Budget' = Budget /\ Cost \in Nat /\ (faults > 0 => Budget >= 2 + Cost)
    BY <1>2, BudgetGrows, CostCovers
  <1>6. /\ c \in Nat /\ q \in Int /\ r \in Int /\ q <= r /\ r - q <= 985 * c
        /\ 985 * c < r - q + 985 /\ (r # Top => r = q + 985 * c) /\ c <= Amount
        /\ r - q <= 1000 * c
    <2>1. q \in Int
      BY FloorBelow DEF Inv, TypeOK
    <2>2. /\ q <= r /\ r - q <= 985 * c /\ 985 * c < r - q + 985
          /\ (r # Top => r = q + 985 * c) /\ c <= Amount
      <3>1. Higher(c, r)
        BY <1>1, ZenonT(30) DEF Given
      <3> QED BY <3>1 DEF Higher
    <2>3. r - q <= 1000 * c
      BY <2>1, <2>2
    <2> QED BY <2>1, <2>2, <2>3
  <1>7. q' = r
    BY <1>1, ZenonT(30) DEF Given
  <1>8. Top' = Top /\ Top \in Int /\ ~edge'.ov
    BY <1>2, <1>3, FloorBelow DEF Top, Marks
  <1>9. Room = Budget /\ Room' = IF r = Top THEN Budget + 1 ELSE Budget
    BY <1>2, <1>5, <1>7, <1>8 DEF Room, Charged
  <1>10. ASSUME sox'.type = 2 PROVE Within(sox', r, Room')
    <2>1. \/ sox.type = 2 /\ sox'.chgd = sox.chgd + c /\ sox'.dsgd = sox.dsgd + 0
          \/ Empty /\ sox'.chgd = c /\ sox'.dsgd = 0
      <3>1. (IF 2 = 2 THEN c ELSE 0) = c /\ (IF 2 = 1 THEN 0 - c ELSE 0) = 0
        OBVIOUS
      <3> QED BY <1>3, <1>10, <3>1 DEF Marks
    <2>2. PICK x \in Int : /\ Abs(x) <= 1000 * Budget
                           /\ 985 * sox'.chgd - 1000 * sox'.dsgd - r = x + (985 * c - (r - q))
      <3>1. CASE sox.type = 2 /\ sox'.chgd = sox.chgd + c /\ sox'.dsgd = sox.dsgd + 0
        <4> DEFINE x == 985 * sox.chgd - 1000 * sox.dsgd - q
        <4>1. sox.chgd \in Int /\ sox.dsgd \in Int
          BY DEF Inv, TypeOK, Gauge
        <4>2. x \in Int /\ Abs(x) <= 1000 * Budget
          BY <1>6, <1>9, <3>1, <4>1 DEF MarkInv, Within
        <4>3. 985 * sox'.chgd - 1000 * sox'.dsgd - r = x + (985 * c - (r - q))
          BY <1>6, <3>1, <4>1
        <4> QED BY <4>2, <4>3
      <3>2. CASE Empty /\ sox'.chgd = c /\ sox'.dsgd = 0
        <4>1. 0 <= q /\ q <= 1000 * Cost /\ (q = 0 \/ faults > 0)
          BY <3>2, FreshWithin
        <4>2. -q \in Int /\ Abs(-q) <= 1000 * Budget
          BY <1>5, <1>6, <4>1 DEF Abs
        <4>3. 985 * sox'.chgd - 1000 * sox'.dsgd - r = -q + (985 * c - (r - q))
          BY <1>6, <3>2
        <4> QED BY <4>2, <4>3
      <3> QED BY <2>1, <3>1, <3>2
    <2> DEFINE b == Budget
               n == Room'
               y == x + (985 * c - (r - q))
    <2>3. /\ b \in Nat /\ n \in Int /\ n = (IF r = Top THEN b + 1 ELSE b)
          /\ Abs(x) <= 1000 * b
      BY <1>5, <1>9, <2>2
    <2> HIDE DEF b, n
    <2>4. Abs(y) <= 1000 * n
      <3>1. Top \in Int
        BY <1>8
      <3>2. x \in Int
        BY <2>2
      <3> QED BY <1>6, <2>3, <3>1, <3>2 DEF Abs
    <2> QED BY <2>2, <2>4 DEF Within, n
  <1>11. r - q <= 1000 * Amount /\ q - r <= 1000 * Amount
    <2>1. Amount \in Nat
      BY SoxAssumption
    <2> QED BY <1>6, <2>1
  <1>12. cold' => faults' > 0
    BY <1>2 DEF MarkInv
  <1> QED BY <1>2, <1>3, <1>4, <1>6, <1>7, <1>10, <1>11, <1>12, MarkKept

\* Every step keeps the measurement within its room.
LEMMA NextMarks ==
  ASSUME Inv, MarkInv, [Next]_vars
  PROVE  MarkInv'
  <1>1. CASE UNCHANGED vars
    <2>1. UNCHANGED <<sox, stored, age, q, cold, faults>>
      BY <1>1 DEF vars, gauge, battery
    <2>2. Budget' = Budget
      BY <1>1 DEF vars, gauge, battery, Budget, Cost
    <2>3. Empty' = Empty /\ Charged' = Charged /\ goal' = goal /\ edge' = edge
      BY <1>1 DEF vars, gauge, battery, Empty, Charged, Floor, Top
    <2>4. Room' = Room
      BY <2>2, <2>3 DEF Room
    <2> QED BY <2>1, <2>2, <2>4 DEF MarkInv
  <1> QED BY <1>1, DischargeMarks, ChargeMarks, RestMarks, DisturbedMarks, UncalledMarks, BootedMarks DEF Next

\* What a measurement from empty has counted is what went into the battery since,
\* but for what the disturbances can have cost (pp_sox.c:241).
THEOREM MarkAlwaysHonest == Spec => []MarkHonest
  <1>1. Init => MarkInv
    BY DEF Init, MarkInv, Factory
  <1>2. Inv /\ MarkInv /\ [Next]_vars => MarkInv'
    BY NextMarks
  <1>3. Inv /\ MarkInv => MarkHonest
    <2> SUFFICES ASSUME Inv, MarkInv, sox.type = 2
                 PROVE  Abs(985 * sox.chgd - 1000 * sox.dsgd - q) <= 1000 * (1 + Budget)
      BY DEF MarkHonest, Budget
    <2>1. Within(sox, q, Room) /\ Budget \in Nat /\ Room \in Budget - 1 .. Budget + 1
      BY RoomAround DEF MarkInv
    <2>2. 985 * sox.chgd - 1000 * sox.dsgd - q \in Int
      BY FloorBelow DEF Inv, TypeOK, Gauge
    <2> QED BY <2>1, <2>2 DEF Within, Abs
  <1> QED BY <1>1, <1>2, <1>3, InitInv, NextInv, PTL DEF Spec

=============================================================================
