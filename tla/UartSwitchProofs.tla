-------------------------- MODULE UartSwitchProofs --------------------------
(***************************************************************************)
(* Theorems about UartSwitch, for every number of handles: the types,      *)
(* whatever the two threads do, and InPlace, by an invariant that says at  *)
(* each statement of an exchange which devices are closed, which are       *)
(* configured and who has which, as long as no two exchanges have met.     *)
(***************************************************************************)
EXTENDS UartSwitch, TLAPS

From(t) == my[t].from
To(t) == my[t].to

\* The statements behind the tests of the ids.
Late == {"close", "closing", "save", "take", "give", "init", "configure", "open",
         "set_from", "set_to"}

Checked(t) == pc[t] \in Late => Valid(t)

TypeInv == TypeOK /\ \A t \in Threads : Checked(t)

----------------------------------------------------------------------------
(* Types *)

LEMMA HandleTypes ==
  /\ Handles \subseteq Nat /\ 0 \in Handles /\ HostPort \in Handles
  /\ None \notin Handles /\ HostPort # 0
  BY SwitchAssumption

LEMMA Lowest ==
  ASSUME TypeOK, NEW t \in Threads, Valid(t)
  PROVE  /\ Initialised(t) \in Handles
         /\ From(t) # To(t) =>
              Initialised(t) = IF (my[t].nth = 1) <=> (From(t) < To(t)) THEN From(t) ELSE To(t)
<1> DEFINE f == my[t].from  g == my[t].to  n == my[t].nth
           P(h) == \A o \in {f, g} : IF n = 1 THEN h <= o ELSE h >= o
<1>1. f \in Nat /\ g \in Nat /\ f \in Handles /\ g \in Handles
  BY HandleTypes DEF Valid
<1>2. \E h \in {f, g} : P(h)
  BY <1>1
<1>3. Initialised(t) \in {f, g} /\ P(Initialised(t))
  BY <1>2 DEF Initialised
<1>4. n \in 1 .. 2
  BY DEF TypeOK, Locals
<1> QED
  BY <1>1, <1>3, <1>4 DEF From, To

LEMMA LocalsKept ==
  ASSUME NEW m \in Locals
  PROVE  /\ [m EXCEPT !.nth = 3 - @] \in Locals
         /\ [m EXCEPT !.nth = 3 - @].nth = 3 - m.nth
         /\ [m EXCEPT !.nth = 3 - @].from = m.from /\ [m EXCEPT !.nth = 3 - @].to = m.to
         /\ [m EXCEPT !.nth = 3 - @].op = m.op /\ [m EXCEPT !.nth = 3 - @].hrd = m.hrd
  BY DEF Locals

LEMMA CallTypes ==
  ASSUME NEW f \in Handles \cup {None}, NEW g \in Handles \cup {None}
  PROVE  Call("switch", f, g) \in Locals /\ Back \in Locals
  BY HandleTypes DEF Call, Back, Locals

Places == Body \cup {"idle", "test", "answer", "look", "wait", "halted"}

\* A step of a thread leaves the other's place and locals alone.
LEMMA GotoType ==
  ASSUME TypeOK, NEW t \in Threads, NEW l \in Places, Goto(t, l)
  PROVE  /\ pc' \in [Threads -> Places] /\ overlap' \in BOOLEAN
         /\ pc'[t] = l /\ \A u \in Threads \ {t} : pc'[u] = pc[u]
         /\ overlap => overlap'
         /\ (\A u \in Threads : Busy(u)') => overlap'
  BY DEF TypeOK, Goto, Places

LEMMA MyType ==
  ASSUME TypeOK, NEW t \in Threads, NEW m \in Locals, my' = [my EXCEPT ![t] = m]
  PROVE  /\ my' \in [Threads -> Locals]
         /\ my'[t] = m /\ \A u \in Threads \ {t} : my'[u] = my[u]
  BY DEF TypeOK

\* What every step of an exchange does to places and locals.
Moves(t) ==
  /\ pc' \in [Threads -> Places] /\ overlap' \in BOOLEAN
  /\ my' \in [Threads -> Locals]
  /\ \A u \in Threads \ {t} : pc'[u] = pc[u] /\ my'[u] = my[u]
  /\ overlap => overlap'
  /\ (\A u \in Threads : Busy(u)') => overlap'

LEMMA ContinueMoves ==
  ASSUME TypeOK, NEW t \in Threads, NEW l \in Places, Continue(t, l)
  PROVE  Moves(t) /\ pc'[t] = l /\ my'[t] = my[t]
  BY GotoType DEF Continue, Moves, TypeOK

LEMMA HaltMoves ==
  ASSUME TypeOK, NEW t \in Threads, Halt(t)
  PROVE  Moves(t) /\ pc'[t] = "halted" /\ my'[t] = my[t]
  BY GotoType DEF Halt, Moves, TypeOK, Places

LEMMA ReturnMoves ==
  ASSUME TypeOK, NEW t \in Threads, Return(t)
  PROVE  Moves(t) /\ pc'[t] = (IF t = "host" THEN "answer" ELSE "look") /\ my'[t] = Back
<1>1. Back \in Locals
  BY CallTypes, HandleTypes
<1>2. (IF t = "host" THEN "answer" ELSE "look") \in Places
  BY DEF Places
<1> QED
  BY <1>1, <1>2, GotoType, MyType DEF Return, Moves

LEMMA OnwardMoves ==
  ASSUME TypeOK, NEW t \in Threads, NEW l \in Places, NEW n \in Places, Onward(t, l, n)
  PROVE  /\ Moves(t) /\ pc'[t] = IF my[t].nth = 1 THEN l ELSE n
         /\ my'[t].nth = 3 - my[t].nth /\ my'[t].op = my[t].op /\ my'[t].hrd = my[t].hrd
         /\ From(t)' = From(t) /\ To(t)' = To(t)
<1>1. my[t] \in Locals
  BY DEF TypeOK
<1>2. my' = [my EXCEPT ![t] = [my[t] EXCEPT !.nth = 3 - @]]
  BY <1>1 DEF Onward
<1>3. (IF my[t].nth = 1 THEN l ELSE n) \in Places
  OBVIOUS
<1>4. Goto(t, IF my[t].nth = 1 THEN l ELSE n)
  BY DEF Onward
<1> DEFINE m == [my[t] EXCEPT !.nth = 3 - @]
<1>5. /\ m \in Locals /\ m.nth = 3 - my[t].nth /\ m.op = my[t].op /\ m.hrd = my[t].hrd
      /\ m.from = my[t].from /\ m.to = my[t].to
  BY <1>1, LocalsKept
<1> HIDE DEF m
<1>6. my' \in [Threads -> Locals] /\ my'[t] = m /\ \A u \in Threads \ {t} : my'[u] = my[u]
  BY <1>2, <1>5, MyType DEF m
<1> QED
  BY <1>3, <1>4, <1>5, <1>6, GotoType DEF Moves, From, To

LEMMA TypeFrame ==
  ASSUME TypeInv, NEW t \in Threads, Moves(t),
         from' \in Handles \cup {None}, to' \in Handles \cup {None},
         hrd' \in [Handles -> Handles], ref' \in [Handles -> Nat],
         conf' \in [Handles -> Handles], cons' \in Handles,
         Checked(t)'
  PROVE  TypeInv'
<1>1. TypeOK'
  BY DEF Moves, TypeOK, Places
<1>2. \A u \in Threads : Checked(u)'
  BY DEF TypeInv, Moves, Checked, Valid
<1> QED
  BY <1>1, <1>2 DEF TypeInv

LEMMA TypeFrameSame ==
  ASSUME TypeInv, NEW t \in Threads, Moves(t), UNCHANGED <<ids, ports>>, Checked(t)'
  PROVE  TypeInv'
  BY TypeFrame DEF TypeInv, TypeOK, ids, ports

LEMMA TestType ==
  ASSUME TypeInv, NEW t \in Threads, Test(t)
  PROVE  TypeInv' /\ Moves(t)
<1>1. TypeOK /\ UNCHANGED <<ids, ports>>
  BY DEF TypeInv, Test
<1>2. CASE Continue(t, "from")
  <2>1. Moves(t) /\ pc'[t] = "from"
    BY <1>1, <1>2, ContinueMoves DEF Places, Body
  <2> QED
    BY <1>1, <2>1, TypeFrameSame DEF Checked, Late
<1>3. CASE Continue(t, "close") /\ Valid(t)
  <2>1. Moves(t) /\ my'[t] = my[t]
    BY <1>1, <1>3, ContinueMoves DEF Places, Body
  <2> QED
    BY <1>1, <1>3, <2>1, TypeFrameSame DEF Checked, Valid
<1>4. CASE Return(t)
  <2>1. Moves(t) /\ pc'[t] \notin Late
    BY <1>1, <1>4, ReturnMoves DEF Late
  <2> QED
    BY <1>1, <2>1, TypeFrameSame DEF Checked
<1> QED
  BY <1>2, <1>3, <1>4 DEF Test

LEMMA ReadFromType ==
  ASSUME TypeInv, NEW t \in Threads, ReadFrom(t)
  PROVE  /\ TypeInv' /\ Moves(t) /\ pc'[t] = "to"
         /\ my'[t].from = from /\ my'[t].nth = my[t].nth /\ my'[t].op = my[t].op
<1>1. TypeOK /\ UNCHANGED <<ids, ports>> /\ Goto(t, "to")
  BY DEF TypeInv, ReadFrom
<1> DEFINE m == [my[t] EXCEPT !.from = from]
<1>2. my[t] \in Locals /\ from \in Handles \cup {None}
  BY <1>1 DEF TypeOK
<1>3. m \in Locals /\ m.from = from /\ m.nth = my[t].nth /\ m.op = my[t].op
  BY <1>2 DEF Locals
<1>4. my' = [my EXCEPT ![t] = m]
  BY <1>2 DEF ReadFrom
<1> HIDE DEF m
<1>5. my' \in [Threads -> Locals] /\ my'[t] = m /\ \A u \in Threads \ {t} : my'[u] = my[u]
  BY <1>1, <1>3, <1>4, MyType
<1>6. Moves(t) /\ pc'[t] = "to"
  BY <1>1, <1>5, GotoType DEF Moves, Places, Body
<1>7. TypeInv'
  BY <1>1, <1>6, TypeFrameSame DEF Checked, Late
<1> QED
  BY <1>3, <1>5, <1>6, <1>7

LEMMA ReadToType ==
  ASSUME TypeInv, NEW t \in Threads, ReadTo(t)
  PROVE  /\ TypeInv' /\ Moves(t) /\ pc'[t] = "reset_from"
         /\ my'[t].to = to /\ my'[t].from = my[t].from
         /\ my'[t].nth = my[t].nth /\ my'[t].op = my[t].op
<1>1. TypeOK /\ UNCHANGED <<ids, ports>> /\ Goto(t, "reset_from")
  BY DEF TypeInv, ReadTo
<1> DEFINE m == [my[t] EXCEPT !.to = to]
<1>2. my[t] \in Locals /\ to \in Handles \cup {None}
  BY <1>1 DEF TypeOK
<1>3. m \in Locals /\ m.to = to /\ m.from = my[t].from /\ m.nth = my[t].nth /\ m.op = my[t].op
  BY <1>2 DEF Locals
<1>4. my' = [my EXCEPT ![t] = m]
  BY <1>2 DEF ReadTo
<1> HIDE DEF m
<1>5. my' \in [Threads -> Locals] /\ my'[t] = m /\ \A u \in Threads \ {t} : my'[u] = my[u]
  BY <1>1, <1>3, <1>4, MyType
<1>6. Moves(t) /\ pc'[t] = "reset_from"
  BY <1>1, <1>5, GotoType DEF Moves, Places, Body
<1>7. TypeInv'
  BY <1>1, <1>6, TypeFrameSame DEF Checked, Late
<1> QED
  BY <1>3, <1>5, <1>6, <1>7

LEMMA ResetType ==
  ASSUME TypeInv, NEW t \in Threads, ResetFrom(t) \/ ResetTo(t)
  PROVE  TypeInv' /\ Moves(t) /\ my'[t] = my[t]
         /\ pc'[t] = IF ResetFrom(t) THEN "reset_to" ELSE "check"
<1>1. TypeOK
  BY DEF TypeInv
<1>2. CASE ResetFrom(t)
  <2>1. Moves(t) /\ pc'[t] = "reset_to" /\ my'[t] = my[t]
    BY <1>1, <1>2, ContinueMoves DEF ResetFrom, Places, Body
  <2> QED
    BY <1>1, <1>2, <2>1, TypeFrame DEF ResetFrom, TypeOK, ports, Checked, Late
<1>3. CASE ResetTo(t)
  <2>1. Moves(t) /\ pc'[t] = "check" /\ my'[t] = my[t] /\ ~ResetFrom(t)
    BY <1>1, <1>3, ContinueMoves DEF ResetTo, ResetFrom, At, Places, Body
  <2> QED
    BY <1>1, <1>3, <2>1, TypeFrame DEF ResetTo, TypeOK, ports, Checked, Late
<1> QED
  BY <1>2, <1>3

LEMMA CheckType ==
  ASSUME TypeInv, NEW t \in Threads, Check(t)
  PROVE  TypeInv' /\ Moves(t) /\ my'[t] = my[t]
         /\ pc'[t] = IF Valid(t) THEN "close" ELSE "halted"
<1>1. TypeOK /\ UNCHANGED <<ids, ports>>
  BY DEF TypeInv, Check
<1>2. Moves(t) /\ my'[t] = my[t] /\ pc'[t] = IF Valid(t) THEN "close" ELSE "halted"
  BY <1>1, ContinueMoves, HaltMoves DEF Check, Places, Body
<1>3. Checked(t)'
  BY <1>2 DEF Checked, Valid, Late
<1> QED
  BY <1>1, <1>2, <1>3, TypeFrameSame

LEMMA CloseType ==
  ASSUME TypeInv, NEW t \in Threads, Close(t)
  PROVE  TypeInv' /\ Moves(t) /\ From(t)' = From(t) /\ To(t)' = To(t)
<1>1. TypeOK /\ UNCHANGED <<ids, ports>> /\ Valid(t)
  BY DEF TypeInv, Close, At, Checked, Late
<1>2. CASE Onward(t, "close", "save")
  <2>1. Moves(t) /\ From(t)' = From(t) /\ To(t)' = To(t)
    BY <1>1, <1>2, OnwardMoves DEF Places, Body
  <2> QED
    BY <1>1, <2>1, TypeFrameSame DEF Checked, Valid, From, To
<1>3. CASE Continue(t, "closing")
  <2>1. Moves(t) /\ From(t)' = From(t) /\ To(t)' = To(t)
    BY <1>1, <1>3, ContinueMoves DEF Places, Body, From, To
  <2> QED
    BY <1>1, <2>1, TypeFrameSame DEF Checked, Valid, From, To
<1> QED
  BY <1>2, <1>3 DEF Close

LEMMA ClosedType ==
  ASSUME TypeOK, NEW t \in Threads, Valid(t)
  PROVE  Closed(t) \in Handles
  BY DEF TypeOK, Closed, Valid

LEMMA ClosingType ==
  ASSUME TypeInv, NEW t \in Threads, Closing(t)
  PROVE  TypeInv' /\ Moves(t) /\ my'[t] = my[t]
         /\ pc'[t] = IF ref[Closed(t)] = 0 THEN "halted" ELSE "close"
<1>1. TypeOK /\ UNCHANGED <<ids, hrd, conf, cons>> /\ Valid(t)
  BY DEF TypeInv, Closing, At, Checked, Late
<1>2. Moves(t) /\ my'[t] = my[t] /\ pc'[t] = IF ref[Closed(t)] = 0 THEN "halted" ELSE "close"
  BY <1>1, ContinueMoves, HaltMoves DEF Closing, Places, Body
<1>3. ref' \in [Handles -> Nat]
  BY <1>1, ClosedType DEF Closing, TypeOK
<1> QED
  BY <1>1, <1>2, <1>3, TypeFrame DEF TypeOK, ids, Checked, Valid

LEMMA SaveType ==
  ASSUME TypeInv, NEW t \in Threads, Save(t)
  PROVE  /\ TypeInv' /\ Moves(t) /\ pc'[t] = "take"
         /\ my'[t].hrd = hrd[From(t)] /\ From(t)' = From(t) /\ To(t)' = To(t)
         /\ my'[t].nth = my[t].nth /\ my'[t].op = my[t].op
<1>1. TypeOK /\ UNCHANGED <<ids, ports>> /\ Goto(t, "take") /\ Valid(t)
  BY DEF TypeInv, Save, At, Checked, Late
<1> DEFINE d == hrd[my[t].from]
           m == [my[t] EXCEPT !.hrd = d]
<1>2. my[t] \in Locals /\ d \in Handles
  BY <1>1 DEF TypeOK, Valid
<1>3. /\ m \in Locals /\ m.hrd = d /\ m.from = my[t].from /\ m.to = my[t].to
      /\ m.nth = my[t].nth /\ m.op = my[t].op
  BY <1>2 DEF Locals
<1>4. my' = [my EXCEPT ![t] = m]
  BY <1>2 DEF Save
<1> HIDE DEF m
<1>5. my' \in [Threads -> Locals] /\ my'[t] = m /\ \A u \in Threads \ {t} : my'[u] = my[u]
  BY <1>1, <1>3, <1>4, MyType
<1>6. Moves(t) /\ pc'[t] = "take"
  BY <1>1, <1>5, GotoType DEF Moves, Places, Body
<1>7. TypeInv'
  BY <1>1, <1>3, <1>5, <1>6, TypeFrameSame DEF Checked, Valid
<1> QED
  BY <1>3, <1>5, <1>6, <1>7 DEF From, To

LEMMA TakeGiveType ==
  ASSUME TypeInv, NEW t \in Threads, Take(t) \/ Give(t)
  PROVE  TypeInv' /\ Moves(t) /\ my'[t] = my[t]
         /\ pc'[t] = IF Take(t) THEN "give" ELSE "init"
<1>1. TypeOK /\ Valid(t) /\ UNCHANGED <<ids, ref, conf, cons>>
  BY DEF TypeInv, Take, Give, At, Checked, Late
<1>2. Moves(t) /\ my'[t] = my[t] /\ pc'[t] = IF Take(t) THEN "give" ELSE "init"
  <2>1. CASE Take(t)
    BY <1>1, <2>1, ContinueMoves DEF Take, Places, Body
  <2>2. CASE Give(t)
    <3>1. ~Take(t)
      BY <2>2 DEF Take, Give, At
    <3> QED
      BY <1>1, <2>2, <3>1, ContinueMoves DEF Give, Places, Body
  <2> QED
    BY <2>1, <2>2
<1>3. my[t].hrd \in Handles
  BY <1>1 DEF TypeOK, Locals
<1>4. hrd' \in [Handles -> Handles]
  BY <1>1, <1>3 DEF Take, Give, TypeOK, Valid
<1> QED
  BY <1>1, <1>2, <1>4, TypeFrame DEF TypeOK, ids, Checked, Valid

LEMMA RestMoves ==
  ASSUME TypeOK, NEW t \in Threads, Rest(t)
  PROVE  /\ Moves(t)
         /\ my[t].op = "back" /\ my[t].nth = 2 =>
              pc'[t] = (IF t = "host" THEN "answer" ELSE "look") /\ my'[t] = Back
         /\ ~(my[t].op = "back" /\ my[t].nth = 2) =>
              /\ pc'[t] = IF my[t].nth = 1 THEN "init" ELSE "set_from"
              /\ my'[t].nth = 3 - my[t].nth /\ my'[t].op = my[t].op
              /\ From(t)' = From(t) /\ To(t)' = To(t)
<1>1. CASE my[t].op = "back" /\ my[t].nth = 2
  BY <1>1, ReturnMoves DEF Rest
<1>2. CASE ~(my[t].op = "back" /\ my[t].nth = 2)
  <2>1. Onward(t, "init", "set_from")
    BY <1>2 DEF Rest
  <2> QED
    BY <1>2, <2>1, OnwardMoves DEF Places, Body
<1> QED
  BY <1>1, <1>2

LEMMA RestChecked ==
  ASSUME TypeOK, NEW t \in Threads, Valid(t), Rest(t)
  PROVE  Checked(t)'
<1>1. CASE my[t].op = "back" /\ my[t].nth = 2
  BY <1>1, RestMoves DEF Checked, Late
<1>2. CASE ~(my[t].op = "back" /\ my[t].nth = 2)
  BY <1>2, RestMoves DEF Checked, Valid, From, To
<1> QED
  BY <1>1, <1>2

LEMMA SetConsoleType ==
  ASSUME TypeInv, NEW t \in Threads, SetConsole(t)
  PROVE  TypeInv' /\ Moves(t) /\ my'[t] = my[t] /\ pc'[t] = "configure"
<1>1. TypeOK /\ Valid(t) /\ UNCHANGED <<ids, hrd, conf>>
  BY DEF TypeInv, SetConsole, At, Checked, Late
<1>2. Moves(t) /\ my'[t] = my[t] /\ pc'[t] = "configure"
  BY <1>1, ContinueMoves DEF SetConsole, Places, Body
<1>3. cons' \in Handles /\ ref' \in [Handles -> Nat]
  <2>1. CASE UNCHANGED <<cons, ref>>
    BY <1>1, <2>1 DEF TypeOK
  <2>2. CASE /\ cons' = hrd[0]
             /\ ref' = [ref EXCEPT ![cons] = IF @ = 0 THEN 0 ELSE @ - 1, ![hrd[0]] = @ + 1]
    <3>1. cons \in Handles /\ hrd[0] \in Handles /\ ref \in [Handles -> Nat]
      BY <1>1, HandleTypes DEF TypeOK
    <3>2. ref' \in [Handles -> Nat]
      BY <2>2, <3>1
    <3> QED
      BY <2>2, <3>1, <3>2
  <2> QED
    BY <2>1, <2>2 DEF SetConsole
<1> QED
  BY <1>1, <1>2, <1>3, TypeFrame DEF TypeOK, ids, Checked, Valid

LEMMA InitialisedType ==
  ASSUME TypeOK, NEW t \in Threads, Valid(t)
  PROVE  Initialised(t) \in Handles /\ hrd[Initialised(t)] \in Handles
  BY Lowest DEF TypeOK

LEMMA ConfigureType ==
  ASSUME TypeInv, NEW t \in Threads, Configure(t)
  PROVE  /\ TypeInv' /\ Moves(t)
         /\ Initialised(t) # 0 => my'[t] = my[t] /\ pc'[t] = "open"
<1>1. TypeOK /\ Valid(t) /\ UNCHANGED <<ids, hrd, ref, cons>>
  BY DEF TypeInv, Configure, At, Checked, Late
<1>2. conf' \in [Handles -> Handles]
  BY <1>1, InitialisedType DEF Configure, TypeOK
<1>3. /\ Moves(t) /\ Checked(t)'
      /\ Initialised(t) # 0 => my'[t] = my[t] /\ pc'[t] = "open"
  <2>1. CASE Initialised(t) = 0
    BY <1>1, <2>1, RestMoves, RestChecked DEF Configure
  <2>2. CASE Initialised(t) # 0
    <3>1. Moves(t) /\ my'[t] = my[t] /\ pc'[t] = "open"
      BY <1>1, <2>2, ContinueMoves DEF Configure, Places, Body
    <3> QED
      BY <1>1, <3>1 DEF Checked, Valid
  <2> QED
    BY <2>1, <2>2
<1> QED
  BY <1>1, <1>2, <1>3, TypeFrame DEF TypeOK, ids

LEMMA OpenType ==
  ASSUME TypeInv, NEW t \in Threads, Open(t)
  PROVE  TypeInv' /\ Moves(t)
<1>1. TypeOK /\ Valid(t) /\ UNCHANGED <<ids, hrd, conf, cons>> /\ Rest(t)
  BY DEF TypeInv, Open, At, Checked, Late
<1>2. ref' \in [Handles -> Nat]
  BY <1>1, InitialisedType DEF Open, TypeOK
<1> QED
  BY <1>1, <1>2, RestMoves, RestChecked, TypeFrame DEF TypeOK, ids

LEMMA SetIdsType ==
  ASSUME TypeInv, NEW t \in Threads, SetFrom(t) \/ SetTo(t)
  PROVE  /\ TypeInv' /\ Moves(t)
         /\ SetFrom(t) => pc'[t] = "set_to" /\ my'[t] = my[t]
         /\ SetTo(t) => pc'[t] = (IF t = "host" THEN "answer" ELSE "look") /\ my'[t] = Back
<1>1. TypeOK /\ Valid(t) /\ UNCHANGED ports
  BY DEF TypeInv, SetFrom, SetTo, At, Checked, Late
<1>2. CASE SetFrom(t)
  <2>1. Moves(t) /\ pc'[t] = "set_to" /\ my'[t] = my[t] /\ ~SetTo(t)
    BY <1>1, <1>2, ContinueMoves DEF SetFrom, SetTo, At, Places, Body
  <2> QED
    BY <1>1, <1>2, <2>1, TypeFrame DEF SetFrom, TypeOK, ports, Checked, Valid
<1>3. CASE SetTo(t)
  <2>1. Moves(t) /\ ~SetFrom(t)
        /\ pc'[t] = (IF t = "host" THEN "answer" ELSE "look") /\ my'[t] = Back
    BY <1>1, <1>3, ReturnMoves DEF SetFrom, SetTo, At
  <2> QED
    BY <1>1, <1>3, <2>1, TypeFrame DEF SetTo, TypeOK, ports, Checked, Valid, Late
<1> QED
  BY <1>2, <1>3

LEMMA ExchangeType ==
  ASSUME TypeInv, NEW t \in Threads, Exchange(t)
  PROVE  TypeInv'
<1>1. CASE Test(t) \/ ReadFrom(t) \/ ReadTo(t) \/ ResetFrom(t) \/ ResetTo(t) \/ Check(t)
  BY <1>1, TestType, ReadFromType, ReadToType, ResetType, CheckType
<1>2. CASE Close(t) \/ Closing(t) \/ Save(t) \/ Take(t) \/ Give(t)
  BY <1>2, CloseType, ClosingType, SaveType, TakeGiveType
<1>3. CASE SetConsole(t) \/ Configure(t) \/ Open(t) \/ SetFrom(t) \/ SetTo(t)
  BY <1>3, SetConsoleType, ConfigureType, OpenType, SetIdsType
<1> QED
  BY <1>1, <1>2, <1>3 DEF Exchange

\* What a thread does outside of an exchange: it has the call my'[t] then.
Outside(t) ==
  /\ pc[t] \notin Body /\ pc'[t] \notin Body
  /\ Moves(t) /\ UNCHANGED <<ids, ports>>
  /\ my'[t] # my[t] => my'[t].nth = 1

LEMMA OutsideType ==
  ASSUME TypeInv, NEW t \in Threads, Outside(t)
  PROVE  TypeInv'
  BY TypeFrameSame DEF Outside, Checked, Late, Body

LEMMA CommandMoves ==
  ASSUME TypeInv, NEW f \in Handles \cup {None}, NEW g \in Handles \cup {None},
         Command(Call("switch", f, g)) \/ Command(Back)
  PROVE  Outside("host") /\ pc'["host"] = "test"
<1>1. TypeOK /\ "host" \in Threads
  BY DEF TypeInv, Threads
<1>2. PICK c \in Locals : c.nth = 1 /\ Command(c)
  BY CallTypes DEF Call, Back
<1>3. my' \in [Threads -> Locals] /\ my'["host"] = c
      /\ \A u \in Threads \ {"host"} : my'[u] = my[u]
  BY <1>1, <1>2, MyType DEF Command
<1>4. /\ pc' \in [Threads -> Places] /\ overlap' \in BOOLEAN
      /\ pc'["host"] = "test" /\ \A u \in Threads \ {"host"} : pc'[u] = pc[u]
      /\ overlap => overlap'
      /\ (\A u \in Threads : Busy(u)') => overlap'
  BY <1>1, <1>2, GotoType DEF Command, Places
<1>5. Moves("host")
  BY <1>3, <1>4 DEF Moves
<1> QED
  BY <1>2, <1>3, <1>4, <1>5 DEF Outside, Command, At, Body

LEMMA PlainMoves ==
  ASSUME TypeInv
  PROVE  /\ OtherPacket => Outside("host") /\ pc'["host"] = "answer"
         /\ Look => Outside("auto") /\ pc'["auto"] = "wait"
         /\ FiveMinutes => Outside("auto") /\ pc'["auto"] = "test"
         /\ Answer => /\ Outside("host")
                      /\ pc'["host"] = IF ref[hrd[HostPort]] = 0 THEN "halted" ELSE "idle"
<1>1. TypeOK /\ "host" \in Threads /\ "auto" \in Threads
  BY DEF TypeInv, Threads
<1>2. ASSUME OtherPacket PROVE Outside("host") /\ pc'["host"] = "answer"
  BY <1>1, <1>2, ContinueMoves DEF OtherPacket, Outside, At, Places, Body
<1>3. ASSUME Look PROVE Outside("auto") /\ pc'["auto"] = "wait"
  BY <1>1, <1>3, ContinueMoves DEF Look, Outside, At, Places, Body
<1>4. ASSUME FiveMinutes PROVE Outside("auto") /\ pc'["auto"] = "test"
  BY <1>1, <1>4, ContinueMoves DEF FiveMinutes, Outside, At, Places, Body
<1>5. ASSUME Answer
      PROVE  /\ Outside("host")
             /\ pc'["host"] = IF ref[hrd[HostPort]] = 0 THEN "halted" ELSE "idle"
  <2>1. CASE ref[hrd[HostPort]] = 0
    BY <1>1, <1>5, <2>1, HaltMoves DEF Answer, Outside, At, Places, Body
  <2>2. CASE ref[hrd[HostPort]] # 0
    BY <1>1, <1>5, <2>2, ContinueMoves DEF Answer, Outside, At, Places, Body
  <2> QED
    BY <2>1, <2>2
<1> QED
  BY <1>2, <1>3, <1>4, <1>5

LEMMA InitType == Init => TypeInv
<1> SUFFICES ASSUME Init PROVE TypeInv
  OBVIOUS
<1>1. Back \in Locals
  BY CallTypes, HandleTypes
<1>2. /\ pc \in [Threads -> Body \cup {"idle", "test", "answer", "look", "wait", "halted"}]
      /\ my \in [Threads -> Locals]
  BY <1>1 DEF Init, Threads
<1>3. ref \in [Handles -> Nat] /\ hrd \in [Handles -> Handles] /\ conf \in [Handles -> Handles]
  BY DEF Init
<1>4. TypeOK
  BY <1>2, <1>3, HandleTypes DEF Init, TypeOK
<1> QED
  BY <1>4 DEF Init, TypeInv, Checked, Late, Threads

LEMMA NextType == TypeInv /\ [Next]_vars => TypeInv'
<1> SUFFICES ASSUME TypeInv, [Next]_vars PROVE TypeInv'
  OBVIOUS
<1>1. ASSUME NEW t \in Threads, Exchange(t) PROVE TypeInv'
  BY <1>1, ExchangeType
<1>2. ASSUME Asked PROVE TypeInv'
  BY <1>2, CommandMoves, PlainMoves, OutsideType, HandleTypes DEF Asked, Threads
<1>3. CASE Answer \/ Look \/ FiveMinutes
  BY <1>3, PlainMoves, OutsideType DEF Threads
<1>4. CASE UNCHANGED vars
  BY <1>4 DEF TypeInv, TypeOK, Checked, Valid, vars, ids, ports, Body, Locals
<1> QED
  BY <1>1, <1>2, <1>3, <1>4 DEF Next, Host, SwitchBack, Threads

(* Every variable has its type, whatever the two threads do: no count of a     *)
(* device falls below zero and no handle gets a device that is none            *)
(* (pp_uart.c:117, 122).                                                       *)
THEOREM TypeCorrect == Spec => []TypeOK
<1>1. TypeInv => TypeOK
  BY DEF TypeInv
<1> QED
  BY <1>1, InitType, NextType, PTL DEF Spec

----------------------------------------------------------------------------
(* The invariant of an exchange that meets no other *)

Pair(t) == Valid(t) /\ From(t) # To(t)
Both(t) == {From(t), To(t)}
Low(t) == IF From(t) < To(t) THEN From(t) ELSE To(t)
High(t) == IF From(t) < To(t) THEN To(t) ELSE From(t)

\* The device of a handle before the exchange and behind it.
Swap(f, g, h) == IF h = f THEN g ELSE IF h = g THEN f ELSE h
Pre(t, h) == IF my[t].op = "back" THEN Swap(From(t), To(t), h) ELSE h
Post(t, h) == IF my[t].op = "back" THEN h ELSE Swap(From(t), To(t), h)

\* The devices of S are closed, the others open once.
Shut(S) == \A d \in Handles : ref[d] = IF d \in S THEN 0 ELSE 1

\* All devices but those the handles of S will have are configured.
Configured(t, S) == \A h \in Handles \ S : conf[Post(t, h)] = h

\* Nobody exchanges anything.
Settled ==
  /\ from = None \/ (from \in Handles /\ to \in Handles /\ from # to)
  /\ \A h \in Handles : hrd[h] = Belongs(h) /\ ref[hrd[h]] = 1 /\ conf[hrd[h]] = h
  /\ cons = hrd[0]

\* The ids of the exchange are read.
Reading(t) ==
  /\ my[t].op = "back" /\ my[t].nth = 1
  /\ Settled /\ from # None
  /\ pc[t] # "from" => From(t) = from
  /\ pc[t] = "reset_from" => To(t) = to

\* Each handle still has its device.
Closes(t) ==
  /\ Pair(t) /\ from = None
  /\ \A h \in Handles : hrd[h] = Pre(t, h)
  /\ cons = Pre(t, 0)
  /\ Configured(t, Both(t))
  /\ pc[t] \in {"reset_to", "check"} => my[t].op = "back" /\ my[t].nth = 1 /\ Shut({})
  /\ pc[t] = "close" =>
       IF my[t].nth = 1
         THEN Shut({}) \/ Shut({Pre(t, From(t))})
         ELSE Shut({Pre(t, From(t))}) \/ Shut(Both(t))
  /\ pc[t] = "closing" => Shut(IF my[t].nth = 1 THEN {} ELSE {Pre(t, From(t))})
  /\ pc[t] \in {"save", "take"} => my[t].nth = 1 /\ Shut(Both(t))
  /\ pc[t] = "take" => my[t].hrd = Pre(t, From(t))

\* One handle has the other's device.
Gives(t) ==
  /\ Pair(t) /\ from = None /\ my[t].nth = 1
  /\ \A h \in Handles : hrd[h] = IF h = From(t) THEN Pre(t, To(t)) ELSE Pre(t, h)
  /\ my[t].hrd = Pre(t, From(t))
  /\ cons = Pre(t, 0)
  /\ Configured(t, Both(t)) /\ Shut(Both(t))

\* The lower handle is opened.
OpensLow(t) ==
  /\ cons = IF pc[t] = "init" THEN Pre(t, 0) ELSE Post(t, 0)
  /\ pc[t] = "open" => Low(t) # 0
  /\ Shut(IF pc[t] = "configure" /\ Low(t) = 0 THEN {Post(t, High(t))} ELSE Both(t))
  /\ Configured(t, IF pc[t] = "open" THEN {High(t)} ELSE Both(t))

\* The higher one is.
OpensHigh(t) ==
  /\ cons = Post(t, 0)
  /\ Shut({Post(t, High(t))})
  /\ Configured(t, IF pc[t] = "open" THEN {} ELSE {High(t)})

Opens(t) ==
  /\ Pair(t) /\ from = None
  /\ \A h \in Handles : hrd[h] = Post(t, h)
  /\ IF my[t].nth = 1 THEN OpensLow(t) ELSE OpensHigh(t)

\* All is in place but the ids.
Records(t) ==
  /\ Pair(t) /\ my[t].op = "switch"
  /\ from = IF pc[t] = "set_to" THEN From(t) ELSE None
  /\ \A h \in Handles : hrd[h] = Post(t, h)
  /\ cons = Post(t, 0) /\ Shut({}) /\ Configured(t, {})

Phase(t) ==
  /\ pc[t] \in {"from", "to", "reset_from"} => Reading(t)
  /\ pc[t] \in {"reset_to", "check", "close", "closing", "save", "take"} => Closes(t)
  /\ pc[t] = "give" => Gives(t)
  /\ pc[t] \in {"init", "configure", "open"} => Opens(t)
  /\ pc[t] \in {"set_from", "set_to"} => Records(t)

Alone ==
  /\ \E t \in Threads : ~Busy(t)
  /\ \A t \in Threads : /\ pc[t] # "halted"
                        /\ pc[t] \in Body => Phase(t)
                        /\ pc[t] \notin Body => my[t].nth = 1
  /\ (\A t \in Threads : pc[t] \notin Body) => Settled

Inv == TypeInv /\ (~overlap => Alone)

----------------------------------------------------------------------------
(* Handles and devices *)

LEMMA PairFacts ==
  ASSUME TypeOK, NEW t \in Threads, Pair(t)
  PROVE  /\ From(t) \in Handles /\ To(t) \in Handles /\ From(t) # To(t)
         /\ Low(t) \in Both(t) /\ High(t) \in Both(t)
         /\ Both(t) = {Low(t), High(t)} /\ Low(t) # High(t) /\ High(t) # 0
         /\ 0 \in Both(t) => Low(t) = 0
         /\ Initialised(t) = IF my[t].nth = 1 THEN Low(t) ELSE High(t)
<1>1. From(t) \in Nat /\ To(t) \in Nat /\ From(t) \in Handles /\ To(t) \in Handles /\ From(t) # To(t)
  BY HandleTypes DEF Pair, Valid, From, To
<1>2. Initialised(t) = IF my[t].nth = 1 THEN Low(t) ELSE High(t)
  BY <1>1, Lowest DEF Pair, Low, High
<1> QED
  BY <1>1, <1>2 DEF Low, High, Both

LEMMA DeviceFacts ==
  ASSUME TypeOK, NEW t \in Threads, Pair(t)
  PROVE  /\ Post(t, From(t)) = Pre(t, To(t)) /\ Post(t, To(t)) = Pre(t, From(t))
         /\ Pre(t, From(t)) # Pre(t, To(t)) /\ Both(t) = {Pre(t, From(t)), Pre(t, To(t))}
         /\ \A h \in Handles : Pre(t, h) \in Handles /\ Post(t, h) \in Handles
         /\ \A h \in Handles \ Both(t) : Pre(t, h) = h /\ Post(t, h) = h
  BY PairFacts DEF Both, Pre, Post, Swap

LEMMA PostFacts ==
  ASSUME TypeOK, NEW t \in Threads, Pair(t)
  PROVE  /\ Both(t) = {Post(t, Low(t)), Post(t, High(t))}
         /\ Post(t, Low(t)) # Post(t, High(t))
         /\ \A a, b \in Handles : Post(t, a) = Post(t, b) => a = b
  BY PairFacts DEF Both, Low, High, Post, Swap

LEMMA SameExchange ==
  ASSUME NEW t \in Threads, my'[t].op = my[t].op, From(t)' = From(t), To(t)' = To(t)
  PROVE  /\ \A h : Pre(t, h)' = Pre(t, h) /\ Post(t, h)' = Post(t, h)
         /\ Pre(t, From(t))' = Pre(t, From(t)) /\ Post(t, High(t))' = Post(t, High(t))
         /\ Both(t)' = Both(t) /\ Low(t)' = Low(t) /\ High(t)' = High(t)
         /\ Pair(t) => Pair(t)'
  BY DEF Pre, Post, Both, Low, High, Pair, Valid, From, To

----------------------------------------------------------------------------
(* Places *)

LEMMA StillAlone ==
  ASSUME Inv, ~overlap', NEW t \in Threads, Moves(t)
  PROVE  /\ ~overlap /\ Alone /\ TypeOK
         /\ pc[t] \in Body => Phase(t) /\ \A u \in Threads \ {t} : ~Busy(u)
         /\ pc[t] \notin Body => my[t].nth = 1
         /\ pc'[t] \in Body \cup {"answer"} => \A u \in Threads \ {t} : ~Busy(u)
         /\ \E u \in Threads : ~Busy(u)'
<1>1. ~overlap /\ Alone /\ TypeOK
  BY DEF Inv, TypeInv, Moves
<1> QED
  BY <1>1 DEF Alone, Moves, Busy, Threads

LEMMA UnchangedPhase ==
  ASSUME TypeOK, UNCHANGED <<ids, ports>>
  PROVE  /\ Settled => Settled'
         /\ \A u \in Threads : pc'[u] = pc[u] /\ my'[u] = my[u] /\ Phase(u) => Phase(u)'
<1>1. Settled => Settled'
  BY DEF Settled, Belongs, ids, ports
<1>2. ASSUME NEW u \in Threads, pc'[u] = pc[u], my'[u] = my[u], Phase(u)
      PROVE  Phase(u)'
  <2>1. /\ \A h : Pre(u, h)' = Pre(u, h) /\ Post(u, h)' = Post(u, h)
        /\ Pre(u, From(u))' = Pre(u, From(u)) /\ Post(u, High(u))' = Post(u, High(u))
        /\ Both(u)' = Both(u) /\ Low(u)' = Low(u) /\ High(u)' = High(u)
        /\ Pair(u) => Pair(u)'
        /\ From(u)' = From(u) /\ To(u)' = To(u)
    BY <1>2, SameExchange DEF From, To
  <2>2. \A S : (Shut(S) => Shut(S)') /\ (Configured(u, S) => Configured(u, S)')
    BY <2>1 DEF Shut, Configured, ports
  <2>3. Reading(u) => Reading(u)'
    BY <1>1, <1>2, <2>1 DEF Reading, ids
  <2>4. Closes(u) => Closes(u)'
    BY <1>2, <2>1, <2>2 DEF Closes, ids, ports
  <2>5. Gives(u) => Gives(u)'
    BY <1>2, <2>1, <2>2 DEF Gives, ids, ports
  <2>6. Opens(u) => Opens(u)'
    BY <1>2, <2>1, <2>2 DEF Opens, OpensLow, OpensHigh, ids, ports
  <2>7. Records(u) => Records(u)'
    BY <1>2, <2>1, <2>2 DEF Records, ids, ports
  <2> QED
    BY <1>2, <2>3, <2>4, <2>5, <2>6, <2>7 DEF Phase
<1> QED
  BY <1>1, <1>2

LEMMA InsideAlone ==
  ASSUME Inv, ~overlap', NEW t \in Threads, pc[t] \in Body, Moves(t),
         \/ pc'[t] \in Body /\ Phase(t)'
         \/ pc'[t] \in {"answer", "look"} /\ my'[t].nth = 1 /\ Settled'
  PROVE  Alone'
<1>1. \A u \in Threads \ {t} :
        pc'[u] \notin Body /\ pc'[u] # "halted" /\ my'[u].nth = 1
  BY StillAlone DEF Alone, Moves, Busy
<1> QED
  BY <1>1, StillAlone DEF Alone, Body

LEMMA OutsideAlone ==
  ASSUME Inv, ~overlap', NEW t \in Threads, Outside(t), pc'[t] # "halted"
  PROVE  Alone'
<1>1. Moves(t) /\ UNCHANGED <<ids, ports>> /\ pc[t] \notin Body /\ pc'[t] \notin Body
  BY DEF Outside
<1>2. my'[t].nth = 1
  BY <1>1, StillAlone DEF Outside
<1>3. TypeOK /\ Alone /\ \E u \in Threads : ~Busy(u)'
  BY <1>1, StillAlone
<1>4. \A u \in Threads \ {t} : pc'[u] = pc[u] /\ my'[u] = my[u]
  BY <1>1 DEF Moves
<1>5. \A u \in Threads : /\ pc'[u] # "halted"
                         /\ pc'[u] \in Body => Phase(u)'
                         /\ pc'[u] \notin Body => my'[u].nth = 1
  BY <1>1, <1>2, <1>3, <1>4, UnchangedPhase DEF Alone
<1>6. (\A u \in Threads : pc'[u] \notin Body) => Settled'
  BY <1>1, <1>3, <1>4, UnchangedPhase DEF Alone
<1> QED
  BY <1>3, <1>5, <1>6 DEF Alone

LEMMA EnterAlone ==
  ASSUME Inv, ~overlap', NEW t \in Threads, pc[t] \notin Body, Moves(t)
  PROVE  /\ pc'[t] \in Body => Settled
         /\ pc'[t] \in Body /\ Phase(t)' => Alone'
<1>1. pc'[t] \in Body => \A u \in Threads \ {t} : pc[u] \notin Body
  BY StillAlone DEF Busy
<1>2. pc'[t] \in Body => Settled
  BY <1>1, StillAlone DEF Alone
<1>3. ASSUME pc'[t] \in Body, Phase(t)' PROVE Alone'
  <2>1. \A u \in Threads \ {t} :
          pc'[u] \notin Body /\ pc'[u] # "halted" /\ my'[u].nth = 1
    BY <1>1, <1>3, StillAlone DEF Alone, Moves
  <2> QED
    BY <1>3, <2>1, StillAlone DEF Alone, Body
<1> QED
  BY <1>2, <1>3

----------------------------------------------------------------------------
(* One lemma for each statement *)

LEMMA SettledFacts ==
  ASSUME TypeOK, Settled
  PROVE  /\ \A d \in Handles : ref[d] = 1
         /\ from # None => from \in Handles /\ to \in Handles /\ from # to
         /\ \A h \in Handles : hrd[h] = Belongs(h) /\ conf[Belongs(h)] = h
         /\ cons = Belongs(0)
<1>1. \A d \in Handles : Belongs(d) \in Handles /\ Belongs(Belongs(d)) = d
  BY DEF Settled, Belongs
<1>2. ASSUME NEW d \in Handles PROVE ref[d] = 1
  <2>1. hrd[Belongs(d)] = d
    BY <1>1 DEF Settled
  <2> QED
    BY <1>1, <2>1 DEF Settled
<1> QED
  BY <1>2, HandleTypes DEF Settled

LEMMA AloneTest ==
  ASSUME Inv, ~overlap', NEW t \in Threads, Test(t)
  PROVE  Alone'
<1>1. TypeOK /\ Moves(t) /\ pc[t] = "test" /\ UNCHANGED <<ids, ports>>
  BY TestType DEF Inv, TypeInv, Test, At
<1>2. my[t].nth = 1
  BY <1>1, StillAlone DEF Body
<1>3. CASE my[t].op = "back" /\ from # None /\ Continue(t, "from")
  <2>1. pc'[t] = "from" /\ my'[t] = my[t]
    BY <1>1, <1>3, ContinueMoves DEF Places, Body
  <2>2. Settled
    BY <1>1, <2>1, EnterAlone DEF Body
  <2>3. Reading(t)'
    BY <1>1, <1>2, <1>3, <2>1, <2>2, UnchangedPhase DEF Reading, ids
  <2> QED
    BY <1>1, <2>1, <2>3, EnterAlone DEF Phase, Body
<1>4. CASE /\ my[t].op = "switch" /\ from = None /\ my[t].from # my[t].to /\ Valid(t)
           /\ Continue(t, "close")
  <2>1. pc'[t] = "close" /\ my'[t] = my[t]
    BY <1>1, <1>4, ContinueMoves DEF Places, Body
  <2>2. Settled
    BY <1>1, <2>1, EnterAlone DEF Body
  <2>3. Pair(t)
    BY <1>4 DEF Pair, From, To
  <2>4. \A h \in Handles : hrd[h] = Pre(t, h) /\ Pre(t, h) = h /\ conf[h] = h /\ ref[h] = 1
    BY <1>1, <1>4, <2>2, SettledFacts DEF Pre, Belongs
  <2>5. cons = Pre(t, 0)
    BY <1>1, <1>4, <2>2, SettledFacts DEF Pre, Belongs
  <2>6. Configured(t, Both(t))
    BY <1>1, <2>3, <2>4, DeviceFacts DEF Configured
  <2>7. Shut({})
    BY <2>4 DEF Shut
  <2>8. /\ \A h : Pre(t, h)' = Pre(t, h) /\ Post(t, h)' = Post(t, h)
        /\ Both(t)' = Both(t) /\ Pair(t)'
    BY <2>1, <2>3, SameExchange DEF From, To
  <2>9. Closes(t)'
    BY <1>1, <1>2, <1>4, <2>1, <2>4, <2>5, <2>6, <2>7, <2>8 DEF Closes, Shut, Configured, ids, ports
  <2> QED
    BY <1>1, <2>1, <2>9, EnterAlone DEF Phase, Body
<1>5. CASE Return(t)
  <2>1. pc'[t] \in {"answer", "look"} /\ my'[t] = Back
    BY <1>1, <1>5, ReturnMoves
  <2>2. Outside(t)
    BY <1>1, <2>1 DEF Outside, Body, Back, Call
  <2> QED
    BY <2>1, <2>2, OutsideAlone
<1> QED
  BY <1>3, <1>4, <1>5 DEF Test

LEMMA AloneReading ==
  ASSUME Inv, ~overlap', NEW t \in Threads, ReadFrom(t) \/ ReadTo(t)
  PROVE  Alone'
<1>1. CASE ReadFrom(t)
  <2>1. TypeOK /\ Moves(t) /\ pc[t] = "from" /\ UNCHANGED <<ids, ports>>
    BY <1>1, ReadFromType DEF Inv, TypeInv, ReadFrom, At
  <2>2. Reading(t)
    BY <2>1, StillAlone DEF Phase, Body
  <2>3. Reading(t)' /\ pc'[t] = "to"
    BY <1>1, <2>1, <2>2, ReadFromType, UnchangedPhase DEF Inv, Reading, From, ids
  <2> QED
    BY <2>1, <2>3, InsideAlone DEF Phase, Body
<1>2. CASE ReadTo(t)
  <2>1. TypeOK /\ Moves(t) /\ pc[t] = "to" /\ UNCHANGED <<ids, ports>>
    BY <1>2, ReadToType DEF Inv, TypeInv, ReadTo, At
  <2>2. Reading(t)
    BY <2>1, StillAlone DEF Phase, Body
  <2>3. Reading(t)' /\ pc'[t] = "reset_from"
    BY <1>2, <2>1, <2>2, ReadToType, UnchangedPhase DEF Inv, Reading, From, To, ids
  <2> QED
    BY <2>1, <2>3, InsideAlone DEF Phase, Body
<1> QED
  BY <1>1, <1>2

LEMMA AloneResetFrom ==
  ASSUME Inv, ~overlap', NEW t \in Threads, ResetFrom(t)
  PROVE  Alone'
<1>1. /\ TypeOK /\ Moves(t) /\ pc[t] = "reset_from" /\ pc'[t] = "reset_to" /\ my'[t] = my[t]
      /\ from' = None /\ UNCHANGED ports
  BY ResetType DEF Inv, TypeInv, ResetFrom, At
<1>2. Reading(t)
  BY <1>1, StillAlone DEF Phase, Body
<1>3. from \in Handles /\ to \in Handles /\ from # to /\ From(t) = from /\ To(t) = to
  BY <1>1, <1>2, SettledFacts DEF Reading
<1>4. Pair(t) /\ \A h \in Handles : Belongs(h) = Pre(t, h)
  BY <1>2, <1>3, HandleTypes DEF Pair, Valid, From, To, Pre, Swap, Belongs, Reading
<1>5. \A h \in Handles : hrd[h] = Pre(t, h) /\ conf[Pre(t, h)] = h /\ ref[h] = 1
  BY <1>1, <1>2, <1>4, SettledFacts DEF Reading
<1>6. cons = Pre(t, 0)
  BY <1>1, <1>2, <1>4, SettledFacts, HandleTypes DEF Reading
<1>7. Configured(t, Both(t)) /\ Shut({})
  BY <1>1, <1>4, <1>5, DeviceFacts DEF Configured, Shut
<1>8. /\ \A h : Pre(t, h)' = Pre(t, h) /\ Post(t, h)' = Post(t, h)
      /\ Both(t)' = Both(t) /\ Pair(t)'
  BY <1>1, <1>4, SameExchange DEF From, To
<1>9. Closes(t)'
  BY <1>1, <1>2, <1>5, <1>6, <1>7, <1>8 DEF Closes, Reading, Shut, Configured, ports
<1> QED
  BY <1>1, <1>9, InsideAlone DEF Phase, Body

\* A statement that changes no port.
LEMMA ClosesOn ==
  ASSUME Inv, NEW t \in Threads, Closes(t), UNCHANGED <<from, hrd, conf, cons>>,
         my'[t].op = my[t].op, From(t)' = From(t), To(t)' = To(t)
  PROVE  /\ Pair(t)' /\ from' = None
         /\ \A h \in Handles : hrd'[h] = Pre(t, h)'
         /\ cons' = Pre(t, 0)' /\ Configured(t, Both(t))'
         /\ Both(t)' = Both(t) /\ Pre(t, From(t))' = Pre(t, From(t))
<1>1. /\ \A h : Pre(t, h)' = Pre(t, h) /\ Post(t, h)' = Post(t, h)
      /\ Both(t)' = Both(t) /\ Pair(t)' /\ Pre(t, From(t))' = Pre(t, From(t))
  BY SameExchange DEF Closes
<1> QED
  BY <1>1 DEF Closes, Configured

LEMMA AloneChecking ==
  ASSUME Inv, ~overlap', NEW t \in Threads, ResetTo(t) \/ Check(t)
  PROVE  Alone'
<1>1. CASE ResetTo(t)
  <2>1. /\ Moves(t) /\ pc[t] = "reset_to" /\ pc'[t] = "check" /\ my'[t] = my[t]
        /\ UNCHANGED <<from, ports>>
    BY <1>1, ResetType DEF Inv, ResetTo, ResetFrom, At
  <2>2. Closes(t)
    BY <2>1, StillAlone DEF Phase, Body
  <2>3. Shut({})'
    BY <2>1, <2>2 DEF Closes, Shut, ports
  <2>4. Closes(t)'
    BY <2>1, <2>2, <2>3, ClosesOn DEF Closes, From, To, ports
  <2> QED
    BY <2>1, <2>4, InsideAlone DEF Phase, Body
<1>2. CASE Check(t)
  <2>1. /\ Moves(t) /\ pc[t] = "check" /\ my'[t] = my[t] /\ UNCHANGED <<ids, ports>>
        /\ pc'[t] = IF Valid(t) THEN "close" ELSE "halted"
    BY <1>2, CheckType DEF Inv, Check, At
  <2>2. Closes(t)
    BY <2>1, StillAlone DEF Phase, Body
  <2>3. Shut({})' /\ pc'[t] = "close"
    BY <2>1, <2>2 DEF Closes, Pair, Shut, ports
  <2>4. Closes(t)'
    BY <2>1, <2>2, <2>3, ClosesOn DEF Closes, From, To, ids, ports
  <2> QED
    BY <2>1, <2>3, <2>4, InsideAlone DEF Phase, Body
<1> QED
  BY <1>1, <1>2

\* The device that is closed has its count of before the exchange.
LEMMA ClosedFacts ==
  ASSUME TypeOK, NEW t \in Threads, Closes(t)
  PROVE  /\ Closed(t) = Pre(t, IF my[t].nth = 1 THEN From(t) ELSE To(t))
         /\ Closed(t) \in Handles
         /\ Both(t) = {Pre(t, From(t)), Pre(t, To(t))} /\ Pre(t, From(t)) # Pre(t, To(t))
         /\ Pre(t, From(t)) \in Handles /\ Pre(t, To(t)) \in Handles
         /\ my[t].nth \in {1, 2}
<1>1. From(t) \in Handles /\ To(t) \in Handles
  BY PairFacts DEF Closes
<1>2. Closed(t) = Pre(t, IF my[t].nth = 1 THEN From(t) ELSE To(t))
  BY <1>1 DEF Closes, Closed, From, To
<1>3. my[t].nth \in {1, 2}
  BY DEF TypeOK, Locals
<1> QED
  BY <1>1, <1>2, <1>3, DeviceFacts DEF Closes

LEMMA AloneClose ==
  ASSUME Inv, ~overlap', NEW t \in Threads, Close(t)
  PROVE  Alone'
<1>1. TypeOK /\ Moves(t) /\ pc[t] = "close" /\ UNCHANGED <<ids, ports>>
  BY CloseType DEF Inv, TypeInv, Close, At
<1>2. Closes(t)
  BY <1>1, StillAlone DEF Phase, Body
<1>3. CASE ref[Closed(t)] = 0
  <2>1. Onward(t, "close", "save")
    BY <1>3 DEF Close
  <2>2. /\ pc'[t] = IF my[t].nth = 1 THEN "close" ELSE "save"
        /\ my'[t].nth = 3 - my[t].nth /\ my'[t].op = my[t].op
        /\ From(t)' = From(t) /\ To(t)' = To(t)
    BY <1>1, <2>1, OnwardMoves, SMTT(30) DEF Places, Body
  <2>3. CASE my[t].nth = 1
    <3>1. Shut({Pre(t, From(t))})
      BY <1>1, <1>2, <1>3, <2>3, ClosedFacts DEF Closes, Shut
    <3>2. Shut({Pre(t, From(t))})'
      BY <1>1, <1>2, <2>2, <3>1, ClosesOn DEF Shut, ids, ports
    <3>3. pc'[t] = "close" /\ my'[t].nth = 2
      BY <2>2, <2>3
    <3>4. Closes(t)'
      BY <1>1, <1>2, <2>2, <3>2, <3>3, ClosesOn DEF Closes, ids, ports
    <3> QED
      BY <1>1, <3>3, <3>4, InsideAlone DEF Phase, Body
  <2>4. CASE my[t].nth = 2
    <3>1. Shut(Both(t))
      BY <1>1, <1>2, <1>3, <2>4, ClosedFacts DEF Closes, Shut
    <3>2. Shut(Both(t))'
      BY <1>1, <1>2, <2>2, <3>1, ClosesOn DEF Shut, ids, ports
    <3>3. pc'[t] = "save" /\ my'[t].nth = 1
      BY <2>2, <2>4
    <3>4. Closes(t)'
      BY <1>1, <1>2, <2>2, <3>2, <3>3, ClosesOn DEF Closes, ids, ports
    <3> QED
      BY <1>1, <3>3, <3>4, InsideAlone DEF Phase, Body
  <2> QED
    BY <1>1, <1>2, <2>3, <2>4, ClosedFacts
<1>4. CASE ref[Closed(t)] # 0
  <2>1. pc'[t] = "closing" /\ my'[t] = my[t]
    BY <1>1, <1>4, ContinueMoves DEF Close, Places, Body
  <2>2. Shut(IF my[t].nth = 1 THEN {} ELSE {Pre(t, From(t))})
    BY <1>1, <1>2, <1>4, ClosedFacts DEF Closes, Shut
  <2>3. /\ my'[t].op = my[t].op /\ From(t)' = From(t) /\ To(t)' = To(t)
        /\ my'[t].nth = my[t].nth
    BY <2>1 DEF From, To
  <2>4. Shut(IF my[t].nth = 1 THEN {} ELSE {Pre(t, From(t))})'
    BY <1>1, <1>2, <2>2, <2>3, ClosesOn DEF Shut, ids, ports
  <2>5. Closes(t)'
    BY <1>1, <1>2, <2>1, <2>3, <2>4, ClosesOn DEF Closes, ids, ports
  <2> QED
    BY <1>1, <2>1, <2>5, InsideAlone DEF Phase, Body
<1> QED
  BY <1>3, <1>4

LEMMA AloneClosing ==
  ASSUME Inv, ~overlap', NEW t \in Threads, Closing(t)
  PROVE  Alone'
<1>1. /\ TypeOK /\ Moves(t) /\ pc[t] = "closing" /\ my'[t] = my[t]
      /\ UNCHANGED <<ids, hrd, conf, cons>>
      /\ pc'[t] = IF ref[Closed(t)] = 0 THEN "halted" ELSE "close"
  BY ClosingType DEF Inv, TypeInv, Closing, At
<1>2. Closes(t)
  BY <1>1, StillAlone DEF Phase, Body
<1>3. ref[Closed(t)] = 1
  BY <1>1, <1>2, ClosedFacts DEF Closes, Shut
<1>4. pc'[t] = "close" /\ ref' = [ref EXCEPT ![Closed(t)] = 0]
  BY <1>1, <1>3 DEF Closing
<1>5. my'[t].op = my[t].op /\ From(t)' = From(t) /\ To(t)' = To(t) /\ my'[t].nth = my[t].nth
  BY <1>1 DEF From, To
<1>6. \A d \in Handles : ref'[d] = IF d = Closed(t) THEN 0 ELSE ref[d]
  BY <1>1, <1>4 DEF TypeOK
<1>7. IF my[t].nth = 1 THEN Shut({Pre(t, From(t))})' ELSE Shut(Both(t))'
  <2>1. CASE my[t].nth = 1
    BY <1>1, <1>2, <1>5, <1>6, <2>1, ClosedFacts, ClosesOn DEF Closes, Shut, ids
  <2>2. CASE my[t].nth # 1
    BY <1>1, <1>2, <1>5, <1>6, <2>2, ClosedFacts, ClosesOn DEF Closes, Shut, ids
  <2> QED
    BY <2>1, <2>2
<1>8. Closes(t)'
  BY <1>1, <1>2, <1>4, <1>5, <1>7, ClosesOn DEF Closes, ids
<1> QED
  BY <1>1, <1>4, <1>8, InsideAlone DEF Phase, Body

LEMMA AloneSave ==
  ASSUME Inv, ~overlap', NEW t \in Threads, Save(t)
  PROVE  Alone'
<1>1. /\ TypeOK /\ Moves(t) /\ pc[t] = "save" /\ pc'[t] = "take"
      /\ UNCHANGED <<ids, ports>> /\ my'[t].hrd = hrd[From(t)]
      /\ my'[t].op = my[t].op /\ From(t)' = From(t) /\ To(t)' = To(t)
      /\ my'[t].nth = my[t].nth
  BY SaveType DEF Inv, TypeInv, Save, At
<1>2. Closes(t)
  BY <1>1, StillAlone DEF Phase, Body
<1>3. hrd[From(t)] = Pre(t, From(t))
  BY <1>1, <1>2, PairFacts DEF Closes
<1>4. Shut(Both(t))'
  BY <1>1, <1>2, ClosesOn DEF Closes, Shut, ids, ports
<1>5. Closes(t)'
  BY <1>1, <1>2, <1>3, <1>4, ClosesOn DEF Closes, ids, ports
<1> QED
  BY <1>1, <1>5, InsideAlone DEF Phase, Body

LEMMA AloneTake ==
  ASSUME Inv, ~overlap', NEW t \in Threads, Take(t)
  PROVE  Alone'
<1>1. /\ TypeOK /\ Moves(t) /\ pc[t] = "take" /\ pc'[t] = "give" /\ my'[t] = my[t]
      /\ UNCHANGED <<ids, ref, conf, cons>>
  BY TakeGiveType DEF Inv, TypeInv, Take, At
<1>2. Closes(t)
  BY <1>1, StillAlone DEF Phase, Body
<1>3. hrd' = [hrd EXCEPT ![From(t)] = hrd[To(t)]]
  BY DEF Take, From, To
<1>4. \A h \in Handles : hrd'[h] = IF h = From(t) THEN Pre(t, To(t)) ELSE Pre(t, h)
  BY <1>1, <1>2, <1>3, PairFacts DEF Closes, TypeOK
<1>5. /\ \A h : Pre(t, h)' = Pre(t, h) /\ Post(t, h)' = Post(t, h)
      /\ Both(t)' = Both(t) /\ Pair(t)' /\ Pre(t, From(t))' = Pre(t, From(t))
      /\ From(t)' = From(t) /\ To(t)' = To(t)
  BY <1>1, <1>2, SameExchange DEF Closes, From, To
<1>6. Gives(t)'
  BY <1>1, <1>2, <1>4, <1>5 DEF Closes, Gives, Shut, Configured, ids
<1> QED
  BY <1>1, <1>6, InsideAlone DEF Phase, Body

LEMMA AloneGive ==
  ASSUME Inv, ~overlap', NEW t \in Threads, Give(t)
  PROVE  Alone'
<1>1. /\ TypeOK /\ Moves(t) /\ pc[t] = "give" /\ pc'[t] = "init" /\ my'[t] = my[t]
      /\ UNCHANGED <<ids, ref, conf, cons>>
  BY TakeGiveType DEF Inv, TypeInv, Give, Take, At
<1>2. Gives(t) /\ Pair(t)
  BY <1>1, StillAlone DEF Phase, Body, Gives
<1>3. hrd' = [hrd EXCEPT ![To(t)] = my[t].hrd]
  BY DEF Give, To
<1>4. \A h \in Handles : hrd'[h] = Post(t, h)
  <2>1. \A h \in Handles : hrd'[h] = IF h = To(t) THEN Pre(t, From(t))
                                  ELSE IF h = From(t) THEN Pre(t, To(t)) ELSE Pre(t, h)
    BY <1>1, <1>2, <1>3, PairFacts DEF Gives, TypeOK
  <2> QED
    BY <1>1, <1>2, <2>1, PairFacts, DeviceFacts DEF Both
<1>5. /\ \A h : Pre(t, h)' = Pre(t, h) /\ Post(t, h)' = Post(t, h)
      /\ Both(t)' = Both(t) /\ Pair(t)' /\ Low(t)' = Low(t) /\ High(t)' = High(t)
  BY <1>1, <1>2, SameExchange DEF From, To
<1>6. OpensLow(t)' /\ my'[t].nth = 1
  BY <1>1, <1>2, <1>5 DEF Gives, OpensLow, Shut, Configured
<1>7. Opens(t)'
  BY <1>1, <1>2, <1>4, <1>5, <1>6 DEF Gives, Opens, ids
<1> QED
  BY <1>1, <1>7, InsideAlone DEF Phase, Body

\* The handle that is initialised, and its device.
LEMMA OpenedFacts ==
  ASSUME TypeOK, NEW t \in Threads, Opens(t)
  PROVE  /\ Initialised(t) = IF my[t].nth = 1 THEN Low(t) ELSE High(t)
         /\ Initialised(t) \in Handles /\ hrd[Initialised(t)] = Post(t, Initialised(t))
         /\ Low(t) \in Handles /\ High(t) \in Handles
         /\ Post(t, Low(t)) \in Handles /\ Post(t, High(t)) \in Handles
         /\ my[t].nth \in {1, 2} /\ my[t].op \in {"switch", "back"}
<1>1. my[t].nth \in {1, 2} /\ my[t].op \in {"switch", "back"}
  BY DEF TypeOK, Locals
<1>2. Low(t) \in Handles /\ High(t) \in Handles
  BY PairFacts DEF Opens, Both
<1> QED
  BY <1>1, <1>2, PairFacts, DeviceFacts DEF Opens

\* What an exchange keeps when it leaves ids, locals and devices alone.
LEMMA OpensOn ==
  ASSUME Inv, NEW t \in Threads, Opens(t), UNCHANGED <<from, hrd>>,
         my'[t].op = my[t].op, From(t)' = From(t), To(t)' = To(t)
  PROVE  /\ Pair(t)' /\ from' = None
         /\ \A h \in Handles : hrd'[h] = Post(t, h)'
         /\ \A h : Pre(t, h)' = Pre(t, h) /\ Post(t, h)' = Post(t, h)
         /\ Both(t)' = Both(t) /\ Low(t)' = Low(t) /\ High(t)' = High(t)
         /\ Post(t, High(t))' = Post(t, High(t))
<1>1. Pair(t) /\ from = None
  BY DEF Opens
<1> QED
  BY <1>1, SameExchange DEF Opens

LEMMA AloneSetConsole ==
  ASSUME Inv, ~overlap', NEW t \in Threads, SetConsole(t)
  PROVE  Alone'
<1>1. /\ TypeOK /\ Moves(t) /\ pc[t] = "init" /\ pc'[t] = "configure" /\ my'[t] = my[t]
      /\ UNCHANGED <<ids, hrd, conf>>
  BY SetConsoleType DEF Inv, TypeInv, SetConsole, At
<1>2. Opens(t) /\ Pair(t)
  BY <1>1, StillAlone DEF Phase, Body, Opens
<1>3. /\ my'[t].op = my[t].op /\ From(t)' = From(t) /\ To(t)' = To(t) /\ my'[t].nth = my[t].nth
  BY <1>1 DEF From, To
<1>4. CASE my[t].nth = 1 /\ Low(t) = 0
  <2>1. hrd[0] = Post(t, 0) /\ cons = Pre(t, 0) /\ Shut(Both(t)) /\ Configured(t, Both(t))
    BY <1>1, <1>2, <1>4, HandleTypes DEF Opens, OpensLow
  <2>2. Post(t, 0) # Pre(t, 0) /\ Post(t, 0) \in Both(t) /\ Pre(t, 0) \in Both(t)
    BY <1>1, <1>2, <1>4, PairFacts, DeviceFacts DEF Both
  <2>3. Post(t, 0) \in Handles /\ Pre(t, 0) \in Handles
    BY <1>1, <1>2, DeviceFacts, HandleTypes
  <2>4. /\ cons' = hrd[0]
        /\ ref' = [ref EXCEPT ![cons] = IF @ = 0 THEN 0 ELSE @ - 1, ![hrd[0]] = @ + 1]
    BY <1>1, <1>2, <1>4, <2>1, <2>2, OpenedFacts DEF SetConsole
  <2>5. ref[cons] = 0 /\ ref[hrd[0]] = 0
    BY <2>1, <2>2, <2>3 DEF Shut
  <2>6. \A d \in Handles : ref'[d] = IF d = Post(t, 0) THEN 1 ELSE ref[d]
    BY <1>1, <2>1, <2>2, <2>3, <2>4, <2>5 DEF TypeOK
  <2>7. Both(t) = {Post(t, 0), Post(t, High(t))} /\ Post(t, 0) # Post(t, High(t))
    BY <1>1, <1>2, <1>4, PostFacts
  <2>8. \A d \in Handles : ref'[d] = IF d \in {Post(t, High(t))} THEN 0 ELSE 1
    BY <2>1, <2>6, <2>7 DEF Shut
  <2>9. OpensLow(t)'
    BY <1>1, <1>2, <1>3, <1>4, <2>1, <2>4, <2>8, OpensOn DEF OpensLow, Shut, Configured, ids
  <2> QED
    BY <1>1, <1>2, <1>3, <1>4, <2>9, OpensOn, InsideAlone DEF Opens, Phase, Body, ids
<1>5. CASE ~(my[t].nth = 1 /\ Low(t) = 0)
  <2>1. Initialised(t) # 0
    BY <1>1, <1>2, <1>5, OpenedFacts, PairFacts
  <2>2. UNCHANGED <<cons, ref>>
    BY <2>1 DEF SetConsole
  <2>3. CASE my[t].nth = 1
    <3>1. 0 \notin Both(t) /\ Low(t) # 0
      BY <1>1, <1>2, <1>5, <2>3, PairFacts
    <3>2. Pre(t, 0) = Post(t, 0)
      BY <1>1, <1>2, <3>1, DeviceFacts, HandleTypes
    <3>3. OpensLow(t)'
      BY <1>1, <1>2, <1>3, <2>2, <2>3, <3>1, <3>2, OpensOn DEF Opens, OpensLow, Shut, Configured, ids
    <3> QED
      BY <1>1, <1>2, <1>3, <2>3, <3>3, OpensOn, InsideAlone DEF Opens, Phase, Body, ids
  <2>4. CASE my[t].nth # 1
    <3>1. OpensHigh(t)'
      BY <1>1, <1>2, <1>3, <2>2, <2>4, OpensOn DEF Opens, OpensHigh, Shut, Configured, ids
    <3> QED
      BY <1>1, <1>2, <1>3, <2>4, <3>1, OpensOn, InsideAlone DEF Opens, Phase, Body, ids
  <2> QED
    BY <2>3, <2>4
<1> QED
  BY <1>4, <1>5

LEMMA AloneConfigure ==
  ASSUME Inv, ~overlap', NEW t \in Threads, Configure(t)
  PROVE  Alone'
<1>1. TypeOK /\ Moves(t) /\ pc[t] = "configure" /\ UNCHANGED <<ids, hrd, ref, cons>>
  BY ConfigureType DEF Inv, TypeInv, Configure, At
<1>2. Opens(t) /\ Pair(t)
  BY <1>1, StillAlone DEF Phase, Body, Opens
<1>3. conf' = [conf EXCEPT ![Post(t, Initialised(t))] = Initialised(t)]
  BY <1>1, <1>2, OpenedFacts DEF Configure
<1>4. \A h \in Handles : conf'[Post(t, h)] = IF h = Initialised(t) THEN h ELSE conf[Post(t, h)]
  BY <1>1, <1>2, <1>3, OpenedFacts, PostFacts, DeviceFacts DEF TypeOK
<1>5. CASE Initialised(t) = 0
  <2>1. my[t].nth = 1 /\ Low(t) = 0
    BY <1>1, <1>2, <1>5, OpenedFacts, PairFacts
  <2>2. /\ pc'[t] = "init" /\ my'[t].nth = 2 /\ my'[t].op = my[t].op
        /\ From(t)' = From(t) /\ To(t)' = To(t)
    BY <1>1, <1>5, <2>1, RestMoves DEF Configure
  <2>3. OpensLow(t)
    BY <1>2, <2>1 DEF Opens
  <2>4. OpensHigh(t)'
    BY <1>1, <1>2, <1>4, <1>5, <2>1, <2>2, <2>3, OpensOn, PairFacts
    DEF OpensLow, OpensHigh, Shut, Configured, ids
  <2> QED
    BY <1>1, <1>2, <2>2, <2>4, OpensOn, InsideAlone DEF Opens, Phase, Body, ids
<1>6. CASE Initialised(t) # 0
  <2>1. /\ pc'[t] = "open" /\ my'[t].nth = my[t].nth /\ my'[t].op = my[t].op
        /\ From(t)' = From(t) /\ To(t)' = To(t)
    BY <1>6, ConfigureType DEF Inv, From, To
  <2>2. CASE my[t].nth = 1
    <3>1. OpensLow(t) /\ Initialised(t) = Low(t)
      BY <1>1, <1>2, <2>2, OpenedFacts DEF Opens
    <3>2. Configured(t, {High(t)})'
      BY <1>1, <1>2, <1>4, <2>1, <3>1, OpensOn, PairFacts DEF OpensLow, Configured, ids
    <3>3. OpensLow(t)'
      BY <1>1, <1>2, <1>6, <2>1, <3>1, <3>2, OpensOn DEF OpensLow, Shut, ids
    <3> QED
      BY <1>1, <1>2, <2>1, <2>2, <3>3, OpensOn, InsideAlone DEF Opens, Phase, Body, ids
  <2>3. CASE my[t].nth # 1
    <3>1. OpensHigh(t) /\ Initialised(t) = High(t)
      BY <1>1, <1>2, <2>3, OpenedFacts DEF Opens
    <3>2. Configured(t, {})'
      BY <1>1, <1>2, <1>4, <2>1, <3>1, OpensOn DEF OpensHigh, Configured, ids
    <3>3. OpensHigh(t)'
      BY <1>1, <1>2, <2>1, <3>1, <3>2, OpensOn DEF OpensHigh, Shut, ids
    <3> QED
      BY <1>1, <1>2, <2>1, <2>3, <3>3, OpensOn, InsideAlone DEF Opens, Phase, Body, ids
  <2> QED
    BY <2>2, <2>3
<1> QED
  BY <1>5, <1>6

LEMMA AloneOpen ==
  ASSUME Inv, ~overlap', NEW t \in Threads, Open(t)
  PROVE  Alone'
<1>1. TypeOK /\ Moves(t) /\ pc[t] = "open" /\ UNCHANGED <<ids, hrd, conf, cons>> /\ Rest(t)
  BY OpenType DEF Inv, TypeInv, Open, At
<1>2. Opens(t) /\ Pair(t)
  BY <1>1, StillAlone DEF Phase, Body, Opens
<1>3. \A d \in Handles :
        ref'[d] = IF d = Post(t, Initialised(t)) THEN ref[d] + 1 ELSE ref[d]
  BY <1>1, <1>2, OpenedFacts DEF Open, TypeOK
<1>4. CASE my[t].nth = 1
  <2>1. /\ pc'[t] = "init" /\ my'[t].nth = 2 /\ my'[t].op = my[t].op
        /\ From(t)' = From(t) /\ To(t)' = To(t)
    BY <1>1, <1>4, RestMoves
  <2>2. OpensLow(t) /\ Initialised(t) = Low(t)
    BY <1>1, <1>2, <1>4, OpenedFacts DEF Opens
  <2>3. \A d \in Handles : ref'[d] = IF d \in {Post(t, High(t))} THEN 0 ELSE 1
    BY <1>1, <1>2, <1>3, <2>2, PostFacts DEF OpensLow, Shut
  <2>4. OpensHigh(t)'
    BY <1>1, <1>2, <2>1, <2>2, <2>3, OpensOn DEF OpensLow, OpensHigh, Shut, Configured, ids
  <2> QED
    BY <1>1, <1>2, <2>1, <2>4, OpensOn, InsideAlone DEF Opens, Phase, Body, ids
<1>5. CASE my[t].nth = 2
  <2>1. OpensHigh(t) /\ Initialised(t) = High(t)
    BY <1>1, <1>2, <1>5, OpenedFacts DEF Opens
  <2>2. \A d \in Handles : ref'[d] = 1
    BY <1>3, <2>1 DEF OpensHigh, Shut
  <2>3. /\ \A h \in Handles : conf[Post(t, h)] = h /\ hrd[h] = Post(t, h)
        /\ cons = Post(t, 0) /\ from = None
    BY <1>1, <1>2, <2>1 DEF Opens, OpensHigh, Configured
  <2>4. CASE my[t].op = "back"
    <3>1. pc'[t] \in {"answer", "look"} /\ my'[t] = Back
      BY <1>1, <1>5, <2>4, RestMoves
    <3>2. Settled'
      BY <1>1, <2>2, <2>3, <2>4, HandleTypes DEF Settled, Belongs, Post, ids
    <3> QED
      BY <1>1, <3>1, <3>2, InsideAlone DEF Back, Call, Body
  <2>5. CASE my[t].op = "switch"
    <3>1. /\ pc'[t] = "set_from" /\ my'[t].op = my[t].op
          /\ From(t)' = From(t) /\ To(t)' = To(t)
      BY <1>1, <1>5, <2>5, RestMoves
    <3>2. Records(t)'
      BY <1>1, <1>2, <2>2, <2>3, <2>5, <3>1, OpensOn DEF Records, Shut, Configured, ids
    <3> QED
      BY <1>1, <3>1, <3>2, InsideAlone DEF Phase, Body
  <2> QED
    BY <1>1, <1>2, <2>4, <2>5, OpenedFacts
<1> QED
  BY <1>1, <1>2, <1>4, <1>5, OpenedFacts

LEMMA AloneSetIds ==
  ASSUME Inv, ~overlap', NEW t \in Threads, SetFrom(t) \/ SetTo(t)
  PROVE  Alone'
<1>1. CASE SetFrom(t)
  <2>1. /\ Moves(t) /\ pc[t] = "set_from" /\ pc'[t] = "set_to" /\ my'[t] = my[t]
        /\ from' = From(t) /\ UNCHANGED ports
    BY <1>1, SetIdsType DEF Inv, SetFrom, At, From
  <2>2. Records(t)
    BY <2>1, StillAlone DEF Phase, Body
  <2>3. /\ \A h : Pre(t, h)' = Pre(t, h) /\ Post(t, h)' = Post(t, h)
        /\ Pair(t)' /\ From(t)' = From(t)
    BY <2>1, <2>2, SameExchange DEF Records, From, To
  <2>4. Records(t)'
    BY <2>1, <2>2, <2>3 DEF Records, Shut, Configured, ports
  <2> QED
    BY <2>1, <2>4, InsideAlone DEF Phase, Body
<1>2. CASE SetTo(t)
  <2>1. /\ TypeOK /\ Moves(t) /\ pc[t] = "set_to" /\ pc'[t] \in {"answer", "look"}
        /\ my'[t] = Back /\ to' = To(t) /\ from' = from /\ UNCHANGED ports
    BY <1>2, SetIdsType DEF Inv, TypeInv, SetTo, At, To
  <2>2. Records(t) /\ Pair(t)
    BY <2>1, StillAlone DEF Phase, Body, Records
  <2>3. from' = From(t) /\ from' # None /\ to' # from' /\ from' \in Handles /\ to' \in Handles
    BY <2>1, <2>2, PairFacts, HandleTypes DEF Records
  <2>4. \A h \in Handles : Belongs(h)' = Post(t, h)
    BY <2>1, <2>2, <2>3 DEF Belongs, Post, Swap, Records
  <2>5. \A h \in Handles : hrd'[h] = Post(t, h) /\ conf'[Post(t, h)] = h /\ ref'[Post(t, h)] = 1
    BY <2>1, <2>2, DeviceFacts DEF Records, Shut, Configured, ports
  <2>6. Settled'
    BY <2>1, <2>2, <2>3, <2>4, <2>5, HandleTypes DEF Settled, Records, ports
  <2> QED
    BY <2>1, <2>6, InsideAlone DEF Back, Call, Body
<1> QED
  BY <1>1, <1>2

----------------------------------------------------------------------------
LEMMA AloneExchange ==
  ASSUME Inv, ~overlap', NEW t \in Threads, Exchange(t)
  PROVE  Alone'
<1>1. CASE Test(t) \/ ReadFrom(t) \/ ReadTo(t) \/ ResetFrom(t) \/ ResetTo(t) \/ Check(t)
  BY <1>1, AloneTest, AloneReading, AloneResetFrom, AloneChecking
<1>2. CASE Close(t) \/ Closing(t) \/ Save(t) \/ Take(t) \/ Give(t)
  BY <1>2, AloneClose, AloneClosing, AloneSave, AloneTake, AloneGive
<1>3. CASE SetConsole(t) \/ Configure(t) \/ Open(t) \/ SetFrom(t) \/ SetTo(t)
  BY <1>3, AloneSetConsole, AloneConfigure, AloneOpen, AloneSetIds
<1> QED
  BY <1>1, <1>2, <1>3 DEF Exchange

\* The host's port is open when it is answered: nobody else is at it.
LEMMA AloneAnswer ==
  ASSUME Inv, ~overlap', Answer
  PROVE  Alone'
<1>1. /\ "host" \in Threads /\ TypeOK /\ pc["host"] = "answer" /\ Outside("host")
      /\ pc'["host"] = IF ref[hrd[HostPort]] = 0 THEN "halted" ELSE "idle"
  BY PlainMoves DEF Inv, TypeInv, Answer, At, Threads
<1>2. ~overlap /\ Alone
  BY <1>1, StillAlone DEF Outside
<1>3. \A u \in Threads : pc[u] \notin Body
  BY <1>1, <1>2 DEF Alone, Busy, Threads, Outside
<1>4. Settled
  BY <1>2, <1>3 DEF Alone
<1>5. ref[hrd[HostPort]] = 1
  BY <1>4, HandleTypes DEF Settled
<1> QED
  BY <1>1, <1>5, OutsideAlone

LEMMA InvInit == Init => Inv
<1> SUFFICES ASSUME Init PROVE Inv
  OBVIOUS
<1>1. \A t \in Threads : pc[t] \in {"idle", "look"} /\ my[t].nth = 1
  BY DEF Init, Threads, Back, Call
<1>2. Settled
  BY HandleTypes DEF Init, Settled, Belongs
<1>3. Alone
  BY <1>1, <1>2 DEF Alone, Busy, Body, Threads
<1> QED
  BY <1>3, InitType DEF Inv

LEMMA InvNext == Inv /\ [Next]_vars => Inv'
<1> SUFFICES ASSUME Inv, [Next]_vars PROVE Inv'
  OBVIOUS
<1>1. TypeInv /\ TypeInv'
  BY NextType DEF Inv
<1>2. ASSUME ~overlap' PROVE Alone'
  <2>1. ASSUME NEW t \in Threads, Exchange(t) PROVE Alone'
    BY <1>2, <2>1, AloneExchange
  <2>2. CASE Asked
    <3>1. Outside("host") /\ pc'["host"] # "halted"
      BY <1>1, <2>2, CommandMoves, PlainMoves, HandleTypes DEF Asked
    <3> QED
      BY <1>2, <3>1, OutsideAlone DEF Threads
  <2>3. CASE Look \/ FiveMinutes
    <3>1. Outside("auto") /\ pc'["auto"] # "halted"
      BY <1>1, <2>3, PlainMoves
    <3> QED
      BY <1>2, <3>1, OutsideAlone DEF Threads
  <2>4. CASE Answer
    BY <1>2, <2>4, AloneAnswer
  <2>5. CASE UNCHANGED vars
    <3>1. ~overlap /\ Alone /\ TypeOK
      BY <1>1, <1>2, <2>5 DEF Inv, TypeInv, vars
    <3>2. UNCHANGED <<pc, my>> /\ UNCHANGED <<ids, ports>>
      BY <2>5 DEF vars
    <3> QED
      BY <3>1, <3>2, UnchangedPhase DEF Alone, Busy
  <2> QED
    BY <2>1, <2>2, <2>3, <2>4, <2>5 DEF Next, Host, SwitchBack, Threads
<1> QED
  BY <1>1, <1>2 DEF Inv

(* As long as the two threads have never been at it together, no assertion of *)
(* pp_uart.c:144 and pp_host.c:37 fails, and whenever nobody exchanges         *)
(* anything every port is where its ids say, open once and configured for its  *)
(* handle.                                                                     *)
THEOREM InPlaceSafe == Spec => []InPlace
<1>1. Inv => InPlace
  BY DEF Inv, Alone, Settled, InPlace
<1> QED
  BY <1>1, InvInit, InvNext, PTL DEF Spec

=============================================================================
