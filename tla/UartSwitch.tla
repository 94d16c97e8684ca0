----------------------------- MODULE UartSwitch -----------------------------
(***************************************************************************)
(* The exchange of two serial ports (pp_uart.c): the host asks for it and  *)
(* for its end, and a thread ends it after five minutes by itself.  Both   *)
(* run the same code on _from_id, _to_id, the handles and the devices, at  *)
(* the same priority and without a lock, so that each may be interrupted   *)
(* between any two of its statements.                                      *)
(*                                                                         *)
(* A handle is a use of a port: handle 0 is the console, the others have a *)
(* callback for what they receive, as the host's has.  The hardware of     *)
(* handle h is device h as long as nothing is switched.                    *)
(***************************************************************************)
EXTENDS Naturals

CONSTANTS
  Handles,   \* the indices of uart_handle_array
  HostPort,  \* the handle of the host
  None       \* 0xFF

ASSUME SwitchAssumption ==
  /\ Handles \subseteq Nat /\ 0 \in Handles
  /\ HostPort \in Handles \ {0}
  /\ None \notin Handles

VARIABLES
  pc,       \* next statement of each thread
  my,       \* its local variables
  from,     \* _from_id
  to,       \* _to_id
  hrd,      \* the device each handle has
  ref,      \* ref_count of each device
  conf,     \* the handle each device has its baud rate and callback from
  cons,     \* the device of rt_kprintf
  overlap   \* history: the two threads have been at it at the same time

ids == <<from, to>>
ports == <<hrd, ref, conf, cons>>
vars == <<pc, my, ids, ports, overlap>>

Threads == {"host", "auto"}

\* Statements at which an exchange is under way.
Body == {"from", "to", "reset_from", "reset_to", "check", "close", "closing",
         "save", "take", "give", "init", "configure", "open",
         "set_from", "set_to"}
Busy(t) == pc[t] \in Body \/ pc[t] = "answer"

\* What is called, its two ids, which of the two handles it is at, and the
\* hrd of _hrd_switch.
Locals == [op : {"switch", "back"}, from : Handles \cup {None}, to : Handles \cup {None},
           nth : 1 .. 2, hrd : Handles]
Call(op, f, t) == [op |-> op, from |-> f, to |-> t, nth |-> 1, hrd |-> 0]
Back == Call("back", None, None)

----------------------------------------------------------------------------
(* Start-up is over: _console_init has made and switched the handles, and     *)
(* _comm_init has switched them back.                                         *)
Init ==
  /\ pc = [host |-> "idle", auto |-> "look"]
  /\ my = [t \in Threads |-> Back]
  /\ from = None /\ to = None
  /\ hrd = [h \in Handles |-> h]
  /\ ref = [d \in Handles |-> 1]
  /\ conf = [d \in Handles |-> d]
  /\ cons = 0
  /\ overlap = FALSE

At(t, l) == pc[t] = l

Goto(t, l) ==
  /\ pc' = [pc EXCEPT ![t] = l]
  /\ overlap' = (overlap \/ \A u \in Threads : Busy(u)')

\* A failed assertion does not return.
Halt(t) == Goto(t, "halted") /\ UNCHANGED my

Continue(t, l) == Goto(t, l) /\ UNCHANGED my

Return(t) ==
  /\ Goto(t, IF t = "host" THEN "answer" ELSE "look")
  /\ my' = [my EXCEPT ![t] = Back]

----------------------------------------------------------------------------
(* pp_uart_handle_switch_back and pp_uart_handle_switch up to the exchange *)

Valid(t) == {my[t].from, my[t].to} \subseteq Handles

Test(t) ==
  /\ At(t, "test")
  /\ CASE my[t].op = "back" /\ from # None -> Continue(t, "from")
       [] my[t].op = "switch" /\ from = None /\ my[t].from # my[t].to /\ Valid(t) ->
            Continue(t, "close")
       [] OTHER -> Return(t)
  /\ UNCHANGED <<ids, ports>>

ReadFrom(t) ==
  /\ At(t, "from")
  /\ my' = [my EXCEPT ![t].from = from]
  /\ Goto(t, "to")
  /\ UNCHANGED <<ids, ports>>

ReadTo(t) ==
  /\ At(t, "to")
  /\ my' = [my EXCEPT ![t].to = to]
  /\ Goto(t, "reset_from")
  /\ UNCHANGED <<ids, ports>>

ResetFrom(t) ==
  /\ At(t, "reset_from")
  /\ from' = None
  /\ Continue(t, "reset_to")
  /\ UNCHANGED <<to, ports>>

ResetTo(t) ==
  /\ At(t, "reset_to")
  /\ to' = None
  /\ Continue(t, "check")
  /\ UNCHANGED <<from, ports>>

\* PP_ASSERT(from_handle != RT_NULL), PP_ASSERT(to_handle != RT_NULL)
Check(t) ==
  /\ At(t, "check")
  /\ IF Valid(t) THEN Continue(t, "close") ELSE Halt(t)
  /\ UNCHANGED <<ids, ports>>

----------------------------------------------------------------------------
(* The exchange *)

\* First one handle, then the other, then on.
Onward(t, again, next) ==
  /\ Goto(t, IF my[t].nth = 1 THEN again ELSE next)
  /\ my' = [my EXCEPT ![t].nth = 3 - @]

(* pp_uart_handle_deinit, first of from, then of to *)
Closed(t) == hrd[IF my[t].nth = 1 THEN my[t].from ELSE my[t].to]

Close(t) ==
  /\ At(t, "close")
  /\ IF ref[Closed(t)] = 0 THEN Onward(t, "close", "save") ELSE Continue(t, "closing")
  /\ UNCHANGED <<ids, ports>>

\* Mutant: closed without a look at the count.
ClosingBlind(t) ==
  /\ At(t, "closing")
  /\ ref' = [ref EXCEPT ![Closed(t)] = @ - 1]
  /\ Continue(t, "close")
  /\ UNCHANGED <<ids, hrd, conf, cons>>

Closing(t) ==
  /\ At(t, "closing")
  /\ IF ref[Closed(t)] = 0
       THEN Halt(t) /\ UNCHANGED ref
       ELSE ref' = [ref EXCEPT ![Closed(t)] = @ - 1] /\ Continue(t, "close")
  /\ UNCHANGED <<ids, hrd, conf, cons>>

(* _hrd_switch *)
Save(t) ==
  /\ At(t, "save")
  /\ my' = [my EXCEPT ![t].hrd = hrd[my[t].from]]
  /\ Goto(t, "take")
  /\ UNCHANGED <<ids, ports>>

Take(t) ==
  /\ At(t, "take")
  /\ hrd' = [hrd EXCEPT ![my[t].from] = hrd[my[t].to]]
  /\ Continue(t, "give")
  /\ UNCHANGED <<ids, ref, conf, cons>>

\* Mutant: the handle of the higher index is initialised first.
HighFirst(t) ==
  CHOOSE h \in {my[t].from, my[t].to} :
    \A o \in {my[t].from, my[t].to} : IF my[t].nth = 1 THEN h >= o ELSE h <= o

\* The handles are initialised in the order of their indices.
Initialised(t) ==
  CHOOSE h \in {my[t].from, my[t].to} :
    \A o \in {my[t].from, my[t].to} : IF my[t].nth = 1 THEN h <= o ELSE h >= o

Give(t) ==
  /\ At(t, "give")
  /\ hrd' = [hrd EXCEPT ![my[t].to] = my[t].hrd]
  /\ Continue(t, "init")
  /\ UNCHANGED <<ids, ref, conf, cons>>

(* pp_uart_handle_init: for a handle without a callback _console_uart_init,    *)
(* whose rt_console_set_device closes the device of before and opens the new  *)
(* one before it is configured ...                                            *)
SetConsole(t) ==
  /\ At(t, "init")
  /\ IF Initialised(t) # 0 \/ hrd[0] = cons
       THEN UNCHANGED <<cons, ref>>
       ELSE /\ cons' = hrd[0]
            /\ ref' = [ref EXCEPT ![cons] = IF @ = 0 THEN 0 ELSE @ - 1, ![hrd[0]] = @ + 1]
  /\ Continue(t, "configure")
  /\ UNCHANGED <<ids, hrd, conf>>

\* What follows when a handle is initialised.
Rest(t) ==
  IF my[t].op = "back" /\ my[t].nth = 2
    THEN Return(t)
    ELSE Onward(t, "init", "set_from")

(* ... other handles are configured, then opened.                             *)
Configure(t) ==
  /\ At(t, "configure")
  /\ conf' = [conf EXCEPT ![hrd[Initialised(t)]] = Initialised(t)]
  /\ IF Initialised(t) = 0 THEN Rest(t) ELSE Continue(t, "open")
  /\ UNCHANGED <<ids, hrd, ref, cons>>

Open(t) ==
  /\ At(t, "open")
  /\ ref' = [ref EXCEPT ![hrd[Initialised(t)]] = @ + 1]
  /\ Rest(t)
  /\ UNCHANGED <<ids, hrd, conf, cons>>

SetFrom(t) ==
  /\ At(t, "set_from")
  /\ from' = my[t].from
  /\ Continue(t, "set_to")
  /\ UNCHANGED <<to, ports>>

SetTo(t) ==
  /\ At(t, "set_to")
  /\ to' = my[t].to
  /\ Return(t)
  /\ UNCHANGED <<from, ports>>

Exchange(t) ==
  \/ Test(t) \/ ReadFrom(t) \/ ReadTo(t) \/ ResetFrom(t) \/ ResetTo(t) \/ Check(t)
  \/ Close(t) \/ Closing(t) \/ Save(t) \/ Take(t) \/ Give(t)
  \/ SetConsole(t) \/ Configure(t) \/ Open(t) \/ SetFrom(t) \/ SetTo(t)

----------------------------------------------------------------------------
(* The host thread: _uart_hostcmd, and the answer to it or to any other       *)
(* packet.                                                                    *)
Command(call) ==
  /\ At("host", "idle")
  /\ my' = [my EXCEPT !["host"] = call]
  /\ Goto("host", "test")
  /\ UNCHANGED <<ids, ports>>

OtherPacket ==
  /\ At("host", "idle")
  /\ Continue("host", "answer")
  /\ UNCHANGED <<ids, ports>>

(* pp_host_data_send, PP_ASSERT(w_len == len): nothing is written to a device *)
(* that is closed.                                                            *)
Answer ==
  /\ At("host", "answer")
  /\ IF ref[hrd[HostPort]] = 0 THEN Halt("host") ELSE Continue("host", "idle")
  /\ UNCHANGED <<ids, ports>>

\* Mutant: an id of 0 counts as none.
LookNonzero ==
  /\ At("auto", "look")
  /\ from \notin {None, 0}
  /\ Continue("auto", "wait")
  /\ UNCHANGED <<ids, ports>>

(* _switch_back: looked at every second, switched back five minutes later,    *)
(* whatever the host has done in between.                                     *)
Look ==
  /\ At("auto", "look")
  /\ from # None
  /\ Continue("auto", "wait")
  /\ UNCHANGED <<ids, ports>>

FiveMinutes ==
  /\ At("auto", "wait")
  /\ Continue("auto", "test")
  /\ UNCHANGED <<ids, ports>>

Host == Exchange("host") \/ Answer
SwitchBack == Look \/ FiveMinutes \/ Exchange("auto")

Asked ==
  \/ \E f, t \in Handles \cup {None} : Command(Call("switch", f, t))
  \/ Command(Back)
  \/ OtherPacket

Next == Host \/ SwitchBack \/ Asked

Spec == Init /\ [][Next]_vars

(* Threads of one priority get their turns; the host need not ask anything.   *)
FairSpec == Spec /\ WF_vars(Host) /\ WF_vars(SwitchBack)

----------------------------------------------------------------------------
(* Properties *)

TypeOK ==
  /\ pc \in [Threads -> Body \cup {"idle", "test", "answer", "look", "wait", "halted"}]
  /\ my \in [Threads -> Locals]
  /\ from \in Handles \cup {None} /\ to \in Handles \cup {None}
  /\ hrd \in [Handles -> Handles]
  /\ ref \in [Handles -> Nat]
  /\ conf \in [Handles -> Handles]
  /\ cons \in Handles
  /\ overlap \in BOOLEAN

\* Where each handle belongs, according to the ids.
Belongs(h) ==
  IF from = None THEN h ELSE IF h = from THEN to ELSE IF h = to THEN from ELSE h

(* As long as the two threads have never been at it together, no assertion of *)
(* pp_uart.c and pp_host.c fails, and whenever nobody exchanges anything each *)
(* handle has the device the ids say, opened once and for no other, with its  *)
(* own baud rate and callback (pp_uart.c:73-194): the order in which two      *)
(* handles are initialised keeps the console from closing the other's port.   *)
InPlace ==
  ~overlap =>
    /\ \A t \in Threads : pc[t] # "halted"
    /\ (\A t \in Threads : pc[t] \notin Body) =>
         \A h \in Handles : /\ hrd[h] = Belongs(h)
                           /\ ref[hrd[h]] = 1 /\ conf[hrd[h]] = h
                           /\ cons = hrd[0]

(* An exchange does not last: without the host the thread ends it             *)
(* (pp_uart.c:198), unless the two have met.                                  *)
Undone == from # None ~> hrd = [h \in Handles |-> h] \/ overlap

=============================================================================
