--------------------------- MODULE HostLinkProofs ---------------------------
(***************************************************************************)
(* The buffers of the app and of the bootloader and the packets executed   *)
(* from them, for all packets, lengths and faults of the line.             *)
(***************************************************************************)
EXTENDS HostLink, TLAPS

----------------------------------------------------------------------------
(* The inductive invariant *)

(* How far the host is with its packet *)
SendInv ==
  /\ cur \in Packets => sent <= Length[cur] /\ (waiting <=> sent = Length[cur])
  /\ cur \notin Packets => sent = 0 /\ ~waiting

(* In the app, bytes come in two turns of the thread at most before its tail  *)
(* is checked.                                                                *)
BoundInv ==
  Len(recv) <= RecvMax + (IF program = "boot" THEN 0
                          ELSE IF pc = "reset" THEN lag ELSE Slack + lag)

(* The packet in the buffer is executed, and the buffer about to be emptied. *)
Over == pc \in {"done", "empty"}

(* What counts in the buffer is of the packet that the host is sending, of a  *)
(* sending that is not executed yet, and not yet answered.                    *)
BufferInv ==
  /\ OncePerSend
  /\ ~Over => \A i \in 1 .. Len(recv) : recv[i] = Bad \/ recv[i][1] = cur
  /\ ~Over => \A i \in 1 .. Len(recv) : recv[i] = <<cur, 1>> => executed < attempts
  /\ ~Over /\ waiting /\ answer # "none" => \A i \in 1 .. Len(recv) : recv[i] = Bad

Inv == TypeOK /\ SendInv /\ BoundInv /\ BufferInv

----------------------------------------------------------------------------
LEMMA Limits ==
  /\ RecvMax \in Nat /\ Slack \in Nat /\ Extra \in Nat /\ 2 * Slack < Extra
  /\ MaxFaults \in Nat
  /\ Len(Length) \in Nat /\ Packets = 1 .. Len(Length)
  /\ 0 \in 0 .. RecvMax /\ 0 \in 0 .. Slack /\ 0 \in 0 .. MaxFaults
  /\ 1 \in 1 .. Len(Length) + 1
<1>1. /\ RecvMax \in Nat /\ Slack \in Nat /\ Extra \in Nat /\ 2 * Slack < Extra
      /\ MaxFaults \in Nat
  BY LinkAssumption
<1>2. Len(Length) \in Nat
  <2> DEFINE S == HeadLength .. RecvMax
  <2>1. Length \in Seq(S)
    BY LinkAssumption
  <2> HIDE DEF S
  <2> QED BY <2>1
<1> QED BY <1>1, <1>2 DEF Packets

LEMMA Lengths ==
  \A p \in Packets : Length[p] \in Nat /\ Length[p] >= 1 /\ Length[p] <= RecvMax
<1> DEFINE S == HeadLength .. RecvMax
<1>1. Length \in Seq(S)
  BY LinkAssumption
<1>2. \A n \in S : n \in Nat /\ n >= 1 /\ n <= RecvMax
  BY LinkAssumption
<1> HIDE DEF S
<1>3. \A p \in Packets : Length[p] \in S
  BY <1>1 DEF Packets
<1> QED BY <1>2, <1>3

LEMMA InitInv == Init => Inv
<1> SUFFICES ASSUME Init PROVE Inv
  OBVIOUS
<1> USE Limits DEF Init
<1>1. TypeOK
  <2>1. cur \in 1 .. Len(Length) + 1 /\ sent \in 0 .. RecvMax /\ lag \in 0 .. Slack
    BY Limits
  <2>2. attempts \in Nat /\ executed \in Nat /\ faults \in 0 .. MaxFaults
    BY Limits
  <2>3. recv \in Seq(Bytes)
    OBVIOUS
  <2>4. /\ sem \in BOOLEAN /\ processing \in BOOLEAN /\ waiting \in BOOLEAN
        /\ processing <=> pc \in {"route", "done"}
        /\ answer \in {"none", "ok", "crc"}
    BY DEF AppInit, BlInit
  <2>5. /\ finish \in BOOLEAN /\ timer \in {"off", "on", "due"}
        /\ (program = "app" /\ pc = "reset") \/ (program = "boot" /\ pc = "poll")
    BY DEF AppInit, BlInit
  <2> QED BY <2>1, <2>2, <2>3, <2>4, <2>5 DEF TypeOK
<1>2. SendInv
  <2>1. sent = 0 /\ waiting = FALSE
    OBVIOUS
  <2>2. ASSUME cur \in Packets PROVE sent <= Length[cur] /\ sent # Length[cur]
    <3>1. Length[cur] \in Nat /\ Length[cur] >= 1
      BY <2>2, Lengths
    <3> QED BY <2>1, <3>1
  <2> QED BY <2>1, <2>2 DEF SendInv
<1>3. BoundInv
  BY DEF BoundInv
<1>4. BufferInv
  BY DEF BufferInv, OncePerSend
<1> QED BY <1>1, <1>2, <1>3, <1>4 DEF Inv

(* What a byte does to the buffer *)
LEMMA Arrival ==
  ASSUME TypeOK, BoundInv, NEW b \in Bytes, Arrives(b), pc' = pc, program' = program
  PROVE  /\ recv' \in Seq(Bytes) /\ sem' \in BOOLEAN /\ lag' \in 0 .. Slack
         /\ timer' \in {"off", "on", "due"}
         /\ BoundInv'
         /\ \A i \in 1 .. Len(recv') : recv'[i] = b \/ (i \in 1 .. Len(recv) /\ recv'[i] = recv[i])
<1> USE Limits DEF TypeOK
<1>1. CASE processing
  BY <1>1 DEF Arrives, BoundInv, app
<1>2. CASE ~processing /\ program = "app"
  <2>1. recv' = Append(recv, b) /\ sem' = TRUE /\ lag' = lag + 1 /\ lag < Slack /\ UNCHANGED timer
    BY <1>2 DEF Arrives, IrqDeal
  <2>2. recv' \in Seq(Bytes) /\ Len(recv') = Len(recv) + 1
    BY <2>1
  <2>3. \A i \in 1 .. Len(recv') : recv'[i] = b \/ (i \in 1 .. Len(recv) /\ recv'[i] = recv[i])
    BY <2>1, <2>2
  <2>4. BoundInv'
    BY <1>2, <2>1, <2>2 DEF BoundInv
  <2> QED BY <2>1, <2>2, <2>3, <2>4
<1>3. CASE ~processing /\ program = "boot"
  <2>1. /\ recv' = IF Len(recv) = RecvMax THEN <<>> ELSE Append(recv, b)
        /\ timer' = IF timer = "due" THEN "due" ELSE "on"
        /\ UNCHANGED <<sem, lag>>
    BY <1>3 DEF Arrives, RecvData, app
  <2>2. Len(recv) <= RecvMax
    BY <1>3 DEF BoundInv
  <2>3. CASE Len(recv) = RecvMax
    BY <1>3, <2>1, <2>3 DEF BoundInv
  <2>4. CASE Len(recv) # RecvMax
    <3>1. recv' \in Seq(Bytes) /\ Len(recv') = Len(recv) + 1 /\ Len(recv') <= RecvMax
      BY <2>1, <2>2, <2>4
    <3> QED BY <1>3, <2>1, <2>4, <3>1 DEF BoundInv
  <2> QED BY <2>3, <2>4
<1> QED BY <1>1, <1>2, <1>3

(* A packet that is executed is one that the host is sending. *)
LEMMA Execution ==
  ASSUME Inv, pc = "route", Operate
  PROVE  executed' \in Nat /\ executed' <= attempts /\ answer' \in {"none", "ok", "crc"}
<1> USE DEF Inv
<1>1. executed \in Nat /\ answer \in {"none", "ok", "crc"} /\ executed <= attempts
  BY DEF TypeOK, BufferInv, OncePerSend
<1>2. CASE \E p \in Packets : Whole(p)
  <2>1. PICK p \in Packets : Whole(p)
    BY <1>2
  <2>2. 1 \in 1 .. Len(recv) /\ recv[1] = <<p, 1>>
    <3> DEFINE n == Length[p]
    <3>1. n \in Nat /\ n >= 1
      BY <2>1, Lengths
    <3>2. recv = [i \in 1 .. n |-> <<p, i>>]
      BY <2>1 DEF Whole
    <3>3. Len(recv) \in Nat /\ DOMAIN recv = 1 .. Len(recv)
      BY DEF TypeOK
    <3> HIDE DEF n
    <3>4. 1 \in DOMAIN recv /\ recv[1] = <<p, 1>>
      BY <3>1, <3>2
    <3> QED BY <3>3, <3>4
  <2>3. recv[1] = Bad \/ recv[1][1] = cur
    BY <2>2 DEF BufferInv, Over
  <2>4. p = cur
    BY <2>2, <2>3 DEF Bad
  <2>5. executed < attempts
    BY <2>2, <2>4 DEF BufferInv, Over
  <2>6. executed' = executed + 1 /\ answer' = "ok"
    BY <1>2 DEF Operate
  <2> QED BY <1>1, <2>5, <2>6 DEF TypeOK
<1>3. CASE ~ \E p \in Packets : Whole(p)
  BY <1>1, <1>3 DEF Operate
<1> QED BY <1>2, <1>3

LEMMA ThreadStep == Inv /\ Thread => Inv'
<1> SUFFICES ASSUME Inv, Thread PROVE Inv'
  OBVIOUS
<1> USE Limits DEF Inv
<1>0. program = "app" /\ UNCHANGED <<program, boot, host, faults>>
  BY DEF Thread
<1>1. SendInv'
  BY <1>0 DEF host, SendInv, Packets
<1>2. CASE SemReset
  <2>1. TypeOK'
    BY <1>0, <1>2 DEF SemReset, TypeOK, boot, host
  <2>2. BoundInv'
    BY <1>0, <1>2 DEF SemReset, BoundInv, TypeOK
  <2>3. BufferInv'
    BY <1>0, <1>2 DEF SemReset, BufferInv, OncePerSend, Over, host
  <2> QED BY <1>1, <2>1, <2>2, <2>3
<1>3. CASE SemTake
  <2>1. TypeOK'
    BY <1>0, <1>3 DEF SemTake, TypeOK, boot, host
  <2>2. BoundInv'
    BY <1>0, <1>3 DEF SemTake, BoundInv
  <2>3. BufferInv'
    BY <1>0, <1>3 DEF SemTake, BufferInv, OncePerSend, Over, host
  <2> QED BY <1>1, <2>1, <2>2, <2>3
<1>4. CASE CheckTail
  <2>1. TypeOK'
    BY <1>0, <1>4 DEF CheckTail, TypeOK, boot, host
  <2>2. BoundInv'
    BY <1>0, <1>4 DEF CheckTail, BoundInv, TypeOK
  <2>3. BufferInv'
    BY <1>0, <1>4 DEF CheckTail, BufferInv, OncePerSend, Over, host
  <2> QED BY <1>1, <2>1, <2>2, <2>3
<1>5. CASE Timeout
  <2>1. TypeOK'
    BY <1>0, <1>5 DEF Timeout, TypeOK, boot, host
  <2>2. BoundInv'
    BY <1>0, <1>5 DEF Timeout, BoundInv
  <2>3. BufferInv'
    BY <1>0, <1>5 DEF Timeout, BufferInv, OncePerSend, Over, host
  <2> QED BY <1>1, <2>1, <2>2, <2>3
<1>6. CASE Expired
  <2>1. TypeOK'
    BY <1>0, <1>6 DEF Expired, TypeOK, boot, host
  <2>2. BoundInv'
    BY <1>0, <1>6 DEF Expired, BoundInv, TypeOK
  <2>3. BufferInv'
    BY <1>0, <1>6 DEF Expired, BufferInv, OncePerSend, Over, host
  <2> QED BY <1>1, <2>1, <2>2, <2>3
<1>7. CASE Route
  <2>1. TypeOK'
    BY <1>0, <1>7, Execution DEF Route, TypeOK, boot, host
  <2>2. BoundInv'
    BY <1>0, <1>7 DEF Route, BoundInv
  <2>3. executed' <= attempts
    BY <1>0, <1>7, Execution DEF Route
  <2>4. BufferInv'
    BY <1>0, <1>7, <2>3 DEF Route, BufferInv, OncePerSend, Over, host
  <2> QED BY <1>1, <2>1, <2>2, <2>4
<1>8. CASE Done
  <2>1. TypeOK'
    BY <1>0, <1>8 DEF Done, TypeOK, boot, host
  <2>2. BoundInv'
    BY <1>0, <1>8 DEF Done, BoundInv
  <2>3. BufferInv'
    BY <1>0, <1>8 DEF Done, BufferInv, OncePerSend, Over, host
  <2> QED BY <1>1, <2>1, <2>2, <2>3
<1>9. CASE Empty
  <2>1. TypeOK'
    BY <1>0, <1>9 DEF Empty, TypeOK, boot, host
  <2>2. BoundInv'
    BY <1>0, <1>9 DEF Empty, BoundInv, TypeOK
  <2>3. BufferInv'
    BY <1>0, <1>9 DEF Empty, BufferInv, OncePerSend, Over, host
  <2> QED BY <1>1, <2>1, <2>2, <2>3
<1> QED BY <1>2, <1>3, <1>4, <1>5, <1>6, <1>7, <1>8, <1>9 DEF Thread

LEMMA BootloaderStep == Inv /\ Bootloader => Inv'
<1> SUFFICES ASSUME Inv, Bootloader PROVE Inv'
  OBVIOUS
<1> USE Limits DEF Inv
<1>1. program = "boot" /\ UNCHANGED <<program, app, host, faults>>
  BY DEF Bootloader, BlMain, BlTimer
<1>2. SendInv'
  BY <1>1 DEF host, SendInv, Packets
<1>3. CASE Poll \/ TestTail \/ Enter \/ Leave \/ ResetTail \/ ResetFinish
  <2> DEFINE At == {"poll", "tail", "enter", "route", "done", "empty", "finish"}
  <2>4. /\ pc' \in At /\ recv' \in Seq(Bytes) /\ processing' \in BOOLEAN
        /\ processing' <=> pc' \in {"route", "done"}
    <3>1. CASE Poll
      BY <1>1, <3>1 DEF Poll, TypeOK
    <3>2. CASE TestTail
      BY <1>1, <3>2 DEF TestTail, TypeOK
    <3>3. CASE Enter
      BY <1>1, <3>3 DEF Enter, TypeOK
    <3>4. CASE Leave
      BY <1>1, <3>4 DEF Leave, TypeOK
    <3>5. CASE ResetTail
      BY <1>1, <3>5 DEF ResetTail, TypeOK
    <3>6. CASE ResetFinish
      BY <1>1, <3>6 DEF ResetFinish, TypeOK
    <3> QED BY <1>3, <3>1, <3>2, <3>3, <3>4, <3>5, <3>6
  <2>5. finish' \in BOOLEAN /\ timer' \in {"off", "on", "due"} /\ UNCHANGED <<answer, executed>>
    BY <1>1, <1>3 DEF Poll, TestTail, Enter, Leave, ResetTail, ResetFinish, TypeOK, boot
  <2>1. TypeOK'
    BY <1>1, <2>4, <2>5 DEF TypeOK, app, host
  <2>2. BoundInv'
    BY <1>1, <1>3 DEF Poll, TestTail, Enter, Leave, ResetTail, ResetFinish, BoundInv, TypeOK
  <2>3. BufferInv'
    BY <1>1, <1>3 DEF Poll, TestTail, Enter, Leave, ResetTail, ResetFinish,
                      BufferInv, OncePerSend, Over, host
  <2> QED BY <1>2, <2>1, <2>2, <2>3
<1>4. CASE BlRoute
  <2>1. executed' \in Nat /\ executed' <= attempts /\ answer' \in {"none", "ok", "crc"}
    BY <1>4, Execution DEF BlRoute
  <2>2. TypeOK'
    BY <1>1, <1>4, <2>1 DEF BlRoute, TypeOK, app, boot, host
  <2>3. BoundInv'
    BY <1>1, <1>4 DEF BlRoute, BoundInv
  <2>4. BufferInv'
    BY <1>1, <1>4, <2>1 DEF BlRoute, BufferInv, OncePerSend, Over, host
  <2> QED BY <1>2, <2>2, <2>3, <2>4
<1>5. CASE BlTimer
  <2>1. finish' \in BOOLEAN /\ timer' \in {"off", "on", "due"}
    BY <1>5 DEF BlTimer, Due, RecvTimeout, TypeOK
  <2>2. UNCHANGED <<pc, recv, processing, answer, executed>>
    BY <1>5 DEF BlTimer
  <2>3. TypeOK'
    BY <1>1, <2>1, <2>2 DEF TypeOK, app, host
  <2>4. BoundInv'
    BY <1>1, <2>2 DEF BoundInv
  <2>5. BufferInv'
    BY <1>1, <2>2 DEF BufferInv, OncePerSend, Over, host
  <2> QED BY <1>2, <2>3, <2>4, <2>5
<1> QED BY <1>3, <1>4, <1>5 DEF Bootloader, BlMain

LEMMA SendStep == Inv /\ Send => Inv'
<1> SUFFICES ASSUME Inv, Send PROVE Inv'
  OBVIOUS
<1> USE Limits DEF Inv
<1>1. /\ cur \in Packets /\ ~waiting /\ sent < Length[cur]
      /\ sent' = sent + 1 /\ waiting' = (sent' = Length[cur])
      /\ attempts' = IF sent = 0 THEN attempts + 1 ELSE attempts
      /\ answer' = IF waiting' THEN "none" ELSE answer
      /\ UNCHANGED <<program, pc, processing, finish, cur, executed>>
  BY Lengths DEF Send, SendInv, TypeOK
<1>2. <<cur, sent + 1>> \in Bytes /\ Bad \in Bytes
  <2>1. sent + 1 \in 1 .. RecvMax
    BY <1>1, Lengths DEF TypeOK
  <2> QED BY <1>1, <2>1 DEF Bytes
<1>3. faults' \in 0 .. MaxFaults
  BY Limits DEF Send, Fault, TypeOK
<1>4. \/ Arrives(<<cur, sent + 1>>) \/ Arrives(Bad) \/ UNCHANGED <<recv, sem, lag, timer>>
  BY DEF Send, app
<1>5. /\ recv' \in Seq(Bytes) /\ sem' \in BOOLEAN /\ lag' \in 0 .. Slack
      /\ timer' \in {"off", "on", "due"}
      /\ BoundInv'
      /\ \A i \in 1 .. Len(recv') : \/ recv'[i] = <<cur, sent + 1>> \/ recv'[i] = Bad
                                    \/ i \in 1 .. Len(recv) /\ recv'[i] = recv[i]
  <2>1. CASE Arrives(<<cur, sent + 1>>)
    BY <1>1, <1>2, <2>1, Arrival
  <2>2. CASE Arrives(Bad)
    BY <1>1, <1>2, <2>2, Arrival
  <2>3. CASE UNCHANGED <<recv, sem, lag, timer>>
    BY <1>1, <2>3 DEF TypeOK, BoundInv
  <2> QED BY <1>4, <2>1, <2>2, <2>3
<1>6. TypeOK'
  <2>1. sent' \in 0 .. RecvMax /\ attempts' \in Nat /\ waiting' \in BOOLEAN
    BY <1>1, Lengths DEF TypeOK
  <2>2. answer' \in {"none", "ok", "crc"}
    BY <1>1 DEF TypeOK
  <2> QED BY <1>1, <1>3, <1>5, <2>1, <2>2 DEF TypeOK
<1>7. SendInv'
  <2> DEFINE n == Length[cur]
  <2>1. n \in Nat /\ sent \in Nat /\ sent < n /\ sent' = sent + 1
    BY <1>1, Lengths DEF TypeOK
  <2>2. cur' = cur /\ cur' \in Packets' /\ (waiting' <=> sent' = n)
    BY <1>1 DEF Packets
  <2> HIDE DEF n
  <2>3. sent' <= n
    BY <2>1
  <2>4. Length[cur'] = n
    BY <2>2 DEF n
  <2> QED BY <2>2, <2>3, <2>4 DEF SendInv
<1>8. executed <= attempts /\ attempts <= attempts' /\ (sent = 0 => executed < attempts')
  BY <1>1 DEF BufferInv, OncePerSend, TypeOK
<1>9. ASSUME ~Over', NEW i \in 1 .. Len(recv')
      PROVE  /\ recv'[i] = Bad \/ recv'[i][1] = cur
             /\ recv'[i] = <<cur, 1>> => executed < attempts'
  <2>1. ~Over
    BY <1>1, <1>9 DEF Over
  <2>2. CASE recv'[i] = <<cur, sent + 1>>
    BY <1>1, <1>8, <2>2 DEF TypeOK
  <2>3. CASE recv'[i] = Bad
    BY <1>1, <2>3 DEF Bad
  <2>4. CASE i \in 1 .. Len(recv) /\ recv'[i] = recv[i]
    BY <1>1, <1>8, <2>1, <2>4 DEF BufferInv, TypeOK
  <2> QED BY <1>5, <2>2, <2>3, <2>4
<1>10. ~Over' /\ waiting' /\ answer' # "none" => \A i \in 1 .. Len(recv') : recv'[i] = Bad
  BY <1>1
<1>11. BufferInv'
  <2>1. OncePerSend'
    BY <1>1, <1>8 DEF OncePerSend, TypeOK
  <2> QED BY <1>1, <1>9, <1>10, <2>1 DEF BufferInv
<1> QED BY <1>5, <1>6, <1>7, <1>11

(* The host is at the start of a packet *)
LEMMA Restarted == sent' = 0 /\ waiting' = FALSE => SendInv'
<1> SUFFICES ASSUME sent' = 0, waiting' = FALSE PROVE SendInv'
  OBVIOUS
<1>1. ASSUME cur' \in Packets PROVE 0 <= Length[cur'] /\ 0 # Length[cur']
  <2>1. Length[cur'] \in Nat /\ Length[cur'] >= 1
    BY <1>1, Lengths
  <2> QED BY <2>1
<1> QED BY <1>1 DEF SendInv, Packets

LEMMA AnsweredStep == Inv /\ Answered => Inv'
<1> SUFFICES ASSUME Inv, Answered PROVE Inv'
  OBVIOUS
<1> USE Limits DEF Inv
<1>1. /\ waiting /\ answer # "none" /\ answer' = "none"
      /\ sent' = 0 /\ waiting' = FALSE
      /\ UNCHANGED <<program, pc, recv, sem, processing, lag, finish, timer, faults>>
  BY DEF Answered, Again, device, app, boot
<1>2. \/ cur' = cur + 1 /\ attempts' = 0 /\ executed' = 0
      \/ UNCHANGED <<cur, attempts, executed>>
  BY DEF Answered, Again
<1>3. cur \in Packets
  BY <1>1 DEF SendInv
<1>4. TypeOK'
  <2>1. cur' \in 1 .. Len(Length) + 1 /\ sent' \in 0 .. RecvMax
    BY <1>1, <1>2, <1>3, Limits DEF TypeOK
  <2>2. attempts' \in Nat /\ executed' \in Nat
    BY <1>2 DEF TypeOK
  <2>3. waiting' \in BOOLEAN /\ answer' \in {"none", "ok", "crc"}
    BY <1>1
  <2> QED BY <1>1, <2>1, <2>2, <2>3 DEF TypeOK
<1>5. SendInv'
  BY <1>1, Restarted
<1>6. BoundInv'
  BY <1>1 DEF BoundInv
<1>7. ~Over => \A i \in 1 .. Len(recv) : recv[i] = Bad
  BY <1>1 DEF BufferInv
<1>8. cur' # 0
  BY <1>4 DEF TypeOK
<1>9. BufferInv'
  BY <1>1, <1>2, <1>7, <1>8 DEF BufferInv, OncePerSend, Over, Bad
<1> QED BY <1>4, <1>5, <1>6, <1>9

LEMMA TimeoutStep == Inv /\ HostTimeout => Inv'
<1> SUFFICES ASSUME Inv, HostTimeout PROVE Inv'
  OBVIOUS
<1> USE Limits DEF Inv
<1>1. /\ waiting /\ sent' = 0 /\ waiting' = FALSE
      /\ UNCHANGED <<program, pc, recv, sem, processing, lag, finish, timer,
                  cur, attempts, executed, answer, faults>>
  BY DEF HostTimeout, Again, device, app, boot
<1>2. TypeOK'
  <2>1. sent' \in 0 .. RecvMax /\ waiting' \in BOOLEAN
    BY <1>1, Limits
  <2> QED BY <1>1, <2>1 DEF TypeOK
<1>3. SendInv'
  BY <1>1, Restarted
<1>4. BoundInv'
  BY <1>1 DEF BoundInv
<1>5. BufferInv'
  BY <1>1 DEF BufferInv, OncePerSend, Over
<1> QED BY <1>2, <1>3, <1>4, <1>5

LEMMA LossStep == Inv /\ AnswerLost => Inv'
<1> SUFFICES ASSUME Inv, AnswerLost PROVE Inv'
  OBVIOUS
<1> USE Limits DEF Inv
<1>1. /\ answer' = "none" /\ faults' \in 0 .. MaxFaults
      /\ UNCHANGED <<device, host, executed>>
  BY Limits DEF AnswerLost, Fault, TypeOK
<1>2. TypeOK'
  BY <1>1 DEF TypeOK, device, app, boot, host
<1>3. SendInv'
  BY <1>1 DEF SendInv, host, Packets
<1>4. BoundInv'
  BY <1>1 DEF BoundInv, device, app
<1>5. BufferInv'
  BY <1>1 DEF BufferInv, OncePerSend, Over, device, host
<1> QED BY <1>2, <1>3, <1>4, <1>5

LEMMA NoiseStep == Inv /\ Noise => Inv'
<1> SUFFICES ASSUME Inv, Noise PROVE Inv'
  OBVIOUS
<1> USE Limits DEF Inv
<1>1. /\ Arrives(Bad) /\ faults' \in 0 .. MaxFaults
      /\ UNCHANGED <<program, pc, processing, finish, host, answer, executed>>
  BY Limits DEF Noise, Fault, TypeOK
<1>2. /\ recv' \in Seq(Bytes) /\ sem' \in BOOLEAN /\ lag' \in 0 .. Slack
      /\ timer' \in {"off", "on", "due"}
      /\ BoundInv'
      /\ \A i \in 1 .. Len(recv') : recv'[i] = Bad \/ (i \in 1 .. Len(recv) /\ recv'[i] = recv[i])
  <2>1. Bad \in Bytes
    BY DEF Bytes
  <2> QED BY <1>1, <2>1, Arrival
<1>3. TypeOK'
  BY <1>1, <1>2 DEF TypeOK, host
<1>4. SendInv'
  BY <1>1 DEF SendInv, host, Packets
<1>5. Bad # <<cur, 1>>
  BY DEF Bad
<1>6. BufferInv'
  BY <1>1, <1>2, <1>5 DEF BufferInv, OncePerSend, Over, host
<1> QED BY <1>2, <1>3, <1>4, <1>6

LEMMA StepInv == Inv /\ [Next]_vars => Inv'
<1> SUFFICES ASSUME Inv, [Next]_vars PROVE Inv'
  OBVIOUS
<1>1. CASE Thread
  BY <1>1, ThreadStep
<1>6. CASE Bootloader
  BY <1>6, BootloaderStep
<1>2. CASE Host
  BY <1>2, SendStep, AnsweredStep, TimeoutStep DEF Host
<1>3. CASE AnswerLost
  BY <1>3, LossStep
<1>4. CASE Noise
  BY <1>4, NoiseStep
<1>5. CASE UNCHANGED vars
  BY <1>5 DEF vars, device, app, boot, host, Inv, TypeOK, SendInv, BoundInv, BufferInv, OncePerSend,
              Over, Packets
<1> QED BY <1>1, <1>2, <1>3, <1>4, <1>5, <1>6 DEF Next

LEMMA Invariance == Spec => []Inv
<1> QED BY InitInv, StepInv, PTL DEF Spec

----------------------------------------------------------------------------
(* The types of the receiving side, for all packets and faults               *)
(* (pp_host_handle_t of pp_host.h).                                           *)
THEOREM TypeCorrect == Spec => []TypeOK
<1>1. Inv => TypeOK
  BY DEF Inv
<1> QED BY <1>1, Invariance, PTL

(* The interrupt never writes behind recv_buffer, as long as fewer bytes than *)
(* half of the reserve come in a turn of the thread (pp_host.c:48, :107).     *)
THEOREM BoundsSafe == Spec => []InBounds
<1>1. Inv => InBounds
  BY Limits DEF Inv, TypeOK, BoundInv, InBounds
<1> QED BY <1>1, Invariance, PTL

(* No packet is executed more often than it was sent, whatever the line does  *)
(* to its bytes and its answers (pp_host.c:111-116).                          *)
THEOREM OncePerSendSafe == Spec => []OncePerSend
<1>1. Inv => OncePerSend
  BY DEF Inv, BufferInv
<1> QED BY <1>1, Invariance, PTL

----------------------------------------------------------------------------
(* Each fault costs two repetitions at most: how often the host may have      *)
(* begun, by what the sending that is under way may still come to             *)

Budget == 2 + 2 * faults

(* What is in the buffer is the first n bytes of the packet. *)
Begun(n) ==
  /\ cur \in Packets
  /\ Len(recv) = n
  /\ \A i \in 1 .. n : recv[i] = <<cur, i>>

(* No answer comes of what is in the buffer, whatever is appended: it does    *)
(* not begin with a code, or is too long for what its head tells.             *)
Mute ==
  \/ recv = <<>>
  \/ \A p \in Packets : recv[1] # <<p, 1>>
  \/ \E p \in Packets : Headed(p) /\ Len(recv) > Length[p]

(* Nor if it is going to be thrown away. *)
Deaf == Over \/ Mute

(* In the bootloader a time-out is under way for what is in the buffer, or    *)
(* main is about to see that it is over, or at work.                          *)
Pending ==
  program = "boot" /\ recv # <<>> =>
    \/ timer = "on"
    \/ timer = "due" /\ pc # "finish"
    \/ finish /\ pc \in {"poll", "tail"}
    \/ pc \in {"enter", "route", "done", "empty"}

(* The device takes bytes in and, when the packet is complete, its end. *)
Listening ==
  \/ /\ program = "app"
     /\ pc \in {"reset", "take", "check"} \/ (waiting /\ pc \in {"expired", "route"})
  \/ /\ program = "boot"
     /\ \/ timer = "on" /\ (pc = "finish" \/ (pc = "poll" /\ ~finish))
        \/ waiting /\ timer = "due" /\ pc = "poll" /\ ~finish
        \/ waiting /\ timer = "off" /\ finish /\ pc \in {"poll", "tail", "enter", "route"}

(* The packet is sure to be executed, or is, if no fault is to come; *)
Heard ==
  \/ Listening /\ Begun(sent) /\ (waiting => answer = "none")
  \/ waiting /\ answer = "ok" /\ Deaf

(* or sure not to be answered, and to leave an empty buffer; *)
Torn == Deaf /\ Pending /\ (IF waiting THEN answer = "none" ELSE timer # "due")

(* or may be answered with an error, and once only, *)
Spent == waiting /\ answer # "none" => Deaf

(* and may leave all of itself in the buffer, but nothing else. *)
Emptied == recv = <<>> /\ pc = "enter"

Broken ==
  /\ Spent
  /\ Emptied /\ waiting => answer # "crc"
  /\ Pending \/ Deaf \/ Begun(sent)

Within ==
  \/ Heard /\ attempts <= Budget
  \/ Torn /\ attempts <= Budget - 1
  \/ Broken /\ attempts <= Budget - 2
  \/ Spent /\ attempts <= Budget - 3

(* Between two sendings the device waits for the next, or throws it away, for *)
(* what is left in the buffer makes it too long, or may do anything.          *)
Ready == recv = <<>> /\ pc \notin {"enter", "route", "done", "empty"}

LeftOver ==
  /\ program = "boot" /\ pc = "poll" /\ ~finish /\ timer = "off"
  /\ cur \in Packets /\ Begun(Length[cur])

Between ==
  \/ Ready /\ attempts <= Budget - 1
  \/ (Deaf \/ LeftOver) /\ ~Emptied /\ attempts <= Budget - 2
  \/ attempts <= Budget - 3

WorkInv ==
  /\ program = "app" => timer = "off" /\ (pc \in {"route", "done", "empty"} => recv # <<>>)
  /\ program = "boot" /\ pc # "poll" => finish

(* Without a fault the bootloader has but one thing to do at a time. *)
AloneInv ==
  program = "boot" /\ faults = 0 =>
    /\ timer # "off" => sent # 0 /\ (waiting => answer = "none")
    /\ timer = "due" => waiting
    /\ pc \in {"tail", "enter", "route"} \/ (finish /\ pc = "poll") =>
         waiting /\ answer = "none" /\ timer = "off"

TornInv == WorkInv /\ AloneInv /\ (IF sent = 0 THEN Between ELSE Within)

----------------------------------------------------------------------------
(* What is in the buffer *)

LEMMA BegunWhole ==
  ASSUME TypeOK, cur \in Packets, Begun(Length[cur])
  PROVE  Whole(cur)
<1> DEFINE n == Length[cur]
<1>1. n \in Nat
  BY Lengths
<1>2. recv \in [1 .. n -> Bytes]
  BY DEF TypeOK, Begun
<1>3. \A i \in 1 .. n : recv[i] = <<cur, i>>
  BY DEF Begun
<1> HIDE DEF n
<1>4. recv = [i \in 1 .. n |-> <<cur, i>>]
  BY <1>2, <1>3
<1> QED BY <1>4 DEF Whole, n

LEMMA WholeIs ==
  ASSUME TypeOK, NEW p \in Packets, Whole(p)
  PROVE  Len(recv) = Length[p] /\ \A i \in 1 .. Length[p] : recv[i] = <<p, i>>
<1> DEFINE n == Length[p]
<1>1. n \in Nat /\ n >= 1
  BY Lengths
<1>2. recv = [i \in 1 .. n |-> <<p, i>>]
  BY DEF Whole
<1>3. Len(recv) \in Nat /\ DOMAIN recv = 1 .. Len(recv)
  BY DEF TypeOK
<1> HIDE DEF n
<1>4. Len(recv) = n
  <2>1. n \in DOMAIN recv
    BY <1>1, <1>2
  <2>2. Len(recv) >= n
    BY <1>1, <1>3, <2>1
  <2>3. Len(recv) \in DOMAIN recv
    BY <1>1, <1>3, <2>2
  <2>4. Len(recv) \in 1 .. n
    <3>1. DOMAIN recv = 1 .. n
      BY <1>2
    <3> QED BY <2>3, <3>1, Zenon
  <2>5. Len(recv) \in Nat
    BY <1>3
  <2> QED BY <1>1, <2>2, <2>4, <2>5
<1>5. \A i \in 1 .. n : recv[i] = <<p, i>>
  BY <1>2
<1> QED BY <1>4, <1>5 DEF n

LEMMA HeadedCode ==
  ASSUME NEW p \in Packets, Headed(p)
  PROVE  recv[1] = <<p, 1>> /\ Len(recv) >= HeadLength
<1>1. HeadLength \in Nat /\ HeadLength >= 1
  BY LinkAssumption
<1> QED BY <1>1 DEF Headed

LEMMA MuteSilent ==
  ASSUME TypeOK, Mute, Operate
  PROVE  UNCHANGED <<answer, executed>>
<1>1. ASSUME NEW p \in Packets, Whole(p) PROVE FALSE
  <2>1. Length[p] \in Nat /\ Length[p] >= 1
    BY <1>1, Lengths
  <2>2. Len(recv) = Length[p] /\ recv[1] = <<p, 1>>
    BY <1>1, <2>1, WholeIs
  <2>3. recv # <<>>
    BY <2>1, <2>2
  <2>4. PICK q \in Packets : Headed(q) /\ Len(recv) > Length[q]
    BY <1>1, <2>2, <2>3 DEF Mute
  <2>5. recv[1] = <<q, 1>>
    BY <2>4, HeadedCode
  <2>6. q = p
    BY <2>2, <2>5
  <2> QED BY <2>1, <2>2, <2>4, <2>6
<1>2. ~Framed
  <2> SUFFICES ASSUME Framed PROVE FALSE
    OBVIOUS
  <2>1. Len(recv) >= HeadLength /\ HeadLength \in Nat /\ HeadLength >= 1
    BY LinkAssumption DEF Framed
  <2>2. recv # <<>>
    BY <2>1
  <2>3. PICK q \in Packets : Headed(q) /\ Len(recv) > Length[q]
    BY <2>2 DEF Mute, Framed
  <2>4. Len(recv) = Length[q] /\ Length[q] \in Nat
    BY <2>3, Lengths DEF Framed
  <2> QED BY <2>3, <2>4
<1> QED BY <1>1, <1>2 DEF Operate

(* A byte is appended to something. *)
LEMMA Appended ==
  ASSUME TypeOK, NEW b \in Bytes, recv' = Append(recv, b)
  PROVE  /\ recv' # <<>> /\ Len(recv) \in Nat /\ Len(recv') = Len(recv) + 1
         /\ \A i \in 1 .. Len(recv) : recv'[i] = recv[i]
         /\ recv'[Len(recv) + 1] = b
<1>1. recv \in Seq(Bytes)
  BY DEF TypeOK
<1>2. /\ Len(recv) \in Nat /\ Len(recv') = Len(recv) + 1
      /\ \A i \in 1 .. Len(recv) : recv'[i] = recv[i]
      /\ recv'[Len(recv) + 1] = b
  BY <1>1
<1>3. recv' # <<>>
  BY <1>2
<1> QED BY <1>2, <1>3

LEMMA HeadedStays ==
  ASSUME TypeOK, NEW b \in Bytes, recv' = Append(recv, b), NEW p \in Packets, Headed(p)
  PROVE  Headed(p)'
<1>1. HeadLength \in Nat /\ Len(recv) >= HeadLength
  BY LinkAssumption DEF Headed
<1>2. \A i \in 1 .. HeadLength : recv'[i] = recv[i]
  BY <1>1, Appended
<1>3. Len(recv') >= HeadLength
  BY <1>1, Appended
<1> QED BY <1>2, <1>3 DEF Headed

LEMMA MuteGrows ==
  ASSUME TypeOK, NEW b \in Bytes, recv' = Append(recv, b),
         Mute, recv = <<>> => \A p \in Packets : b # <<p, 1>>
  PROVE  Mute'
<1>1. CASE recv = <<>>
  <2>1. recv'[1] = b
    BY <1>1, Appended
  <2> QED BY <1>1, <2>1 DEF Mute, Packets
<1>2. CASE recv # <<>>
  <2>1. Len(recv) \in Nat /\ Len(recv) >= 1
    BY <1>2 DEF TypeOK
  <2>2. recv'[1] = recv[1]
    BY <2>1, Appended
  <2>3. CASE \A p \in Packets : recv[1] # <<p, 1>>
    BY <2>2, <2>3 DEF Mute, Packets
  <2>4. CASE \E p \in Packets : Headed(p) /\ Len(recv) > Length[p]
    <3>1. PICK p \in Packets : Headed(p) /\ Len(recv) > Length[p]
      BY <2>4
    <3>2. Headed(p)'
      BY <3>1, HeadedStays
    <3>3. Len(recv') > Length[p]
      BY <3>1, Appended, Lengths
    <3> QED BY <3>2, <3>3 DEF Mute, Packets
  <2> QED BY <1>2, <2>3, <2>4 DEF Mute
<1> QED BY <1>1, <1>2

LEMMA BegunGrows ==
  ASSUME TypeOK, cur \in Packets, Begun(sent), <<cur, sent + 1>> \in Bytes,
         recv' = Append(recv, <<cur, sent + 1>>), sent' = sent + 1, cur' = cur
  PROVE  Begun(sent)'
<1>1. sent \in Nat /\ Len(recv) = sent
  BY DEF TypeOK, Begun
<1>2. Len(recv') = sent + 1 /\ recv'[sent + 1] = <<cur, sent + 1>>
  BY <1>1, Appended
<1>3. \A i \in 1 .. sent : recv'[i] = <<cur, i>>
  BY <1>1, Appended DEF Begun
<1>4. \A i \in 1 .. sent + 1 : i \in 1 .. sent \/ i = sent + 1
  BY <1>1
<1>5. \A i \in 1 .. sent + 1 : recv'[i] = <<cur, i>>
  BY <1>2, <1>3, <1>4
<1> QED BY <1>2, <1>5 DEF Begun, Packets

LEMMA NothingBegun == ASSUME TypeOK, cur \in Packets, sent = 0, recv = <<>> PROVE Begun(sent)
BY DEF Begun

LEMMA TooLong ==
  ASSUME TypeOK, NEW b \in Bytes, recv' = Append(recv, b), cur \in Packets, Begun(Length[cur])
  PROVE  Mute'
<1>1. Length[cur] \in Nat /\ Len(recv) = Length[cur] /\ HeadLength \in Nat /\ HeadLength <= Length[cur]
  <2> DEFINE S == HeadLength .. RecvMax
  <2>1. Length \in Seq(S)
    BY LinkAssumption
  <2> HIDE DEF S
  <2>2. Length[cur] \in S
    BY <2>1 DEF Packets
  <2> QED BY <2>2, LinkAssumption, Lengths DEF Begun, S
<1>2. PICK p \in Packets : p = cur
  OBVIOUS
<1>3. Headed(p) /\ Len(recv) = Length[p] /\ Length[p] \in Nat
  BY <1>1, <1>2 DEF Begun, Headed
<1>4. Headed(p)'
  BY <1>3, HeadedStays
<1>5. Len(recv') > Length[p]
  BY <1>3, Appended
<1> QED BY <1>4, <1>5 DEF Mute, Packets

----------------------------------------------------------------------------
(* The steps of the device *)

LEMMA SameBuffer ==
  ASSUME recv' = recv, UNCHANGED <<cur, sent>>
  PROVE  (Mute' <=> Mute) /\ (Begun(sent) => Begun(sent)')
BY DEF Mute, Headed, Begun, Packets

LEMMA OwnStep ==
  ASSUME Inv, TornInv, UNCHANGED <<attempts, faults, sent>>, WorkInv', AloneInv',
         sent = 0 => /\ Ready => Ready'
                     /\ (Deaf \/ LeftOver) /\ ~Emptied => (Deaf' \/ LeftOver') /\ ~Emptied',
         sent # 0 => /\ Heard => Heard'
                     /\ Torn => Torn'
                     /\ Broken => Broken'
                     /\ Spent => Spent'
  PROVE  TornInv'
<1>1. Budget' = Budget
  BY DEF Budget
<1>2. CASE sent = 0
  <2>1. Between'
    BY <1>1, <1>2 DEF TornInv, Between
  <2> QED BY <1>2, <2>1 DEF TornInv
<1>3. CASE sent # 0
  <2>1. Within'
    BY <1>1, <1>3 DEF TornInv, Within
  <2> QED BY <1>3, <2>1 DEF TornInv
<1> QED BY <1>2, <1>3

(* What is sent fits into the buffer, and is not nothing. *)
LEMMA BegunFits ==
  ASSUME Inv, sent # 0
  PROVE  /\ cur \in Packets /\ sent \in Nat /\ sent <= Length[cur] /\ Length[cur] <= RecvMax
         /\ Length[cur] \in Nat /\ (waiting => sent = Length[cur])
         /\ Begun(sent) => recv # <<>> /\ Len(recv) = sent /\ Len(recv) <= RecvMax
<1>1. cur \in Packets /\ sent \in Nat /\ sent <= Length[cur] /\ (waiting => sent = Length[cur])
  BY DEF Inv, TypeOK, SendInv
<1>2. Length[cur] \in Nat /\ Length[cur] <= RecvMax /\ RecvMax \in Nat
  BY <1>1, Lengths, Limits
<1>3. ASSUME Begun(sent) PROVE recv # <<>> /\ Len(recv) = sent
  <2>1. Len(recv) = sent
    BY <1>3 DEF Begun
  <2> QED BY <2>1
<1> QED BY <1>1, <1>2, <1>3

LEMMA ThreadTorn == Inv /\ TornInv /\ Thread => TornInv'
<1> SUFFICES ASSUME Inv, TornInv, Thread PROVE TornInv'
  OBVIOUS
<1>0. /\ program = "app" /\ program' = "app"
      /\ UNCHANGED <<finish, timer, cur, sent, attempts, waiting, faults>>
  BY DEF Thread, boot, host
<1>1. WorkInv /\ (sent = 0 => Between) /\ (sent # 0 => Within)
  BY DEF TornInv
<1>2. AloneInv'
  BY <1>0 DEF AloneInv
<1>3. ~Emptied /\ ~Emptied' /\ ~LeftOver /\ Pending /\ Pending'
  <2>1. pc # "enter" /\ pc' # "enter"
    BY <1>0 DEF Inv, TypeOK, Thread, SemReset, SemTake, CheckTail, Timeout, Expired, Route, Done, Empty
  <2> QED BY <1>0, <2>1 DEF Emptied, LeftOver, Pending
<1>4. CASE SemReset \/ SemTake \/ Timeout \/ Expired \/ Done
  <2>1. recv' = recv /\ answer' = answer
    BY <1>4 DEF SemReset, SemTake, Timeout, Expired, Done
  <2>2. (Mute' <=> Mute) /\ (Begun(sent) => Begun(sent)')
    BY <1>0, <2>1, SameBuffer
  <2>3. Deaf => Deaf'
    BY <1>4, <2>2 DEF Deaf, Over, SemReset, SemTake, Timeout, Expired, Done
  <2>4. WorkInv'
    BY <1>0, <1>1, <1>4, <2>1 DEF WorkInv, SemReset, SemTake, Timeout, Expired, Done
  <2>5. Ready => Ready'
    BY <1>4, <2>1 DEF Ready, SemReset, SemTake, Timeout, Expired, Done
  <2>6. Torn => Torn'
    BY <1>0, <1>3, <2>1, <2>3 DEF Torn
  <2>7. Spent => Spent'
    BY <1>0, <2>1, <2>3 DEF Spent
  <2>8. Broken => Broken'
    BY <1>3, <2>7 DEF Broken
  <2>9. ASSUME sent # 0, Heard PROVE Heard'
    <3>1. ASSUME Listening, Begun(sent) PROVE Listening'
      <4>1. recv # <<>>
        BY <2>9, <3>1, BegunFits
      <4> QED BY <1>0, <1>4, <2>9, <3>1, <4>1
              DEF Listening, SemReset, SemTake, Timeout, Expired, Done, Silent
    <3> QED BY <1>0, <2>1, <2>2, <2>3, <2>9, <3>1 DEF Heard
  <2> QED BY <1>0, <1>2, <1>3, <2>3, <2>4, <2>5, <2>6, <2>7, <2>8, <2>9, OwnStep
<1>5. CASE CheckTail
  <2>1. /\ pc = "check" /\ pc' = "reset" /\ answer' = answer
        /\ recv' = IF Len(recv) > RecvMax THEN <<>> ELSE recv
    BY <1>5 DEF CheckTail
  <2>2. Mute => Mute'
    BY <1>0, <2>1, SameBuffer DEF Mute
  <2>3. Deaf => Deaf'
    BY <2>1, <2>2 DEF Deaf, Over
  <2>4. WorkInv'
    BY <1>0, <1>1, <2>1 DEF WorkInv
  <2>5. Ready => Ready'
    BY <2>1 DEF Ready
  <2>6. Torn => Torn'
    BY <1>0, <1>3, <2>1, <2>3 DEF Torn
  <2>7. Spent => Spent'
    BY <1>0, <2>1, <2>3 DEF Spent
  <2>8. Broken => Broken'
    BY <1>3, <2>7 DEF Broken
  <2>9. ASSUME sent # 0, Heard PROVE Heard'
    <3>1. ASSUME Begun(sent) PROVE Begun(sent)'
      <4>1. recv' = recv
        BY <2>1, <2>9, <3>1, BegunFits, Limits
      <4> QED BY <1>0, <3>1, <4>1, SameBuffer
    <3>2. Listening'
      BY <1>0, <2>1 DEF Listening
    <3> QED BY <1>0, <2>1, <2>3, <2>9, <3>1, <3>2 DEF Heard
  <2> QED BY <1>0, <1>2, <1>3, <2>3, <2>4, <2>5, <2>6, <2>7, <2>8, <2>9, OwnStep
<1>6. CASE Route
  <2>1. pc = "route" /\ pc' = "done" /\ recv' = recv /\ Operate
    BY <1>6 DEF Route
  <2>2. Deaf'
    BY <2>1 DEF Deaf, Over
  <2>3. WorkInv'
    BY <1>0, <1>1, <2>1 DEF WorkInv
  <2>4. Deaf => answer' = answer
    BY <2>1, MuteSilent DEF Inv, Deaf, Over
  <2>5. ~Ready
    BY <2>1 DEF Ready
  <2>6. Torn => Torn'
    BY <1>0, <1>3, <2>2, <2>4 DEF Torn
  <2>7. Spent'
    BY <2>2 DEF Spent
  <2>8. Broken'
    BY <1>3, <2>7 DEF Broken
  <2>9. ASSUME sent # 0, Heard PROVE Heard'
    <3>1. CASE Listening /\ Begun(sent)
      <4>1. waiting
        BY <1>0, <2>1, <3>1 DEF Listening
      <4>2. Whole(cur) /\ cur \in Packets
        BY <2>9, <3>1, <4>1, BegunFits, BegunWhole DEF Inv
      <4>3. answer' = "ok"
        BY <2>1, <4>2 DEF Operate
      <4> QED BY <1>0, <2>2, <4>1, <4>3 DEF Heard
    <3>2. CASE waiting /\ answer = "ok" /\ Deaf
      BY <1>0, <2>2, <2>4, <3>2 DEF Heard
    <3> QED BY <2>9, <3>1, <3>2 DEF Heard
  <2> QED BY <1>0, <1>2, <1>3, <2>2, <2>3, <2>5, <2>6, <2>7, <2>8, <2>9, OwnStep
<1>7. CASE Empty
  <2>1. pc = "empty" /\ pc' = "reset" /\ recv' = <<>> /\ answer' = answer
    BY <1>7 DEF Empty
  <2>2. Deaf'
    BY <2>1 DEF Deaf, Mute
  <2>3. WorkInv'
    BY <1>0, <1>1, <2>1 DEF WorkInv
  <2>5. ~Ready
    BY <2>1 DEF Ready
  <2>6. Torn => Torn'
    BY <1>0, <1>3, <2>1, <2>2 DEF Torn
  <2>7. Spent'
    BY <2>2 DEF Spent
  <2>8. Broken'
    BY <1>3, <2>7 DEF Broken
  <2>9. Heard => Heard'
    BY <1>0, <2>1, <2>2 DEF Heard, Listening
  <2> QED BY <1>0, <1>2, <1>3, <2>2, <2>3, <2>5, <2>6, <2>7, <2>8, <2>9, OwnStep
<1> QED BY <1>4, <1>5, <1>6, <1>7 DEF Thread

LEMMA BootAlone ==
  ASSUME Inv, WorkInv, AloneInv, Bootloader
  PROVE  WorkInv' /\ AloneInv'
<1>0. /\ program = "boot" /\ program' = "boot"
      /\ UNCHANGED <<cur, sent, attempts, waiting, faults>>
  BY DEF Bootloader, BlMain, BlTimer, host
<1>1. timer' \in {"off", "on", "due"} /\ pc \in {"poll", "tail", "enter", "route", "done", "empty", "finish"}
      /\ finish \in BOOLEAN /\ timer \in {"off", "on", "due"}
  BY <1>0, BootloaderStep DEF Inv, TypeOK
<1>2. WorkInv'
  <2>1. CASE BlMain
    BY <1>0, <2>1 DEF WorkInv, BlMain, Poll, TestTail, Enter, BlRoute, Leave, ResetTail, ResetFinish, boot
  <2>2. CASE BlTimer
    BY <1>0, <2>2 DEF WorkInv, BlTimer, Due, RecvTimeout
  <2> QED BY <2>1, <2>2 DEF Bootloader
<1>3. AloneInv'
  <2> SUFFICES ASSUME faults = 0
               PROVE  /\ timer' # "off" => sent # 0 /\ (waiting => answer' = "none")
                      /\ timer' = "due" => waiting
                      /\ pc' \in {"tail", "enter", "route"} \/ (finish' /\ pc' = "poll") =>
                           waiting /\ answer' = "none" /\ timer' = "off"
    BY <1>0 DEF AloneInv
  <2>1. /\ timer # "off" => sent # 0 /\ (waiting => answer = "none")
        /\ timer = "due" => waiting
        /\ pc \in {"tail", "enter", "route"} \/ (finish /\ pc = "poll") =>
             waiting /\ answer = "none" /\ timer = "off"
    BY <1>0 DEF AloneInv
  <2>2. CASE BlMain
    BY <1>1, <2>1, <2>2 DEF BlMain, Poll, TestTail, Enter, BlRoute, Leave, ResetTail, ResetFinish, boot
  <2>3. CASE BlTimer /\ Due
    BY <1>1, <2>1, <2>3 DEF BlTimer, Due, Silent
  <2>4. CASE BlTimer /\ RecvTimeout
    BY <1>1, <2>1, <2>4 DEF BlTimer, RecvTimeout
  <2> QED BY <2>2, <2>3, <2>4 DEF Bootloader, BlTimer
<1> QED BY <1>2, <1>3

LEMMA MainTorn == Inv /\ TornInv /\ BlMain => TornInv'
<1> SUFFICES ASSUME Inv, TornInv, BlMain PROVE TornInv'
  OBVIOUS
<1>0. /\ program = "boot" /\ program' = "boot" /\ timer # "due" /\ timer' = timer
      /\ UNCHANGED <<cur, sent, attempts, waiting, faults>>
  BY DEF BlMain, Poll, TestTail, Enter, BlRoute, Leave, ResetTail, ResetFinish, boot, host
<1>1. WorkInv /\ AloneInv
  BY DEF TornInv
<1>2. WorkInv' /\ AloneInv'
  BY <1>1, BootAlone DEF Bootloader
<1>3. ~LeftOver
  BY DEF LeftOver, BlMain, Poll, TestTail, Enter, BlRoute, Leave, ResetTail, ResetFinish
<1>4. CASE Poll \/ TestTail \/ Enter \/ Leave \/ ResetFinish
  <2>1. recv' = recv /\ answer' = answer
    BY <1>4 DEF Poll, TestTail, Enter, Leave, ResetFinish
  <2>2. (Mute' <=> Mute) /\ (Begun(sent) => Begun(sent)')
    BY <1>0, <2>1, SameBuffer
  <2>3. Deaf => Deaf'
    BY <1>4, <2>2 DEF Deaf, Over, Poll, TestTail, Enter, Leave, ResetFinish
  <2>4. ~Emptied'
    BY <1>4, <2>1 DEF Emptied, Poll, TestTail, Enter, Leave, ResetFinish
  <2>5. Ready => Ready'
    BY <1>4, <2>1 DEF Ready, Poll, TestTail, Enter, Leave, ResetFinish
  <2>6. Pending => Pending'
    BY <1>0, <1>4, <2>1 DEF Pending, Poll, TestTail, Enter, Leave, ResetFinish, boot
  <2>7. Torn => Torn'
    BY <1>0, <2>1, <2>3, <2>6 DEF Torn
  <2>8. Spent => Spent'
    BY <1>0, <2>1, <2>3 DEF Spent
  <2>9. Broken => Broken'
    BY <2>2, <2>3, <2>4, <2>6, <2>8 DEF Broken
  <2>10. ASSUME sent # 0, Heard PROVE Heard'
    <3>1. ASSUME Listening, Begun(sent) PROVE Listening'
      <4>1. recv # <<>>
        BY <2>10, <3>1, BegunFits
      <4> QED BY <1>0, <1>4, <3>1, <4>1
              DEF Listening, Poll, TestTail, Enter, Leave, ResetFinish, boot
    <3> QED BY <1>0, <2>1, <2>2, <2>3, <2>10, <3>1 DEF Heard
  <2> QED BY <1>0, <1>2, <1>3, <2>3, <2>4, <2>5, <2>7, <2>8, <2>9, <2>10, OwnStep
<1>5. CASE BlRoute
  <2>1. pc = "route" /\ pc' = "done" /\ recv' = recv /\ Operate
    BY <1>5 DEF BlRoute
  <2>2. Deaf' /\ ~Emptied' /\ Pending'
    BY <2>1 DEF Deaf, Over, Emptied, Pending
  <2>3. Deaf => answer' = answer
    BY <2>1, MuteSilent DEF Inv, Deaf, Over
  <2>4. ~Ready
    BY <2>1 DEF Ready
  <2>5. Torn => Torn'
    BY <1>0, <2>2, <2>3 DEF Torn
  <2>6. Spent' /\ Broken'
    BY <2>2 DEF Spent, Broken
  <2>7. ASSUME sent # 0, Heard PROVE Heard'
    <3>1. CASE Listening /\ Begun(sent)
      <4>1. waiting
        BY <1>0, <2>1, <3>1 DEF Listening
      <4>2. Whole(cur) /\ cur \in Packets
        BY <2>7, <3>1, <4>1, BegunFits, BegunWhole DEF Inv
      <4>3. answer' = "ok"
        BY <2>1, <4>2 DEF Operate
      <4> QED BY <1>0, <2>2, <4>1, <4>3 DEF Heard
    <3>2. CASE waiting /\ answer = "ok" /\ Deaf
      BY <1>0, <2>2, <2>3, <3>2 DEF Heard
    <3> QED BY <2>7, <3>1, <3>2 DEF Heard
  <2> QED BY <1>0, <1>2, <2>2, <2>4, <2>5, <2>6, <2>7, OwnStep
<1>6. CASE ResetTail
  <2>1. pc = "empty" /\ pc' = "finish" /\ recv' = <<>> /\ answer' = answer
    BY <1>6 DEF ResetTail
  <2>2. Deaf' /\ ~Emptied' /\ Pending'
    BY <2>1 DEF Deaf, Mute, Emptied, Pending
  <2>3. ~Ready
    BY <2>1 DEF Ready
  <2>4. Torn => Torn'
    BY <1>0, <2>1, <2>2 DEF Torn
  <2>5. Spent' /\ Broken'
    BY <2>2 DEF Spent, Broken
  <2>6. Heard => Heard'
    BY <1>0, <2>1, <2>2 DEF Heard, Listening
  <2> QED BY <1>0, <1>2, <2>2, <2>3, <2>4, <2>5, <2>6, OwnStep
<1> QED BY <1>4, <1>5, <1>6 DEF BlMain

LEMMA TimerTorn == Inv /\ TornInv /\ BlTimer => TornInv'
<1> SUFFICES ASSUME Inv, TornInv, BlTimer PROVE TornInv'
  OBVIOUS
<1>0. /\ program = "boot" /\ program' = "boot"
      /\ UNCHANGED <<pc, recv, answer, cur, sent, attempts, waiting, faults>>
  BY DEF BlTimer, host
<1>1. WorkInv /\ AloneInv
  BY DEF TornInv
<1>2. WorkInv' /\ AloneInv'
  BY <1>1, BootAlone DEF Bootloader
<1>3. ~LeftOver
  BY DEF LeftOver, BlTimer, Due, RecvTimeout
<1>4. (Mute' <=> Mute) /\ (Begun(sent) => Begun(sent)')
  BY <1>0, SameBuffer
<1>5. Deaf => Deaf'
  BY <1>0, <1>4 DEF Deaf, Over
<1>6. (Ready => Ready') /\ (Emptied' <=> Emptied)
  BY <1>0 DEF Ready, Emptied
<1>7. Spent => Spent'
  BY <1>0, <1>5 DEF Spent
<1>8. pc \in {"poll", "tail", "enter", "route", "done", "empty", "finish"}
  BY <1>0 DEF Inv, TypeOK
<1>9. CASE Due
  <2>1. Pending => Pending'
    BY <1>0, <1>9 DEF Pending, Due
  <2>2. sent # 0 /\ Torn => Torn'
    BY <1>0, <1>5, <1>9, <2>1 DEF Torn, Due, Silent
  <2>3. Broken => Broken'
    BY <1>0, <1>4, <1>5, <1>6, <1>7, <2>1 DEF Broken
  <2>4. ASSUME sent # 0, Heard PROVE Heard'
    <3>1. ASSUME Listening, Begun(sent) PROVE Listening'
      <4>1. recv # <<>>
        BY <2>4, <3>1, BegunFits
      <4> QED BY <1>0, <1>9, <2>4, <3>1, <4>1 DEF Listening, Due, Silent
    <3> QED BY <1>0, <1>4, <1>5, <2>4, <3>1 DEF Heard
  <2> QED BY <1>0, <1>2, <1>3, <1>5, <1>6, <1>7, <2>2, <2>3, <2>4, OwnStep
<1>10. CASE RecvTimeout
  <2>1. Pending => Pending'
    BY <1>0, <1>8, <1>10 DEF Pending, RecvTimeout
  <2>2. Torn => Torn'
    BY <1>0, <1>5, <1>10, <2>1 DEF Torn, RecvTimeout
  <2>3. Broken => Broken'
    BY <1>0, <1>4, <1>5, <1>6, <1>7, <2>1 DEF Broken
  <2>4. Listening => Listening'
    BY <1>0, <1>10 DEF Listening, RecvTimeout
  <2>5. Heard => Heard'
    BY <1>0, <1>4, <1>5, <2>4 DEF Heard
  <2> QED BY <1>0, <1>2, <1>3, <1>5, <1>6, <1>7, <2>2, <2>3, <2>5, OwnStep
<1> QED BY <1>9, <1>10 DEF BlTimer

----------------------------------------------------------------------------
(* The steps of the line and of the host *)

(* The interrupt changes nothing but the buffer and what tells of it. *)
Interrupt(b) == Arrives(b) /\ UNCHANGED <<program, pc, processing, finish, cur>>

LEMMA StaysDeaf ==
  ASSUME Inv, NEW b \in Bytes, Interrupt(b), Deaf,
         Over \/ processing \/ (recv = <<>> => \A p \in Packets : b # <<p, 1>>)
  PROVE  Deaf'
<1>1. CASE Over
  BY <1>1 DEF Interrupt, Over, Deaf
<1>2. CASE ~Over /\ recv' = recv
  BY <1>2 DEF Interrupt, Deaf, Mute, Headed, Packets
<1>3. CASE recv' = <<>>
  BY <1>3 DEF Deaf, Mute
<1>4. CASE ~Over /\ ~processing /\ recv' = Append(recv, b)
  <2>1. Mute'
    BY <1>4, MuteGrows DEF Deaf, Inv
  <2> QED BY <2>1 DEF Deaf
<1> QED BY <1>1, <1>2, <1>3, <1>4 DEF Interrupt, Arrives, IrqDeal, RecvData

LEMMA NowPending ==
  ASSUME Inv, NEW b \in Bytes, Interrupt(b), program = "boot" => timer # "due" \/ (Pending /\ recv # <<>>)
  PROVE  Pending'
<1> SUFFICES ASSUME program = "boot", recv' # <<>> PROVE Pending'
  BY DEF Pending, Interrupt
<1>1. CASE processing
  BY <1>1 DEF Inv, TypeOK, Interrupt, Pending
<1>2. CASE ~processing
  <2>1. timer' = IF timer = "due" THEN "due" ELSE "on"
    BY <1>2 DEF Interrupt, Arrives, RecvData
  <2>2. CASE timer # "due"
    BY <2>1, <2>2 DEF Pending
  <2>3. CASE timer = "due" /\ Pending /\ recv # <<>>
    BY <2>1, <2>3 DEF Pending, Interrupt
  <2> QED BY <2>2, <2>3
<1> QED BY <1>1, <1>2

LEMMA WorkGoesOn ==
  ASSUME Inv, WorkInv, NEW b \in Bytes, Interrupt(b)
  PROVE  WorkInv'
<1>1. CASE program = "app"
  <2>1. timer' = timer /\ (recv # <<>> => recv' # <<>>)
    <3>1. recv' = recv \/ recv' = Append(recv, b)
      BY <1>1 DEF Interrupt, Arrives, IrqDeal
    <3>2. timer' = timer
      BY <1>1 DEF Interrupt, Arrives, IrqDeal
    <3> QED BY <3>1, <3>2, Appended DEF Inv
  <2> QED BY <1>1, <2>1 DEF WorkInv, Interrupt
<1>2. CASE program # "app"
  BY <1>2 DEF WorkInv, Interrupt
<1> QED BY <1>1, <1>2

(* A fault raises what is allowed by two. *)
LEMMA FaultBudget == Inv /\ Fault => Budget' = Budget + 2 /\ Budget \in Nat /\ attempts \in Nat /\ AloneInv'
BY DEF Inv, TypeOK, Fault, Budget, AloneInv

LEMMA AnswerLostTorn == Inv /\ TornInv /\ AnswerLost => TornInv'
<1> SUFFICES ASSUME Inv, TornInv, AnswerLost PROVE TornInv'
  OBVIOUS
<1>0. /\ answer' = "none"
      /\ UNCHANGED <<program, pc, recv, finish, timer, cur, sent, attempts, waiting>>
  BY DEF AnswerLost, device, boot, host
<1>1. Budget' = Budget + 2 /\ Budget \in Nat /\ attempts \in Nat /\ AloneInv'
  BY FaultBudget DEF AnswerLost
<1>2. WorkInv'
  BY <1>0 DEF TornInv, WorkInv
<1>3. CASE sent = 0
  BY <1>0, <1>1, <1>2, <1>3 DEF TornInv, Between
<1>4. CASE sent # 0
  <2>1. Spent'
    BY <1>0 DEF Spent
  <2>2. attempts <= Budget
    BY <1>1, <1>4 DEF TornInv, Within
  <2>3. ASSUME Heard PROVE Broken'
    <3>1. Deaf' \/ Begun(sent)'
      BY <1>0, <2>3, SameBuffer DEF Heard, Deaf, Over
    <3> QED BY <1>0, <2>1, <3>1 DEF Broken
  <2>4. Within'
    BY <1>0, <1>1, <1>4, <2>1, <2>2, <2>3 DEF TornInv, Within
  <2> QED BY <1>0, <1>1, <1>2, <1>4, <2>4 DEF TornInv
<1> QED BY <1>3, <1>4

LEMMA NoiseTorn == Inv /\ TornInv /\ Noise => TornInv'
<1> SUFFICES ASSUME Inv, TornInv, Noise PROVE TornInv'
  OBVIOUS
<1>0. /\ Bad \in Bytes /\ Interrupt(Bad)
      /\ UNCHANGED <<program, pc, processing, finish, cur, sent, attempts, waiting, answer>>
  BY DEF Noise, host, Interrupt, Bytes
<1>1. Budget' = Budget + 2 /\ Budget \in Nat /\ attempts \in Nat /\ AloneInv'
  BY FaultBudget DEF Noise
<1>2. WorkInv'
  BY <1>0, WorkGoesOn DEF TornInv
<1>3. CASE sent = 0
  BY <1>0, <1>1, <1>2, <1>3 DEF TornInv, Between
<1>4. CASE sent # 0
  <2>1. Deaf => Deaf'
    BY <1>0, StaysDeaf DEF Bad, Packets
  <2>2. Heard \/ Torn \/ Spent => Spent'
    BY <1>0, <2>1 DEF Heard, Torn, Spent
  <2>3. ASSUME Heard PROVE Broken'
    <3>1. Pending' \/ Deaf'
      <4>1. CASE Listening /\ Begun(sent)
        <5>1. recv # <<>>
          BY <1>4, <4>1, BegunFits
        <5>2. program = "boot" => timer # "due" \/ (Pending /\ recv # <<>>)
          BY <4>1, <5>1 DEF Listening, Pending
        <5> QED BY <1>0, <5>2, NowPending
      <4>2. CASE Deaf
        BY <2>1, <4>2
      <4> QED BY <2>3, <4>1, <4>2 DEF Heard
    <3>2. waiting => answer # "crc"
      BY <2>3 DEF Heard
    <3> QED BY <1>0, <2>2, <2>3, <3>1, <3>2 DEF Broken
  <2>4. Within'
    BY <1>0, <1>1, <1>4, <2>2, <2>3 DEF TornInv, Within, Broken
  <2> QED BY <1>0, <1>1, <1>2, <1>4, <2>4 DEF TornInv
<1> QED BY <1>3, <1>4

LEMMA TimeoutTorn == Inv /\ TornInv /\ HostTimeout => TornInv'
<1> SUFFICES ASSUME Inv, TornInv, HostTimeout PROVE TornInv'
  OBVIOUS
<1>0. /\ waiting /\ answer = "none" /\ Quiet /\ sent' = 0 /\ ~waiting'
      /\ UNCHANGED <<program, pc, recv, processing, finish, timer, cur, attempts, answer, faults>>
  BY DEF HostTimeout, Again, device, boot, app
<1>1. sent # 0 /\ cur \in Packets /\ sent = Length[cur]
  BY <1>0, Lengths DEF Inv, TypeOK, SendInv
<1>2. WorkInv /\ AloneInv /\ Within
  BY <1>1 DEF TornInv
<1>3. WorkInv'
  BY <1>0, <1>2 DEF WorkInv
<1>4. CASE program = "app"
  <2>1. recv = <<>> /\ pc \notin {"enter", "route", "done", "empty"}
    BY <1>0, <1>2, <1>4 DEF Quiet, WorkInv, Inv, TypeOK
  <2>2. Ready' /\ Deaf' /\ ~Emptied'
    BY <1>0, <2>1 DEF Ready, Deaf, Mute, Emptied
  <2>3. AloneInv'
    BY <1>0, <1>4 DEF AloneInv
  <2>4. ~Heard
    BY <1>0, <1>1, <2>1, BegunFits DEF Heard
  <2>5. Between'
    BY <1>0, <1>2, <2>2, <2>4 DEF Within, Between, Budget
  <2> QED BY <1>0, <1>3, <2>3, <2>5 DEF TornInv
<1>5. CASE program = "boot"
  <2>1. pc = "poll" /\ ~finish /\ timer = "off"
    BY <1>0, <1>5 DEF Quiet
  <2>2. AloneInv'
    BY <1>0, <2>1 DEF AloneInv
  <2>3. ~Emptied'
    BY <1>0, <2>1 DEF Emptied
  <2>4. ~Heard
    BY <1>0, <1>5, <2>1 DEF Heard, Listening
  <2>5. Pending => recv = <<>>
    BY <1>5, <2>1 DEF Pending
  <2>6. ASSUME recv = <<>> PROVE Ready' /\ Deaf'
    BY <1>0, <2>1, <2>6 DEF Ready, Deaf, Mute
  <2>7. Deaf => Deaf'
    BY <1>0 DEF Deaf, Over, Mute, Headed, Packets
  <2>8. Begun(sent) => LeftOver'
    BY <1>0, <1>1, <1>5, <2>1 DEF Begun, LeftOver, Packets
  <2>9. Torn => Ready'
    BY <2>5, <2>6 DEF Torn
  <2>10. Broken => Deaf' \/ LeftOver'
    BY <2>5, <2>6, <2>7, <2>8 DEF Broken
  <2>11. Between'
    BY <1>0, <1>2, <2>3, <2>4, <2>9, <2>10 DEF Within, Between, Budget
  <2> QED BY <1>0, <1>3, <2>2, <2>11 DEF TornInv
<1> QED BY <1>4, <1>5 DEF Inv, TypeOK

LEMMA AnsweredTorn == Inv /\ TornInv /\ Answered => TornInv'
<1> SUFFICES ASSUME Inv, TornInv, Answered PROVE TornInv'
  OBVIOUS
<1>0. /\ waiting /\ answer # "none" /\ answer' = "none" /\ sent' = 0 /\ ~waiting'
      /\ UNCHANGED <<program, pc, recv, processing, finish, timer, faults>>
      /\ IF answer = "ok" THEN attempts' = 0 ELSE attempts' = attempts
  BY DEF Answered, Again, device, boot, app
<1>1. sent # 0 /\ cur \in Packets
  BY <1>0, Lengths DEF Inv, TypeOK, SendInv
<1>2. WorkInv /\ AloneInv /\ Within
  BY <1>1 DEF TornInv
<1>3. WorkInv'
  BY <1>0, <1>2 DEF WorkInv
<1>4. faults \in Nat /\ attempts \in Nat
  BY Limits DEF Inv, TypeOK
<1>5. faults = 0 => ~Emptied /\ AloneInv'
  <2>1. CASE program = "app"
    BY <1>0, <2>1 DEF AloneInv, Emptied, Inv, TypeOK
  <2>2. CASE program = "boot"
    BY <1>0, <1>2, <2>2 DEF AloneInv, Emptied, Inv, TypeOK
  <2> QED BY <2>1, <2>2 DEF Inv, TypeOK
<1>6. AloneInv'
  BY <1>0, <1>5 DEF AloneInv
<1>7. Deaf /\ Deaf' /\ (Emptied' <=> Emptied)
  <2>1. Deaf
    BY <1>0, <1>2 DEF Within, Heard, Torn, Broken, Spent
  <2>2. Deaf'
    BY <1>0, <2>1 DEF Deaf, Over, Mute, Headed, Packets
  <2> QED BY <1>0, <2>1, <2>2 DEF Emptied
<1>8. Between'
  <2>1. CASE answer = "ok"
    <3>1. CASE faults = 0
      BY <1>0, <1>5, <1>7, <2>1, <3>1 DEF Between, Budget
    <3>2. CASE faults >= 1
      BY <1>0, <1>4, <2>1, <3>2 DEF Between, Budget
    <3> QED BY <1>4, <3>1, <3>2
  <2>2. CASE answer # "ok"
    <3>1. answer = "crc"
      BY <1>0, <2>2 DEF Inv, TypeOK
    <3>2. ~Heard /\ ~Torn /\ (Broken => ~Emptied)
      BY <1>0, <3>1 DEF Heard, Torn, Broken
    <3> QED BY <1>0, <1>2, <1>4, <1>7, <2>2, <3>2 DEF Within, Between, Budget
  <2> QED BY <2>1, <2>2
<1> QED BY <1>0, <1>3, <1>6, <1>8 DEF TornInv

(* A first byte that finds the device waiting, and one that follows on bytes *)
(* that have been taken in *)
LEMMA HearsFirst ==
  ASSUME Inv, WorkInv, Send, Arrives(<<cur, sent + 1>>), sent = 0, ~Collides, Ready
  PROVE  Heard'
<1>0. /\ UNCHANGED <<program, pc, processing, finish, cur>> /\ sent' = sent + 1
      /\ waiting' => answer' = "none"
  BY DEF Send
<1>1. cur \in Packets /\ ~processing /\ RecvMax \in Nat /\ RecvMax >= 1
  BY Lengths, Limits DEF Send, Inv, TypeOK, Ready
<1>2. recv = <<>> /\ Begun(sent)
  BY <1>1, NothingBegun DEF Ready, Inv
<1>3. <<cur, sent + 1>> \in Bytes
  BY <1>1 DEF Bytes
<1>4. recv' = Append(recv, <<cur, sent + 1>>)
  BY <1>1, <1>2 DEF Arrives, IrqDeal, RecvData
<1>5. Begun(sent)'
  BY <1>0, <1>1, <1>2, <1>3, <1>4, BegunGrows DEF Inv
<1>6. Listening'
  <2>1. CASE program = "app"
    BY <1>0, <2>1 DEF Listening, Ready, Collides, Inv, TypeOK
  <2>2. CASE program = "boot"
    <3>1. timer # "due" /\ timer' = "on"
      BY <1>1, <2>2 DEF Arrives, RecvData, Collides
    <3>2. pc = "finish" \/ (pc = "poll" /\ ~finish)
      BY <2>2 DEF Ready, Collides, Inv, TypeOK, WorkInv
    <3> QED BY <1>0, <2>2, <3>1, <3>2 DEF Listening
  <2> QED BY <2>1, <2>2 DEF Inv, TypeOK
<1> QED BY <1>0, <1>5, <1>6 DEF Heard

LEMMA HearsOn ==
  ASSUME Inv, Send, Arrives(<<cur, sent + 1>>), sent # 0, Heard
  PROVE  Heard'
<1>0. /\ UNCHANGED <<program, pc, processing, finish, cur>> /\ sent' = sent + 1 /\ ~waiting
      /\ waiting' => answer' = "none"
  BY DEF Send
<1>1. cur \in Packets /\ sent \in Nat /\ sent < Length[cur] /\ Length[cur] <= RecvMax
      /\ RecvMax \in Nat /\ Length[cur] \in Nat
  BY <1>0, Lengths, Limits DEF Send, Inv, TypeOK, SendInv
<1>2. Listening /\ Begun(sent) /\ Len(recv) = sent
  BY <1>0 DEF Heard, Begun
<1>3. <<cur, sent + 1>> \in Bytes
  <2>1. sent + 1 \in 1 .. RecvMax
    BY <1>1
  <2> QED BY <1>1, <2>1 DEF Bytes
<1>4. ~processing
  BY <1>0, <1>2 DEF Listening, Inv, TypeOK
<1>5. recv' = Append(recv, <<cur, sent + 1>>)
  BY <1>1, <1>2, <1>4 DEF Arrives, IrqDeal, RecvData
<1>6. Begun(sent)'
  BY <1>0, <1>1, <1>2, <1>3, <1>5, BegunGrows DEF Inv
<1>7. Listening'
  BY <1>0, <1>2, <1>4 DEF Listening, Arrives, RecvData, IrqDeal
<1> QED BY <1>0, <1>6, <1>7 DEF Heard

LEMMA SendAlone == Inv /\ TornInv /\ Send => WorkInv' /\ AloneInv'
<1> SUFFICES ASSUME Inv, TornInv, Send PROVE WorkInv' /\ AloneInv'
  OBVIOUS
<1>0. /\ UNCHANGED <<program, pc, processing, finish, cur>> /\ sent' = sent + 1 /\ sent \in Nat
      /\ ~waiting /\ (waiting' => answer' = "none")
  BY DEF Send, Inv, TypeOK
<1>1. <<cur, sent + 1>> \in Bytes /\ Bad \in Bytes
  <2>1. cur \in Packets /\ sent + 1 \in 1 .. RecvMax
    BY Lengths, Limits DEF Send, Inv, TypeOK, SendInv
  <2> QED BY <2>1 DEF Bytes
<1>2. WorkInv'
  <2>1. CASE Arrives(<<cur, sent + 1>>)
    BY <1>0, <1>1, <2>1, WorkGoesOn DEF TornInv, Interrupt
  <2>2. CASE Arrives(Bad)
    BY <1>0, <1>1, <2>2, WorkGoesOn DEF TornInv, Interrupt
  <2>3. CASE UNCHANGED <<recv, timer>>
    BY <1>0, <2>3 DEF TornInv, WorkInv
  <2> QED BY <2>1, <2>2, <2>3 DEF Send
<1>3. AloneInv'
  <2>1. CASE Fault
    BY <2>1, FaultBudget
  <2>2. CASE ~Fault
    <3>1. UNCHANGED faults /\ Arrives(<<cur, sent + 1>>)
      BY <2>2 DEF Send
    <3>2. ASSUME program = "boot" /\ faults = 0
          PROVE  /\ timer' # "due"
                 /\ ~(pc \in {"tail", "enter", "route"} \/ (finish /\ pc = "poll"))
      BY <1>0, <3>1, <3>2 DEF TornInv, AloneInv, Arrives, RecvData
    <3> QED BY <1>0, <3>1, <3>2 DEF AloneInv
  <2> QED BY <2>1, <2>2
<1> QED BY <1>2, <1>3

LEMMA SendTorn == Inv /\ TornInv /\ Send => TornInv'
<1> SUFFICES ASSUME Inv, TornInv, Send PROVE TornInv'
  OBVIOUS
<1>0. /\ UNCHANGED <<program, pc, processing, finish, cur>> /\ sent' = sent + 1
      /\ cur \in Packets /\ ~waiting /\ (waiting' => answer' = "none")
      /\ attempts' = IF sent = 0 THEN attempts + 1 ELSE attempts
  BY DEF Send
<1>1. <<cur, sent + 1>> \in Bytes /\ Bad \in Bytes /\ sent \in Nat /\ attempts \in Nat /\ faults \in Nat
  <2>1. cur \in Packets /\ sent \in Nat /\ sent + 1 \in 1 .. RecvMax
    BY Lengths, Limits DEF Send, Inv, TypeOK, SendInv
  <2> QED BY <2>1, Limits DEF Bytes, Inv, TypeOK
<1>2. sent' # 0 /\ WorkInv /\ (sent = 0 => Between) /\ (sent # 0 => Within)
  BY <1>0, <1>1 DEF TornInv
<1>3. WorkInv' /\ AloneInv'
  BY SendAlone
<1>4. Spent' /\ (Emptied' /\ waiting' => answer' # "crc")
  BY <1>0 DEF Spent
<1> SUFFICES Within'
  BY <1>2, <1>3 DEF TornInv
<1>5. CASE Fault
  <2>1. Budget' = Budget + 2 /\ Budget \in Nat
    BY <1>5, FaultBudget
  <2>2. CASE sent = 0 /\ Ready
    <3>1. Begun(sent)' \/ Deaf' \/ Pending'
      <4>1. CASE Arrives(<<cur, sent + 1>>) /\ recv' # <<>>
        <5>1. recv = <<>> /\ ~processing
          BY <2>2 DEF Ready, Inv, TypeOK
        <5>2. recv' = Append(recv, <<cur, sent + 1>>)
          BY <4>1, <5>1 DEF Arrives, IrqDeal, RecvData
        <5> QED BY <1>0, <1>1, <2>2, <5>1, <5>2, BegunGrows, NothingBegun DEF Inv
      <4>2. CASE Arrives(Bad)
        <5>1. Deaf
          BY <2>2 DEF Ready, Deaf, Mute
        <5> QED BY <1>0, <1>1, <4>2, <5>1, StaysDeaf DEF Interrupt, Bad, Packets
      <4>3. CASE recv' = <<>>
        BY <4>3 DEF Deaf, Mute
      <4>4. CASE recv' = recv
        BY <2>2, <4>4 DEF Ready, Deaf, Mute
      <4> QED BY <4>1, <4>2, <4>3, <4>4 DEF Send
    <3>2. attempts <= Budget - 1
      BY <1>1, <1>2, <2>1, <2>2 DEF Between
    <3> QED BY <1>0, <1>1, <1>4, <2>1, <2>2, <3>1, <3>2 DEF Within, Broken
  <2>3. CASE sent = 0 /\ ~Ready
    <3>1. attempts <= Budget - 2
      BY <1>1, <1>2, <2>1, <2>3 DEF Between
    <3> QED BY <1>0, <1>1, <1>4, <2>1, <2>3, <3>1 DEF Within
  <2>4. CASE sent # 0 /\ Heard
    <3>1. Listening /\ Begun(sent) /\ recv # <<>> /\ Pending
      <4>1. Listening /\ Begun(sent) /\ recv # <<>>
        BY <1>0, <2>4, BegunFits DEF Heard
      <4> QED BY <1>0, <4>1 DEF Listening, Pending
    <3>2. Pending'
      <4>1. CASE Arrives(<<cur, sent + 1>>)
        BY <1>0, <1>1, <3>1, <4>1, NowPending DEF Interrupt
      <4>2. CASE Arrives(Bad)
        BY <1>0, <1>1, <3>1, <4>2, NowPending DEF Interrupt
      <4>3. CASE UNCHANGED <<recv, timer>>
        BY <1>0, <3>1, <4>3 DEF Pending
      <4> QED BY <4>1, <4>2, <4>3 DEF Send
    <3>3. attempts <= Budget
      BY <1>1, <1>2, <2>1, <2>4 DEF Within
    <3> QED BY <1>0, <1>1, <1>4, <2>1, <2>4, <3>2, <3>3 DEF Within, Broken
  <2>5. CASE sent # 0 /\ ~Heard
    <3>1. attempts <= Budget - 1
      BY <1>1, <1>2, <2>1, <2>5 DEF Within
    <3> QED BY <1>0, <1>1, <1>4, <2>1, <2>5, <3>1 DEF Within
  <2> QED BY <2>2, <2>3, <2>4, <2>5
<1>6. CASE ~Fault
  <2>1. Arrives(<<cur, sent + 1>>) /\ ~Collides /\ UNCHANGED faults /\ Interrupt(<<cur, sent + 1>>)
    BY <1>0, <1>6 DEF Send, Interrupt
  <2>2. Budget' = Budget /\ Budget \in Nat
    BY <1>1, <2>1 DEF Budget
  <2>3. CASE sent = 0
    <3>1. Pending'
      <4>1. program = "boot" => timer # "due"
        BY <2>1, <2>3 DEF Collides
      <4> QED BY <1>1, <2>1, <4>1, NowPending
    <3>2. timer' # "due"
      BY <1>2, <2>1, <2>3 DEF Collides, Arrives, IrqDeal, RecvData, WorkInv, Inv, TypeOK
    <3>3. CASE Ready /\ attempts <= Budget - 1
      <4>1. Heard'
        BY <1>2, <2>1, <2>3, <3>3, HearsFirst
      <4> QED BY <1>0, <1>1, <2>2, <2>3, <3>3, <4>1 DEF Within
    <3>4. CASE (Deaf \/ LeftOver) /\ ~Emptied /\ ~Ready /\ attempts <= Budget - 2
      <4>1. CASE Deaf
        <5>1. Over \/ processing \/ recv # <<>>
          BY <3>4 DEF Ready, Emptied, Over, Inv, TypeOK
        <5>2. Deaf'
          BY <1>1, <2>1, <4>1, <5>1, StaysDeaf
        <5> QED BY <1>0, <1>1, <2>2, <2>3, <3>1, <3>2, <3>4, <5>2 DEF Within, Torn
      <4>2. CASE LeftOver
        <5>1. recv' = <<>> \/ recv' = Append(recv, <<cur, sent + 1>>)
          BY <2>1, <4>2 DEF LeftOver, Arrives, RecvData, Inv, TypeOK
        <5>2. Mute'
          <6>1. CASE recv' = <<>>
            BY <6>1 DEF Mute
          <6>2. CASE recv' = Append(recv, <<cur, sent + 1>>)
            BY <1>1, <4>2, <6>2, TooLong DEF LeftOver, Inv
          <6> QED BY <5>1, <6>1, <6>2
        <5> QED BY <1>0, <1>1, <2>2, <2>3, <3>1, <3>2, <3>4, <5>2 DEF Within, Torn, Deaf
      <4> QED BY <3>4, <4>1, <4>2
    <3>5. CASE attempts <= Budget - 3
      BY <1>0, <1>1, <1>4, <2>2, <2>3, <3>1, <3>5 DEF Within, Broken
    <3> QED BY <1>1, <1>2, <2>2, <2>3, <3>3, <3>4, <3>5 DEF Between
  <2>4. CASE sent # 0
    <3>1. \A p \in Packets : <<cur, sent + 1>> # <<p, 1>>
      BY <1>1, <2>4
    <3>2. Deaf => Deaf'
      BY <1>1, <2>1, <3>1, StaysDeaf
    <3>3. Heard => Heard'
      BY <2>1, <2>4, HearsOn
    <3>4. Torn => Torn'
      <4> SUFFICES ASSUME Torn PROVE Torn'
        OBVIOUS
      <4>1. timer # "due"
        BY <1>0 DEF Torn
      <4>2. Pending'
        BY <1>1, <2>1, <4>1, NowPending
      <4>3. timer' # "due"
        BY <2>1, <4>1 DEF Arrives, IrqDeal, RecvData
      <4> QED BY <1>0, <3>2, <4>2, <4>3 DEF Torn
    <3>5. Broken => Broken'
      <4> SUFFICES ASSUME Broken PROVE Pending' \/ Deaf' \/ Begun(sent)'
        BY <1>4 DEF Broken
      <4>1. CASE Deaf
        BY <3>2, <4>1
      <4>2. CASE ~Deaf /\ Pending
        <5>1. recv # <<>>
          BY <4>2 DEF Deaf, Mute
        <5> QED BY <1>1, <2>1, <4>2, <5>1, NowPending
      <4>3. CASE ~Deaf /\ ~Pending /\ Begun(sent)
        <5>1. program = "boot" /\ ~processing
          BY <4>3 DEF Pending, Inv, TypeOK
        <5>2. recv' = <<>> \/ recv' = Append(recv, <<cur, sent + 1>>)
          BY <2>1, <5>1 DEF Arrives, RecvData
        <5>3. CASE recv' = <<>>
          BY <5>3 DEF Deaf, Mute
        <5>4. CASE recv' = Append(recv, <<cur, sent + 1>>)
          BY <1>0, <1>1, <4>3, <5>4, BegunGrows DEF Inv
        <5> QED BY <5>2, <5>3, <5>4
      <4> QED BY <4>1, <4>2, <4>3 DEF Broken
    <3> QED BY <1>0, <1>1, <1>2, <1>4, <2>2, <2>4, <3>3, <3>4, <3>5 DEF Within
  <2> QED BY <2>3, <2>4
<1> QED BY <1>5, <1>6

----------------------------------------------------------------------------
LEMMA InitTorn == Init => TornInv
<1> SUFFICES ASSUME Init PROVE TornInv
  OBVIOUS
<1>1. Ready /\ attempts <= Budget - 1
  BY DEF Init, AppInit, BlInit, Ready, Budget
<1>2. WorkInv /\ AloneInv
  BY DEF Init, AppInit, BlInit, WorkInv, AloneInv
<1> QED BY <1>1, <1>2 DEF TornInv, Between, Init

LEMMA StepTorn == Inv /\ TornInv /\ [Next]_vars => TornInv'
<1> SUFFICES ASSUME Inv, TornInv, [Next]_vars PROVE TornInv'
  OBVIOUS
<1>1. CASE Thread
  BY <1>1, ThreadTorn
<1>2. CASE Bootloader
  BY <1>2, MainTorn, TimerTorn DEF Bootloader
<1>3. CASE Host
  BY <1>3, SendTorn, AnsweredTorn, TimeoutTorn DEF Host
<1>4. CASE AnswerLost
  BY <1>4, AnswerLostTorn
<1>5. CASE Noise
  BY <1>5, NoiseTorn
<1>6. CASE UNCHANGED vars
  <2>1. UNCHANGED <<program, pc, recv, finish, timer, cur, sent, attempts, waiting, answer, faults>>
    BY <1>6 DEF vars, device, boot, host
  <2>2. (Mute' <=> Mute) /\ (Deaf' <=> Deaf) /\ (Begun(sent) => Begun(sent)')
    BY <2>1, SameBuffer DEF Deaf, Over
  <2>3. WorkInv' /\ AloneInv'
    BY <2>1 DEF TornInv, WorkInv, AloneInv
  <2>4. (Ready => Ready') /\ (Emptied' <=> Emptied) /\ (Pending' <=> Pending)
    BY <2>1 DEF Ready, Emptied, Pending
  <2>5. LeftOver => LeftOver'
    BY <2>1 DEF LeftOver, Begun, Packets
  <2>6. Spent => Spent'
    BY <2>1, <2>2 DEF Spent
  <2>7. (Torn => Torn') /\ (Broken => Broken')
    BY <2>1, <2>2, <2>4, <2>6 DEF Torn, Broken
  <2>8. Heard => Heard'
    BY <2>1, <2>2 DEF Heard, Listening
  <2> QED BY <2>1, <2>2, <2>3, <2>4, <2>5, <2>6, <2>7, <2>8, OwnStep
<1> QED BY <1>1, <1>2, <1>3, <1>4, <1>5, <1>6 DEF Next

(* A packet is sent twice at most, and twice more for every fault, whichever  *)
(* steps of the interrupts, of the thread and of main come between: what was  *)
(* torn or broken never makes more than the next attempt fail                 *)
(* (pp_host.c:111-116, pp_bl_host.c:120-133).                                 *)
THEOREM FewTornSafe == Spec => []FewTorn
<1>1. Inv /\ TornInv => FewTorn
  BY Limits DEF Inv, TypeOK, TornInv, Between, Within, Budget, FewTorn
<1> QED BY <1>1, Invariance, InitTorn, StepTorn, PTL DEF Spec

=============================================================================
