--------------------------- MODULE UartCanProofs ---------------------------
(***************************************************************************)
(* Each ring of UartCan is a queue of N - 1 frames, and the exchange of    *)
(* callbacks is safe, for every N, all frames and every interleaving.  A   *)
(* write of CanWrite is whole, whatever its length.                        *)
(***************************************************************************)
EXTENDS UartCan, CanWrite, TLAPS

----------------------------------------------------------------------------
(* One ring *)

Buf == [msgs : [Slots -> Seq(Nat)], rx_idx : Slots, tx_idx : Slots, tx_data_idx : Nat]

LEMMA Indices ==
  /\ N \in Nat /\ N >= 2
  /\ \A b \in Buf : /\ b.rx_idx \in Nat /\ b.rx_idx < N
                    /\ b.tx_idx \in Nat /\ b.tx_idx < N
<1>1. N \in Nat /\ N >= 2
  BY RingAssumption
<1> QED BY <1>1 DEF Buf, Slots

(* Indices stay in the ring, which holds at most N - 1 frames. *)
LEMMA RingIndex ==
  ASSUME NEW b \in Buf
  PROVE  /\ NextIdx(b.rx_idx) \in Slots /\ NextIdx(b.tx_idx) \in Slots
         /\ Count(b) \in 0 .. N - 1
         /\ Count(b) = 0 <=> b.rx_idx = b.tx_idx
         /\ Count(b) = N - 1 <=> Full(b)
         /\ \A i \in 0 .. N - 1 : Slot(b, i) \in Slots
<1> USE Indices
<1>1. NextIdx(b.rx_idx) \in Slots /\ NextIdx(b.tx_idx) \in Slots
  BY DEF NextIdx, Slots
<1>2. Count(b) \in 0 .. N - 1 /\ (Count(b) = 0 <=> b.rx_idx = b.tx_idx)
  BY DEF Count
<1>3. Count(b) = N - 1 <=> Full(b)
  BY DEF Count, Full, NextIdx
<1>4. \A i \in 0 .. N - 1 : Slot(b, i) \in Slots
  BY DEF Slot, Slots
<1> QED BY <1>1, <1>2, <1>3, <1>4

(* What waits is a sequence whose head is the oldest frame. *)
LEMMA WaitingType ==
  ASSUME NEW b \in Buf
  PROVE  /\ Waiting(b) \in Seq(Seq(Nat))
         /\ Len(Waiting(b)) = Count(b)
         /\ b.rx_idx # b.tx_idx => Waiting(b) # <<>> /\ Head(Waiting(b)) = Oldest(b)
         /\ b.rx_idx = b.tx_idx => Waiting(b) = <<>>
<1>1. \A i \in 1 .. Count(b) : b.msgs[Slot(b, i - 1)] \in Seq(Nat)
  BY RingIndex, RingAssumption, SMTT(30) DEF Buf
<1>2. Waiting(b) \in Seq(Seq(Nat)) /\ Len(Waiting(b)) = Count(b)
  BY <1>1, RingIndex DEF Waiting
<1>3. ASSUME b.rx_idx # b.tx_idx PROVE Waiting(b) # <<>> /\ Head(Waiting(b)) = Oldest(b)
  <2>1. Count(b) >= 1 /\ Slot(b, 0) = b.tx_idx
    <3>1. Count(b) \in Nat /\ Count(b) # 0
      BY <1>3, RingIndex
    <3> QED BY <3>1, Indices DEF Slot
  <2>2. Waiting(b)[1] = Oldest(b)
    BY <2>1, RingIndex DEF Waiting, Oldest
  <2> QED BY <2>1, <2>2, <1>2
<1>4. ASSUME b.rx_idx = b.tx_idx PROVE Waiting(b) = <<>>
  BY <1>4, <1>2, RingIndex
<1> QED BY <1>2, <1>3, <1>4

(* Storing a frame appends it. *)
LEMMA StoredAppends ==
  ASSUME NEW b \in Buf, NEW m \in Seq(Nat), ~Full(b)
  PROVE  /\ Stored(b, m) \in Buf
         /\ Waiting(Stored(b, m)) = Append(Waiting(b), m)
<1> DEFINE c == Stored(b, m)
<1>1. c \in Buf
  BY RingIndex DEF Buf, Stored
<1>2. /\ c.rx_idx = NextIdx(b.rx_idx) /\ c.tx_idx = b.tx_idx
      /\ c.msgs = [b.msgs EXCEPT ![b.rx_idx] = m]
  BY DEF Buf, Stored
<1> HIDE DEF c
<1>3. Count(c) = Count(b) + 1
  <2>1. /\ b.rx_idx \in Nat /\ b.rx_idx < N /\ b.tx_idx \in Nat /\ b.tx_idx < N
        /\ N \in Nat
    BY Indices
  <2>2. /\ c.rx_idx = IF b.rx_idx = N - 1 THEN 0 ELSE b.rx_idx + 1
        /\ c.tx_idx = b.tx_idx
    BY <1>2 DEF NextIdx
  <2>3. c.rx_idx # b.tx_idx
    BY <1>2 DEF Full
  <2> QED BY <2>1, <2>2, <2>3 DEF Count
<1>4. Slot(c, Count(b)) = b.rx_idx /\ \A i \in 0 .. N - 1 : Slot(c, i) = Slot(b, i)
  BY <1>2, Indices DEF Count, Slot
<1>5. \A i \in 1 .. Count(b) : Slot(b, i - 1) # b.rx_idx
  BY Indices DEF Count, Slot
<1>6. \A i \in 1 .. Count(b) + 1 :
        Waiting(c)[i] = IF i <= Count(b) THEN Waiting(b)[i] ELSE m
  <2> SUFFICES ASSUME NEW i \in 1 .. Count(b) + 1
               PROVE  Waiting(c)[i] = IF i <= Count(b) THEN Waiting(b)[i] ELSE m
    OBVIOUS
  <2>1. Count(b) \in 0 .. N - 1 /\ b.rx_idx \in Slots /\ b.msgs \in [Slots -> Seq(Nat)]
    BY RingIndex DEF Buf
  <2>2. Waiting(c)[i] = c.msgs[Slot(c, i - 1)]
    BY <1>3, <2>1 DEF Waiting
  <2>3. i - 1 \in 0 .. N - 1
    BY <1>3, <1>1, <2>1, RingIndex, RingAssumption
  <2>4. CASE i <= Count(b)
    <3>1. Slot(c, i - 1) = Slot(b, i - 1) /\ Slot(b, i - 1) # b.rx_idx /\ Slot(b, i - 1) \in Slots
      BY <2>4, <2>1, <2>3, <1>4, <1>5, RingIndex
    <3>2. Waiting(b)[i] = b.msgs[Slot(b, i - 1)]
      BY <2>4, <2>1 DEF Waiting
    <3> QED BY <2>1, <2>2, <2>4, <3>1, <3>2, <1>2
  <2>5. CASE ~(i <= Count(b))
    <3>1. i - 1 = Count(b)
      BY <2>5, <2>1
    <3> QED BY <2>1, <2>2, <2>5, <3>1, <1>2, <1>4
  <2> QED BY <2>4, <2>5
<1>7. Waiting(c) \in Seq(Seq(Nat)) /\ Len(Waiting(c)) = Count(b) + 1
  BY <1>1, <1>3, WaitingType
<1>8. Waiting(b) \in Seq(Seq(Nat)) /\ Len(Waiting(b)) = Count(b)
  BY WaitingType
<1>9. Waiting(c) = Append(Waiting(b), m)
  BY <1>6, <1>7, <1>8
<1> QED BY <1>1, <1>9 DEF c

(* Moving the read index takes the oldest frame. *)
LEMMA PoppedTakes ==
  ASSUME NEW b \in Buf, NEW c \in Buf, b.rx_idx # b.tx_idx,
         c.msgs = b.msgs, c.rx_idx = b.rx_idx, c.tx_idx = NextIdx(b.tx_idx)
  PROVE  Waiting(c) = Tail(Waiting(b))
<1>1. Count(c) = Count(b) - 1 /\ Count(b) \in 1 .. N - 1
  BY Indices DEF Count, NextIdx
<1>2. \A i \in 0 .. N - 2 : Slot(c, i) = Slot(b, i + 1)
  BY Indices DEF Slot, NextIdx
<1>3. \A i \in 1 .. Count(b) - 1 : Waiting(c)[i] = Waiting(b)[i + 1]
  BY <1>1, <1>2, RingAssumption DEF Waiting
<1>4. /\ Waiting(c) \in Seq(Seq(Nat)) /\ Len(Waiting(c)) = Count(b) - 1
      /\ Waiting(b) \in Seq(Seq(Nat)) /\ Len(Waiting(b)) = Count(b)
  BY <1>1, WaitingType
<1> QED BY <1>1, <1>3, <1>4, SMTT(30)

----------------------------------------------------------------------------
(* The inductive invariant *)

(* The statement of the thread tells which functions are installed. *)
HookInv ==
  /\ dev = [ind  |-> IF pc \in {"open3", "open4", "open", "close1"}
                       THEN "uart_can" ELSE "other",
            read |-> IF pc \in {"open4", "open", "close1", "close2"}
                       THEN "ring" ELSE "hw"]
  /\ saved = [ind  |-> IF pc \in {"closed", "close4", "can", "uart"}
                         THEN "null" ELSE "other",
              read |-> IF pc \in {"closed", "open1", "can", "uart"}
                         THEN "null" ELSE "hw"]
  /\ ref_count = (pc = "open")
  /\ failed => in_irq

(* Only whole frames wait, and the reader stands inside the oldest. *)
RingInv ==
  /\ \A r \in Rings : Waiting(mb[r]) \in Seq(Frames[r])
  /\ IF mb["uart"].rx_idx = mb["uart"].tx_idx
       THEN mb["uart"].tx_data_idx = 0
       ELSE mb["uart"].tx_data_idx < Len(Oldest(mb["uart"]))

ReadInv ==
  /\ ReadersSafe
  /\ reading["uart"] => pc = "open" /\ ~in_irq
  /\ reading["can"] => pc \in {"open4", "open"}

(* A callback that reads empties the ring within its interrupt. *)
IrqInv ==
  /\ to_read > 0 => /\ in_irq /\ ~failed /\ pc = "open"
                    /\ mb["uart"].tx_data_idx + to_read = Len(Oldest(mb["uart"]))
  /\ in_irq /\ ~failed => Count(mb["uart"]) = IF to_read > 0 THEN 1 ELSE 0

Inv == TypeOK /\ HookInv /\ RingInv /\ ReadInv /\ IrqInv


LEMMA FrameTypes ==
  /\ \A r \in Rings : Frames[r] \subseteq Seq(Nat)
  /\ \A m \in UartFrames : m \in Seq(Nat) /\ Len(m) \in Nat /\ Len(m) > 0
  /\ Frames["uart"] = UartFrames /\ Frames["can"] = CanFrames
  /\ \A r \in Rings : MsgBuf(r) \subseteq Buf
  /\ \A r \in Rings : r = "uart" \/ r = "can"
<1>1. <<>> \in Seq(Nat)
  OBVIOUS
<1>2. Frames["uart"] = UartFrames /\ Frames["can"] = CanFrames
  BY DEF Frames
<1>3. \A r \in Rings : r = "uart" \/ r = "can"
  BY DEF Rings
<1>4. UartFrames \subseteq Seq(Nat) /\ CanFrames \subseteq Seq(Nat)
  BY RingAssumption
<1>5. \A r \in Rings : Frames[r] \subseteq Seq(Nat)
  BY <1>2, <1>3, <1>4
<1>6. ASSUME NEW r \in Rings PROVE MsgBuf(r) \subseteq Buf
  <2>1. Frames[r] \cup {<<>>} \subseteq Seq(Nat)
    BY <1>1, <1>5
  <2> QED BY <2>1 DEF MsgBuf, Buf
<1>7. \A m \in UartFrames : m \in Seq(Nat) /\ Len(m) \in Nat /\ Len(m) > 0
  BY RingAssumption
<1> QED BY <1>2, <1>3, <1>5, <1>6, <1>7

LEMMA BufTypes ==
  ASSUME TypeOK, NEW r \in Rings
  PROVE  mb[r] \in MsgBuf(r) /\ mb[r] \in Buf
  BY FrameTypes DEF TypeOK, Rings

(* A stored frame waits behind the others, which it does not touch. *)
LEMMA StoredStep ==
  ASSUME NEW r \in Rings, NEW b \in MsgBuf(r), NEW m \in Frames[r], ~Full(b),
         Waiting(b) \in Seq(Frames[r])
  PROVE  /\ Stored(b, m) \in MsgBuf(r)
         /\ Waiting(Stored(b, m)) \in Seq(Frames[r])
         /\ Count(Stored(b, m)) = Count(b) + 1
         /\ Stored(b, m).tx_idx = b.tx_idx
         /\ Stored(b, m).tx_data_idx = b.tx_data_idx
         /\ Stored(b, m).rx_idx # b.tx_idx
         /\ Oldest(Stored(b, m)) = IF b.rx_idx = b.tx_idx THEN m ELSE Oldest(b)
<1>1. b \in Buf /\ m \in Seq(Nat)
  BY FrameTypes
<1>2. NextIdx(b.rx_idx) \in Slots /\ NextIdx(b.rx_idx) # b.tx_idx
  BY <1>1, RingIndex DEF Full
<1>3. /\ Stored(b, m) \in MsgBuf(r)
      /\ Stored(b, m).tx_idx = b.tx_idx
      /\ Stored(b, m).tx_data_idx = b.tx_data_idx
      /\ Stored(b, m).rx_idx # b.tx_idx
      /\ Oldest(Stored(b, m)) = IF b.rx_idx = b.tx_idx THEN m ELSE Oldest(b)
  BY <1>2 DEF MsgBuf, Stored, Oldest
<1>4. Waiting(Stored(b, m)) = Append(Waiting(b), m) /\ Stored(b, m) \in Buf
  BY <1>1, StoredAppends
<1>5. Count(Stored(b, m)) = Count(b) + 1
  <2>1. Len(Waiting(b)) = Count(b) /\ Len(Waiting(Stored(b, m))) = Count(Stored(b, m))
    BY <1>1, <1>4, WaitingType
  <2>2. Len(Append(Waiting(b), m)) = Len(Waiting(b)) + 1
    OBVIOUS
  <2> QED BY <1>4, <2>1, <2>2
<1>6. Append(Waiting(b), m) \in Seq(Frames[r])
  OBVIOUS
<1> QED BY <1>3, <1>4, <1>5, <1>6

(* A byte read moves inside the oldest frame or takes it. *)
LEMMA AdvancedStep ==
  ASSUME NEW b \in MsgBuf("uart"), b.rx_idx # b.tx_idx, b.tx_data_idx < Len(Oldest(b)),
         Waiting(b) \in Seq(UartFrames)
  PROVE  LET c == Advanced(b) IN
         /\ c \in MsgBuf("uart")
         /\ Waiting(c) \in Seq(UartFrames)
         /\ Oldest(b) \in UartFrames
         /\ IF b.tx_data_idx + 1 = Len(Oldest(b))
              THEN /\ Waiting(c) = Tail(Waiting(b)) /\ Count(c) = Count(b) - 1
                   /\ c.tx_data_idx = 0
                   /\ c.rx_idx # c.tx_idx => Oldest(c) \in UartFrames
              ELSE /\ Waiting(c) = Waiting(b) /\ Count(c) = Count(b)
                   /\ c.rx_idx # c.tx_idx /\ Oldest(c) = Oldest(b)
                   /\ c.tx_data_idx = b.tx_data_idx + 1
<1> DEFINE c == Advanced(b)
<1>1. b \in Buf /\ "uart" \in Rings /\ Frames["uart"] = UartFrames
  BY FrameTypes DEF Rings
<1>2. /\ Waiting(b) # <<>> /\ Head(Waiting(b)) = Oldest(b) /\ Len(Waiting(b)) = Count(b)
      /\ NextIdx(b.tx_idx) \in Slots /\ Count(b) \in Nat
  BY <1>1, WaitingType, RingIndex
<1>3. Oldest(b) \in UartFrames /\ Len(Oldest(b)) \in Nat
  BY <1>2, FrameTypes
<1>4. c \in MsgBuf("uart")
  <2>1. b.tx_data_idx + 1 \in Nat /\ 0 \in Nat
    BY DEF MsgBuf
  <2>2. [b EXCEPT !.tx_data_idx = 0, !.tx_idx = NextIdx(b.tx_idx)] \in MsgBuf("uart")
    BY <1>2, <2>1 DEF MsgBuf
  <2>3. [b EXCEPT !.tx_data_idx = b.tx_data_idx + 1] \in MsgBuf("uart")
    BY <2>1 DEF MsgBuf
  <2> QED BY <2>2, <2>3 DEF Advanced
<1>5. c \in Buf
  BY <1>4, <1>1, FrameTypes
<1>6. CASE b.tx_data_idx + 1 = Len(Oldest(b))
  <2>1. /\ c.msgs = b.msgs /\ c.rx_idx = b.rx_idx /\ c.tx_idx = NextIdx(b.tx_idx)
        /\ c.tx_data_idx = 0
    BY <1>6 DEF MsgBuf, Advanced
  <2>2. Waiting(c) = Tail(Waiting(b))
    BY <1>1, <1>5, <2>1, PoppedTakes
  <2>3. Waiting(c) \in Seq(UartFrames) /\ Len(Waiting(c)) = Count(b) - 1
    BY <2>2, <1>2
  <2>4. Count(c) = Count(b) - 1
    BY <1>5, <2>3, WaitingType
  <2>5. c.rx_idx # c.tx_idx => Oldest(c) \in UartFrames
    <3> SUFFICES ASSUME c.rx_idx # c.tx_idx PROVE Oldest(c) \in UartFrames
      OBVIOUS
    <3>1. Waiting(c) # <<>> /\ Head(Waiting(c)) = Oldest(c)
      BY <1>5, WaitingType
    <3> QED BY <3>1, <2>3
  <2> QED BY <1>3, <1>4, <1>6, <2>1, <2>2, <2>3, <2>4, <2>5
<1>7. CASE b.tx_data_idx + 1 # Len(Oldest(b))
  <2>1. /\ c.msgs = b.msgs /\ c.rx_idx = b.rx_idx /\ c.tx_idx = b.tx_idx
        /\ c.tx_data_idx = b.tx_data_idx + 1
    BY <1>7 DEF MsgBuf, Advanced
  <2>2. Count(c) = Count(b) /\ Oldest(c) = Oldest(b) /\ c.rx_idx # c.tx_idx
    BY <2>1 DEF Count, Oldest
  <2>3. Waiting(c) = Waiting(b)
    BY <2>1, <2>2 DEF Waiting, Slot
  <2> QED BY <1>3, <1>4, <1>7, <2>1, <2>2, <2>3
<1> QED BY <1>6, <1>7

(* A frame read takes the oldest. *)
LEMMA PoppedStep ==
  ASSUME NEW b \in MsgBuf("can"), b.rx_idx # b.tx_idx, Waiting(b) \in Seq(CanFrames)
  PROVE  /\ Popped(b) \in MsgBuf("can")
         /\ Waiting(Popped(b)) = Tail(Waiting(b))
         /\ Waiting(Popped(b)) \in Seq(CanFrames)
         /\ Oldest(b) \in CanFrames
<1>1. b \in Buf /\ "can" \in Rings
  BY FrameTypes DEF Rings
<1>2. /\ Waiting(b) # <<>> /\ Head(Waiting(b)) = Oldest(b)
      /\ NextIdx(b.tx_idx) \in Slots
  BY <1>1, WaitingType, RingIndex
<1>3. /\ Popped(b) \in MsgBuf("can") /\ Popped(b).msgs = b.msgs
      /\ Popped(b).rx_idx = b.rx_idx /\ Popped(b).tx_idx = NextIdx(b.tx_idx)
  BY <1>2 DEF MsgBuf, Popped
<1>4. Popped(b) \in Buf
  BY <1>1, <1>3, FrameTypes
<1>5. Waiting(Popped(b)) = Tail(Waiting(b))
  BY <1>1, <1>3, <1>4, PoppedTakes
<1> QED BY <1>2, <1>3, <1>5

LEMMA EmptyStep ==
  ASSUME NEW r \in Rings
  PROVE  /\ EmptyBuf \in MsgBuf(r)
         /\ Waiting(EmptyBuf) = <<>> /\ Count(EmptyBuf) = 0
         /\ EmptyBuf.rx_idx = EmptyBuf.tx_idx /\ EmptyBuf.tx_data_idx = 0
<1>1. 0 \in Slots
  BY Indices DEF Slots
<1>2. /\ EmptyBuf \in MsgBuf(r)
      /\ EmptyBuf.rx_idx = EmptyBuf.tx_idx /\ EmptyBuf.tx_data_idx = 0
  BY <1>1 DEF EmptyBuf, MsgBuf
<1>3. EmptyBuf \in Buf
  BY <1>2, FrameTypes
<1> QED BY <1>2, <1>3, WaitingType, RingIndex

----------------------------------------------------------------------------
(* Init and every action keep the invariant *)

LEMMA InitInv == Init => Inv
<1> SUFFICES ASSUME Init PROVE Inv
  OBVIOUS
<1>1. \A r \in Rings : mb[r] = EmptyBuf
  BY DEF Init
<1>2. "uart" \in Rings /\ "can" \in Rings /\ <<>> \in Seq(Nat)
  BY DEF Rings
<1>3. TypeOK
  BY <1>1, <1>2, EmptyStep DEF Init, TypeOK
<1>4. HookInv
  BY DEF Init, HookInv
<1>5. RingInv
  <2>1. \A r \in Rings : <<>> \in Seq(Frames[r])
    OBVIOUS
  <2> QED BY <1>1, <1>2, <2>1, EmptyStep DEF RingInv
<1>6. ReadInv /\ IrqInv
  BY <1>1, <1>2, EmptyStep DEF Init, ReadInv, ReadersSafe, IrqInv
<1> QED BY <1>3, <1>4, <1>5, <1>6 DEF Inv

LEMMA HookStep == Inv /\ (Open \/ Close) => Inv'
<1> SUFFICES ASSUME Inv, Open \/ Close PROVE Inv'
  OBVIOUS
<1> USE DEF Inv
<1>1. /\ UNCHANGED <<in_irq, mb, reading, buffer, to_read, failed, out, dropped>>
      /\ to_read = 0 /\ ~failed
  BY DEF Open, Close, Unhooked, Goto, Thread
<1>2. HookInv' /\ TypeOK'
  <2>1. CASE Open
    BY <1>1, <2>1, ZenonT(30) DEF Open, Goto, HookInv, TypeOK
  <2>2. CASE Close
    <3>1. HookInv'
      <4>1. CASE pc = "open"
        <5>1. pc' = "close1" /\ UNCHANGED <<dev, saved, failed>>
          BY <1>1, <2>2, <4>1 DEF Close, Goto
        <5>2. ref_count' = FALSE
          BY <2>2, <4>1 DEF Close, Goto
        <5>3. ref_count' = (pc' = "open")
          BY <5>1, <5>2
        <5> QED BY <1>1, <4>1, <5>1, <5>3 DEF HookInv
      <4>2. CASE pc = "close1"
        BY <1>1, <2>2, <4>2 DEF Close, Goto, HookInv
      <4>3. CASE pc = "close2"
        BY <1>1, <2>2, <4>3 DEF Close, Goto, HookInv
      <4>4. CASE pc = "close3"
        BY <1>1, <2>2, <4>4 DEF Close, Goto, HookInv
      <4>5. CASE pc = "close4"
        BY <1>1, <2>2, <4>5 DEF Close, Goto, HookInv
      <4> QED BY <2>2, <4>1, <4>2, <4>3, <4>4, <4>5 DEF Close, Goto
    <3>2. pc' \in {"close1", "close2", "close3", "close4", "can"}
      BY <2>2 DEF Close, Goto
    <3> QED BY <1>1, <3>1, <3>2 DEF HookInv, TypeOK
  <2> QED BY <2>1, <2>2
<1>3. RingInv' /\ ReadersSafe'
  BY <1>1 DEF RingInv, ReadInv, ReadersSafe, Copied
<1>4. /\ reading["uart"] => pc' = "open" /\ ~in_irq
      /\ reading["can"] => pc' \in {"open4", "open"}
  BY DEF Open, Close, Goto, ReadInv, Rings
<1>5. IrqInv'
  BY <1>1 DEF IrqInv
<1> QED BY <1>1, <1>2, <1>3, <1>4, <1>5 DEF ReadInv

LEMMA ResetStep == Inv /\ Reset => Inv'
<1> SUFFICES ASSUME Inv, NEW r \in Rings,
                    Goto(r, IF r = "can" THEN "uart" ELSE "closed"),
                    mb' = [mb EXCEPT ![r] = EmptyBuf],
                    UNCHANGED <<dev, saved, ref_count, in_irq, reading, buffer, to_read,
                                failed, out, dropped>>
             PROVE  Inv'
  BY DEF Reset
<1> USE DEF Inv
<1>1. /\ DOMAIN mb = Rings /\ mb'[r] = EmptyBuf /\ \A q \in Rings \ {r} : mb'[q] = mb[q]
      /\ Rings = {"uart", "can"}
  BY DEF TypeOK, Rings
<1>2. ~reading["uart"] /\ ~reading["can"] /\ pc = r /\ to_read = 0 /\ ~failed
  BY FrameTypes DEF Goto, Thread, ReadInv
<1>3. TypeOK'
  BY <1>1, EmptyStep DEF TypeOK, Goto
<1>4. HookInv'
  BY FrameTypes DEF Goto, HookInv
<1>5. RingInv'
  <2>1. \A q \in Rings : <<>> \in Seq(Frames[q])
    OBVIOUS
  <2> QED BY <1>1, <2>1, EmptyStep DEF RingInv
<1>6. ReadInv'
  BY <1>1, <1>2 DEF ReadInv, ReadersSafe
<1>7. IrqInv'
  BY <1>1, <1>2, EmptyStep DEF IrqInv
<1> QED BY <1>3, <1>4, <1>5, <1>6, <1>7

LEMMA ReceiveStep ==
  ASSUME Inv, NEW r \in Rings, NEW m \in Frames[r], Receive(r, m)
  PROVE  Inv'
<1> USE DEF Inv
<1>1. /\ to_read = 0 /\ ~failed /\ saved.read = "hw" /\ saved.ind = "other"
      /\ UNCHANGED <<dev, saved, pc, ref_count, in_irq, reading, buffer, out>>
  BY DEF Receive, Thread, HookInv, hooks
<1>2. CASE Full(mb[r])
  <2>1. UNCHANGED <<mb, to_read, failed>> /\ dropped' = [dropped EXCEPT ![r] = TRUE]
    BY <1>1, <1>2 DEF Receive
  <2>2. TypeOK' /\ HookInv'
    BY <1>1, <2>1 DEF TypeOK, HookInv
  <2>3. RingInv' /\ ReadInv' /\ IrqInv'
    BY <1>1, <2>1 DEF RingInv, ReadInv, ReadersSafe, IrqInv, Copied
  <2> QED BY <2>2, <2>3
<1>3. CASE ~Full(mb[r])
  <2> DEFINE b == mb[r]  c == Stored(b, m)
  <2>1. /\ mb' = [mb EXCEPT ![r] = c] /\ dropped' = [dropped EXCEPT ![r] = FALSE]
        /\ IF r = "uart"
             THEN /\ failed' = (in_irq /\ ~ref_count)
                  /\ to_read' = IF in_irq /\ ref_count THEN Len(m) ELSE 0
             ELSE failed' = FALSE /\ UNCHANGED to_read
    BY <1>1, <1>3 DEF Receive
  <2>2. /\ DOMAIN mb = Rings /\ mb'[r] = c /\ \A q \in Rings \ {r} : mb'[q] = mb[q]
        /\ Rings = {"uart", "can"}
    BY <2>1 DEF TypeOK, Rings
  <2>3. b \in MsgBuf(r) /\ Waiting(b) \in Seq(Frames[r]) /\ b \in Buf
    BY BufTypes DEF RingInv
  <2>4. /\ c \in MsgBuf(r) /\ Waiting(c) \in Seq(Frames[r])
        /\ Count(c) = Count(b) + 1 /\ c.tx_idx = b.tx_idx
        /\ c.tx_data_idx = b.tx_data_idx /\ c.rx_idx # b.tx_idx
        /\ Oldest(c) = IF b.rx_idx = b.tx_idx THEN m ELSE Oldest(b)
    BY <1>3, <2>3, StoredStep
  <2> HIDE DEF b, c
  <2>5. TypeOK'
    <3>1. m \in UartFrames => Len(m) \in Nat
      BY FrameTypes
    <3>2. to_read' \in Nat /\ failed' \in BOOLEAN
      <4>1. CASE r = "uart"
        <5>1. failed' \in BOOLEAN
          BY <2>1, <4>1
        <5>2. to_read' \in Nat
          BY <2>1, <3>1, <4>1, FrameTypes
        <5> QED BY <5>1, <5>2
      <4>2. CASE r # "uart"
        <5>1. to_read' = 0
          BY <1>1, <2>1, <4>2
        <5>2. failed' = FALSE
          BY <2>1, <4>2
        <5> QED BY <5>1, <5>2
      <4> QED BY <4>1, <4>2
    <3> QED BY <1>1, <2>1, <2>2, <2>4, <3>2 DEF TypeOK
  <2>6. HookInv'
    BY <1>1, <2>1 DEF HookInv
  <2>7. RingInv'
    <3>1. \A q \in Rings : Waiting(mb'[q]) \in Seq(Frames[q])
      BY <2>2, <2>4 DEF RingInv
    <3>2. CASE r = "uart"
      <4>1. mb'["uart"] = c /\ b = mb["uart"] /\ m \in UartFrames
        BY <2>2, <3>2, FrameTypes DEF b
      <4>2. c.rx_idx # c.tx_idx /\ c.tx_data_idx < Len(Oldest(c))
        BY <2>4, <4>1, FrameTypes DEF RingInv
      <4> QED BY <3>1, <4>1, <4>2 DEF RingInv
    <3>3. CASE r # "uart"
      BY <2>2, <3>1, <3>3 DEF RingInv
    <3> QED BY <3>2, <3>3
  <2>8. ReadInv'
    <3>1. ASSUME NEW q \in Rings, reading[q]
          PROVE  mb'[q].rx_idx # mb'[q].tx_idx /\ buffer[q] = Copied(q)'
      <4>1. mb[q].rx_idx # mb[q].tx_idx /\ buffer[q] = Copied(q)
        BY <3>1 DEF ReadInv, ReadersSafe
      <4>2. CASE q # r
        BY <2>2, <4>1, <4>2 DEF Copied
      <4>3. CASE q = r
        BY <2>2, <2>4, <4>1, <4>3 DEF Copied, b
      <4> QED BY <4>2, <4>3
    <3> QED BY <1>1, <3>1 DEF ReadInv, ReadersSafe
  <2>9. IrqInv'
    <3>1. CASE r = "uart"
      <4>1. mb'["uart"] = c /\ b = mb["uart"] /\ m \in UartFrames
        BY <2>2, <3>1, FrameTypes DEF b
      <4>2. in_irq => Count(b) = 0 /\ Count(c) = 1 /\ b.rx_idx = b.tx_idx
        BY <1>1, <2>3, <2>4, <4>1, RingIndex DEF IrqInv
      <4>3. in_irq => b.tx_data_idx = 0 /\ Oldest(c) = m
        BY <2>4, <4>1, <4>2 DEF RingInv
      <4>4. ref_count => pc = "open"
        BY DEF HookInv
      <4>5. Len(m) \in Nat /\ Len(m) > 0
        BY <4>1, FrameTypes
      <4>6. in_irq \in BOOLEAN /\ ref_count \in BOOLEAN
        BY RingAssumption DEF TypeOK
      <4>7. CASE in_irq /\ ref_count
        <5>1. to_read' = Len(m) /\ ~failed' /\ pc' = "open"
          BY <1>1, <2>1, <3>1, <4>4, <4>7
        <5>2. c.tx_data_idx = 0 /\ Oldest(c) = m /\ Count(c) = 1
          BY <2>4, <4>2, <4>3, <4>7
        <5> QED BY <1>1, <4>1, <4>5, <4>7, <5>1, <5>2 DEF IrqInv
      <4>8. CASE ~(in_irq /\ ref_count)
        <5>1. to_read' = 0 /\ (in_irq => failed')
          BY <2>1, <3>1, <4>8
        <5> QED BY <1>1, <5>1 DEF IrqInv
      <4> QED BY <4>7, <4>8
    <3>2. CASE r # "uart"
      BY <1>1, <2>1, <2>2, <3>2 DEF IrqInv
    <3> QED BY <3>1, <3>2
  <2> QED BY <2>5, <2>6, <2>7, <2>8, <2>9
<1> QED BY <1>2, <1>3

(* Both readers move the index of a ring in which a frame waits. *)
LEMMA TakenStep ==
  ASSUME Inv, NEW r \in Rings, mb[r].rx_idx # mb[r].tx_idx,
         mb' = [mb EXCEPT ![r] = After(r)]
  PROVE  /\ mb'["uart"] \in MsgBuf("uart") /\ mb'["can"] \in MsgBuf("can")
         /\ DOMAIN mb' = Rings
         /\ RingInv'
         /\ Copied(r) \in Seq(Nat)
         /\ \A q \in Rings \ {r} : mb'[q] = mb[q]
<1> USE DEF Inv
<1>1. /\ DOMAIN mb = Rings /\ mb'[r] = After(r) /\ \A q \in Rings \ {r} : mb'[q] = mb[q]
      /\ Rings = {"uart", "can"} /\ DOMAIN mb' = Rings
  BY DEF TypeOK, Rings
<1>2. mb[r] \in MsgBuf(r) /\ Waiting(mb[r]) \in Seq(Frames[r]) /\ mb[r] \in Buf
  BY BufTypes DEF RingInv
<1>3. CASE r = "uart"
  <2> DEFINE b == mb["uart"]  c == Advanced(b)
  <2>1. b.tx_data_idx < Len(Oldest(b)) /\ mb'["uart"] = c /\ mb'["can"] = mb["can"]
    BY <1>1, <1>3 DEF RingInv, After
  <2>2. /\ c \in MsgBuf("uart") /\ Waiting(c) \in Seq(UartFrames) /\ Oldest(b) \in UartFrames
        /\ IF b.tx_data_idx + 1 = Len(Oldest(b))
             THEN c.tx_data_idx = 0 /\ (c.rx_idx # c.tx_idx => Oldest(c) \in UartFrames)
             ELSE /\ c.rx_idx # c.tx_idx /\ Oldest(c) = Oldest(b)
                  /\ c.tx_data_idx = b.tx_data_idx + 1
    BY <1>2, <1>3, <2>1, AdvancedStep, FrameTypes
  <2>3. b.tx_data_idx \in Nat /\ Oldest(b) \in Seq(Nat) /\ Len(Oldest(b)) \in Nat
    BY <1>2, <1>3, <2>2, FrameTypes DEF Buf
  <2> HIDE DEF b, c
  <2>4. IF c.rx_idx = c.tx_idx THEN c.tx_data_idx = 0 ELSE c.tx_data_idx < Len(Oldest(c))
    BY <2>1, <2>2, <2>3, FrameTypes
  <2>5. \A q \in Rings : Waiting(mb'[q]) \in Seq(Frames[q])
    BY <1>1, <2>1, <2>2, FrameTypes DEF RingInv
  <2>6. RingInv'
    BY <2>1, <2>4, <2>5 DEF RingInv
  <2>7. mb'["uart"] \in MsgBuf("uart") /\ mb'["can"] \in MsgBuf("can")
    BY <2>1, <2>2 DEF TypeOK
  <2>8. Copied(r) \in Seq(Nat)
    <3>1. Oldest(b)[b.tx_data_idx + 1] \in Nat
      BY <2>1, <2>3
    <3> QED BY <1>3, <3>1 DEF Copied, b
  <2> QED BY <1>1, <2>6, <2>7, <2>8
<1>4. CASE r = "can"
  <2> DEFINE b == mb["can"]  c == Popped(b)
  <2>1. mb'["can"] = c /\ mb'["uart"] = mb["uart"]
    BY <1>1, <1>4 DEF After
  <2>2. c \in MsgBuf("can") /\ Waiting(c) \in Seq(CanFrames) /\ Oldest(b) \in CanFrames
    BY <1>2, <1>4, PoppedStep, FrameTypes
  <2> HIDE DEF c
  <2>3. \A q \in Rings : Waiting(mb'[q]) \in Seq(Frames[q])
    BY <1>1, <2>1, <2>2, FrameTypes DEF RingInv
  <2>4. RingInv'
    BY <2>1, <2>3 DEF RingInv
  <2>5. Copied(r) \in Seq(Nat)
    BY <1>4, <2>2, FrameTypes DEF Copied
  <2> QED BY <1>1, <2>1, <2>2, <2>4, <2>5 DEF TypeOK
<1> QED BY <1>3, <1>4, FrameTypes

LEMMA IrqReadStep == Inv /\ IrqRead => Inv'
<1> SUFFICES ASSUME Inv, IrqRead PROVE Inv'
  OBVIOUS
<1> USE DEF Inv
<1> DEFINE b == mb["uart"]  c == Advanced(b)
<1>1. /\ to_read \in Nat /\ to_read > 0 /\ to_read' = to_read - 1
      /\ mb' = [mb EXCEPT !["uart"] = After("uart")]
      /\ out' = [out EXCEPT !["uart"] = Copied("uart")]
      /\ UNCHANGED <<dev, saved, pc, ref_count, in_irq, reading, buffer, failed, dropped>>
  BY DEF IrqRead, TypeOK, hooks
<1>2. /\ "uart" \in Rings /\ b \in MsgBuf("uart") /\ b \in Buf
      /\ Waiting(b) \in Seq(UartFrames)
  BY BufTypes, FrameTypes DEF RingInv, Rings
<1>3. /\ Count(b) = 1 /\ b.rx_idx # b.tx_idx /\ in_irq /\ ~failed /\ pc = "open"
      /\ b.tx_data_idx + to_read = Len(Oldest(b)) /\ b.tx_data_idx < Len(Oldest(b))
  <2>1. /\ Count(b) = 1 /\ in_irq /\ ~failed /\ pc = "open"
        /\ b.tx_data_idx + to_read = Len(Oldest(b))
    BY <1>1 DEF IrqInv
  <2>2. b.rx_idx # b.tx_idx
    BY <1>2, <2>1, RingIndex
  <2> QED BY <2>1, <2>2 DEF RingInv
<1>4. /\ mb'["uart"] \in MsgBuf("uart") /\ mb'["can"] \in MsgBuf("can")
      /\ DOMAIN mb' = Rings /\ RingInv' /\ Copied("uart") \in Seq(Nat)
      /\ \A q \in Rings \ {"uart"} : mb'[q] = mb[q]
  BY <1>1, <1>2, <1>3, TakenStep
<1>5. TypeOK'
  <2>1. to_read' \in Nat
    BY <1>1
  <2>2. out' \in [Rings -> Seq(Nat)]
    BY <1>1, <1>4 DEF TypeOK
  <2> QED BY <1>1, <1>4, <2>1, <2>2 DEF TypeOK
<1>6. HookInv'
  BY <1>1 DEF HookInv
<1>7. ReadInv'
  <2>1. ~reading["uart"]
    BY <1>3 DEF ReadInv
  <2> QED BY <1>1, <1>4, <2>1 DEF ReadInv, ReadersSafe, Copied
<1>8. IrqInv'
  <2>1. mb'["uart"] = c
    BY <1>1, <1>2 DEF After, TypeOK
  <2>2. IF b.tx_data_idx + 1 = Len(Oldest(b))
          THEN Count(c) = Count(b) - 1 /\ c.tx_data_idx = 0
          ELSE /\ Count(c) = Count(b) /\ Oldest(c) = Oldest(b)
               /\ c.tx_data_idx = b.tx_data_idx + 1
    BY <1>2, <1>3, AdvancedStep
  <2>3. b.tx_data_idx \in Nat
    BY <1>2 DEF Buf
  <2> HIDE DEF b, c
  <2>4. CASE to_read = 1
    <3>1. to_read' = 0 /\ Count(c) = 0
      BY <1>1, <1>3, <2>2, <2>3, <2>4
    <3> QED BY <1>3, <2>1, <3>1 DEF IrqInv
  <2>5. CASE to_read # 1
    <3>1. /\ to_read' > 0 /\ Count(c) = 1 /\ Oldest(c) = Oldest(b)
          /\ c.tx_data_idx + to_read' = Len(Oldest(c))
      <4> DEFINE n == Len(Oldest(b))
      <4>1. b.tx_data_idx + to_read = n /\ to_read \in Nat /\ to_read > 1
        BY <1>1, <1>3, <2>5
      <4>2. Oldest(b) = Oldest(c) => Len(Oldest(c)) = n
        OBVIOUS
      <4>3. n = Len(Oldest(b))
        OBVIOUS
      <4> HIDE DEF n
      <4>4. b.tx_data_idx + 1 # n
        BY <2>3, <4>1
      <4>5. Count(c) = 1 /\ Oldest(c) = Oldest(b) /\ c.tx_data_idx = b.tx_data_idx + 1
        BY <1>3, <2>2, <4>3, <4>4
      <4>6. to_read' > 0 /\ c.tx_data_idx + to_read' = n
        BY <1>1, <2>3, <4>1, <4>5
      <4> QED BY <4>2, <4>5, <4>6
    <3> QED BY <1>1, <1>3, <2>1, <3>1 DEF IrqInv
  <2> QED BY <2>4, <2>5
<1> QED BY <1>4, <1>5, <1>6, <1>7, <1>8

LEMMA CopyStep ==
  ASSUME Inv, NEW r \in Rings, Copy(r)
  PROVE  Inv'
<1> USE DEF Inv
<1>1. /\ to_read = 0 /\ mb[r].rx_idx # mb[r].tx_idx
      /\ buffer' = [buffer EXCEPT ![r] = Copied(r)]
      /\ reading' = [reading EXCEPT ![r] = TRUE]
      /\ UNCHANGED <<mb, dev, saved, pc, ref_count, in_irq, to_read, failed, out, dropped>>
  BY DEF Copy, Thread, hooks
<1>2. Copied(r) \in Seq(Nat)
  <2>1. /\ mb[r] \in Buf /\ mb[r] \in MsgBuf(r) /\ Waiting(mb[r]) \in Seq(Frames[r])
    BY BufTypes DEF RingInv
  <2>2. Oldest(mb[r]) \in Frames[r] /\ Oldest(mb[r]) \in Seq(Nat)
    <3>1. Waiting(mb[r]) # <<>> /\ Head(Waiting(mb[r])) = Oldest(mb[r])
      BY <1>1, <2>1, WaitingType
    <3>2. Oldest(mb[r]) \in Frames[r]
      BY <2>1, <3>1
    <3> QED BY <3>2, FrameTypes
  <2>3. CASE r = "can"
    BY <2>2, <2>3 DEF Copied
  <2>4. CASE r = "uart"
    <3>1. mb[r].tx_data_idx \in Nat /\ mb[r].tx_data_idx < Len(Oldest(mb[r]))
      BY <1>1, <2>1, <2>4 DEF RingInv, Buf
    <3>2. Oldest(mb[r])[mb[r].tx_data_idx + 1] \in Nat
      BY <2>2, <3>1
    <3> QED BY <2>4, <3>2 DEF Copied
  <2> QED BY <2>3, <2>4, FrameTypes
<1>3. TypeOK'
  BY <1>1, <1>2 DEF TypeOK
<1>4. HookInv' /\ RingInv' /\ IrqInv'
  BY <1>1 DEF HookInv, RingInv, IrqInv
<1>5. ReadersSafe'
  <2>1. DOMAIN buffer = Rings /\ DOMAIN reading = Rings
    BY DEF TypeOK
  <2> QED BY <1>1, <2>1 DEF ReadInv, ReadersSafe, Copied
<1>6. /\ reading'["uart"] => pc' = "open" /\ ~in_irq
      /\ reading'["can"] => pc' \in {"open4", "open"}
  <2>1. CASE r = "uart"
    <3>1. ref_count /\ ~in_irq
      BY <2>1 DEF Copy
    <3>2. pc = "open"
      BY <3>1 DEF HookInv
    <3> QED BY <1>1, <2>1, <3>1, <3>2 DEF ReadInv, TypeOK, Rings
  <2>2. CASE r = "can"
    <3>1. pc \in {"open4", "open"}
      BY <2>2 DEF Copy
    <3> QED BY <1>1, <2>2, <3>1 DEF ReadInv, TypeOK, Rings
  <2> QED BY <2>1, <2>2, FrameTypes
<1> QED BY <1>1, <1>3, <1>4, <1>5, <1>6 DEF ReadInv

LEMMA AdvanceStep ==
  ASSUME Inv, NEW r \in Rings, Advance(r)
  PROVE  Inv'
<1> USE DEF Inv
<1>1. /\ to_read = 0 /\ ~failed /\ reading[r]
      /\ mb' = [mb EXCEPT ![r] = After(r)]
      /\ out' = [out EXCEPT ![r] = buffer[r]]
      /\ reading' = [reading EXCEPT ![r] = FALSE]
      /\ UNCHANGED <<dev, saved, pc, ref_count, in_irq, buffer, to_read, failed, dropped>>
  BY DEF Advance, Thread, hooks
<1>2. mb[r].rx_idx # mb[r].tx_idx
  BY <1>1 DEF ReadInv, ReadersSafe
<1>3. /\ mb'["uart"] \in MsgBuf("uart") /\ mb'["can"] \in MsgBuf("can")
      /\ DOMAIN mb' = Rings /\ RingInv' /\ \A q \in Rings \ {r} : mb'[q] = mb[q]
  BY <1>1, <1>2, TakenStep
<1>4. TypeOK'
  BY <1>1, <1>3 DEF TypeOK
<1>5. HookInv'
  BY <1>1 DEF HookInv
<1>6. /\ ~reading'[r] /\ \A q \in Rings \ {r} : reading'[q] = reading[q]
      /\ "uart" \in Rings /\ "can" \in Rings
  BY <1>1 DEF TypeOK, Rings
<1>7. ReadersSafe'
  BY <1>1, <1>3, <1>6 DEF ReadInv, ReadersSafe, Copied
<1>8. ReadInv'
  BY <1>1, <1>6, <1>7 DEF ReadInv
<1>9. IrqInv'
  <2>1. CASE r = "uart"
    <3>1. ~in_irq
      BY <1>1, <2>1 DEF ReadInv
    <3> QED BY <1>1, <3>1 DEF IrqInv
  <2>2. CASE r = "can"
    <3>1. mb'["uart"] = mb["uart"]
      BY <1>3, <1>6, <2>2
    <3> QED BY <1>1, <3>1 DEF IrqInv
  <2> QED BY <2>1, <2>2, FrameTypes
<1> QED BY <1>3, <1>4, <1>5, <1>8, <1>9

LEMMA NextInv == Inv /\ [Next]_vars => Inv'
<1> SUFFICES ASSUME Inv, [Next]_vars PROVE Inv'
  OBVIOUS
<1>1. CASE UNCHANGED vars
  BY <1>1 DEF vars, hooks, Inv, TypeOK, HookInv, RingInv, ReadInv, ReadersSafe, IrqInv, Copied
<1>2. CASE Next
  BY <1>2, HookStep, ResetStep, IrqReadStep, CopyStep, AdvanceStep, ReceiveStep DEF Next
<1> QED BY <1>1, <1>2

LEMMA InvHolds == Spec => []Inv
<1> QED BY InitInv, NextInv, PTL DEF Spec

(* The rings, the reader's place in them and the exchanged functions have    *)
(* their types: no index leaves its ring (pp_uart_can.c:27).                 *)
THEOREM TypeCorrect == Spec => []TypeOK
<1>1. Inv => TypeOK
  BY DEF Inv
<1> QED BY <1>1, InvHolds, PTL

(* Between the copy and the move of the index of _uart_can_read and of       *)
(* _can_read the interrupt may store frames and drop frames, but what was    *)
(* copied stays what the index stands at.                                    *)
THEOREM ReadersSafeAlways == Spec => []ReadersSafe
<1>1. Inv => ReadersSafe
  BY DEF Inv, ReadInv
<1> QED BY <1>1, InvHolds, PTL

(* No assertion of the interrupt fails at any statement of open and close,   *)
(* as long as the user of the port does not read in its callback.            *)
THEOREM ExchangeSafe == Spec => []ExchangeHolds
<1>1. Inv => ExchangeHolds
  BY DEF Inv, HookInv, ExchangeHolds
<1> QED BY <1>1, InvHolds, PTL

----------------------------------------------------------------------------
(* Each ring implements a queue *)

(* A step that leaves a ring alone, and what is read from it, is a stutter. *)
LEMMA UartStutter ==
  UNCHANGED <<mb["uart"], out["uart"], dropped["uart"]>> => UNCHANGED Uart!vars
  BY DEF Uart!vars, Waiting, Count, Slot

LEMMA CanStutter ==
  UNCHANGED <<mb["can"], out["can"], dropped["can"]>> => UNCHANGED Can!vars
  BY DEF Can!vars, Waiting, Count, Slot

(* What the frames that wait become *)
LEMMA Primed ==
  ASSUME NEW r \in Rings PROVE Waiting(mb[r])' = Waiting(mb'[r])
  BY DEF Waiting, Count, Slot

LEMMA UartGets ==
  ASSUME Inv, mb["uart"].rx_idx # mb["uart"].tx_idx,
         mb'["uart"] = Advanced(mb["uart"]), out'["uart"] = Copied("uart"),
         dropped' = dropped
  PROVE  Uart!GetByte
<1> USE DEF Inv
<1> DEFINE b == mb["uart"]  c == Advanced(b)
<1>1. /\ "uart" \in Rings /\ b \in MsgBuf("uart") /\ b \in Buf
      /\ Waiting(b) \in Seq(UartFrames) /\ b.tx_data_idx < Len(Oldest(b))
  BY BufTypes, FrameTypes DEF RingInv, Rings
<1>2. /\ Oldest(b) \in UartFrames
      /\ IF b.tx_data_idx + 1 = Len(Oldest(b))
           THEN Waiting(c) = Tail(Waiting(b)) /\ c.tx_data_idx = 0
           ELSE Waiting(c) = Waiting(b) /\ c.tx_data_idx = b.tx_data_idx + 1
  BY <1>1, AdvancedStep
<1>3. Waiting(b) # <<>> /\ Head(Waiting(b)) = Oldest(b) /\ b.tx_data_idx \in Nat
  BY <1>1, WaitingType DEF Buf
<1>4. out'["uart"] = <<Head(Waiting(b))[b.tx_data_idx + 1]>>
  BY <1>3 DEF Copied
<1>5. mb'["uart"] = c /\ Waiting(mb["uart"])' = Waiting(mb'["uart"])
  BY <1>1, Primed
<1> HIDE DEF c
<1>6. Waiting(mb["uart"])' = Waiting(c) /\ mb'["uart"].tx_data_idx = c.tx_data_idx
  BY <1>5
<1>7. CASE b.tx_data_idx + 1 = Len(Oldest(b))
  <2>1. /\ Waiting(mb["uart"])' = Tail(Waiting(mb["uart"]))
        /\ mb'["uart"].tx_data_idx + 1 = 1
    BY <1>2, <1>6, <1>7
  <2> QED BY <1>3, <1>4, <1>7, <2>1 DEF Uart!GetByte
<1>8. CASE b.tx_data_idx + 1 # Len(Oldest(b))
  <2>1. /\ Waiting(mb["uart"])' = Waiting(mb["uart"])
        /\ mb'["uart"].tx_data_idx + 1 = (mb["uart"].tx_data_idx + 1) + 1
    BY <1>2, <1>6, <1>8
  <2> QED BY <1>3, <1>4, <1>8, <2>1 DEF Uart!GetByte
<1> QED BY <1>7, <1>8

LEMMA UartReceives ==
  ASSUME Inv, NEW m \in UartFrames, Receive("uart", m)
  PROVE  Uart!Drop \/ Uart!Put(m)
<1> USE DEF Inv
<1> DEFINE b == mb["uart"]
<1>1. /\ saved.read = "hw" /\ out' = out /\ DOMAIN mb = Rings /\ "uart" \in Rings
      /\ dropped \in [Rings -> BOOLEAN]
  BY DEF Receive, Thread, HookInv, hooks, TypeOK, Rings
<1>2. /\ b \in MsgBuf("uart") /\ b \in Buf /\ Waiting(b) \in Seq(UartFrames)
      /\ Len(Waiting(b)) = Count(b) /\ Count(b) \in 0 .. N - 1
      /\ Count(b) = N - 1 <=> Full(b)
  BY <1>1, BufTypes, FrameTypes, WaitingType, RingIndex DEF RingInv
<1>3. CASE Full(b)
  <2>1. UNCHANGED mb /\ dropped'["uart"] = TRUE
    BY <1>1, <1>3 DEF Receive
  <2>2. Waiting(mb["uart"])' = Waiting(mb["uart"])
    BY <1>1, <2>1, Primed
  <2> QED BY <1>1, <1>2, <1>3, <2>1, <2>2 DEF Uart!Drop
<1>4. CASE ~Full(b)
  <2>1. mb'["uart"] = Stored(b, m) /\ dropped'["uart"] = FALSE
    BY <1>1, <1>4 DEF Receive
  <2>2. m \in Seq(Nat) /\ Frames["uart"] = UartFrames
    BY FrameTypes
  <2>3. Waiting(Stored(b, m)) = Append(Waiting(b), m) /\ Stored(b, m).tx_data_idx = b.tx_data_idx
    BY <1>1, <1>2, <1>4, <2>2, StoredAppends, StoredStep
  <2>4. /\ Waiting(mb["uart"])' = Append(Waiting(mb["uart"]), m)
        /\ mb'["uart"].tx_data_idx = mb["uart"].tx_data_idx
    BY <1>1, <2>1, <2>3, Primed
  <2>5. Len(Waiting(b)) < N - 1
    BY <1>2, <1>4, Indices
  <2> QED BY <1>1, <2>1, <2>4, <2>5 DEF Uart!Put
<1> QED BY <1>3, <1>4

LEMMA UartClears ==
  ASSUME Inv, mb'["uart"] = EmptyBuf, UNCHANGED <<out, dropped>>, pc = "uart"
  PROVE  Uart!Clear
<1>1. "uart" \in Rings
  BY DEF Rings
<1>2. Waiting(mb["uart"])' = <<>> /\ mb'["uart"].tx_data_idx + 1 = 1
  BY <1>1, EmptyStep, Primed
<1> QED BY <1>2 DEF Uart!Clear

LEMMA CanGets ==
  ASSUME Inv, mb["can"].rx_idx # mb["can"].tx_idx,
         mb'["can"] = Popped(mb["can"]), out'["can"] = Copied("can"),
         dropped' = dropped
  PROVE  Can!GetFrame
<1>1. /\ "can" \in Rings /\ mb["can"] \in MsgBuf("can") /\ mb["can"] \in Buf
      /\ Waiting(mb["can"]) \in Seq(CanFrames)
  BY BufTypes, FrameTypes DEF Inv, RingInv, Rings
<1>2. Waiting(mb["can"]) # <<>> /\ Head(Waiting(mb["can"])) = Oldest(mb["can"])
  BY <1>1, WaitingType
<1>3. Waiting(mb["can"])' = Tail(Waiting(mb["can"]))
  BY <1>1, PoppedStep, Primed
<1>4. out'["can"] = Head(Waiting(mb["can"]))
  BY <1>2 DEF Copied
<1> QED BY <1>2, <1>3, <1>4 DEF Can!GetFrame

LEMMA CanReceives ==
  ASSUME Inv, NEW m \in CanFrames, Receive("can", m)
  PROVE  Can!Drop \/ Can!Put(m)
<1> USE DEF Inv
<1> DEFINE b == mb["can"]
<1>1. /\ saved.read = "hw" /\ out' = out /\ DOMAIN mb = Rings /\ "can" \in Rings
      /\ dropped \in [Rings -> BOOLEAN]
  BY DEF Receive, Thread, HookInv, hooks, TypeOK, Rings
<1>2. /\ b \in MsgBuf("can") /\ b \in Buf /\ Waiting(b) \in Seq(CanFrames)
      /\ Len(Waiting(b)) = Count(b) /\ Count(b) \in 0 .. N - 1
      /\ Count(b) = N - 1 <=> Full(b)
  BY <1>1, BufTypes, FrameTypes, WaitingType, RingIndex DEF RingInv
<1>3. CASE Full(b)
  <2>1. UNCHANGED mb /\ dropped'["can"] = TRUE
    BY <1>1, <1>3 DEF Receive
  <2>2. Waiting(mb["can"])' = Waiting(mb["can"])
    BY <1>1, <2>1, Primed
  <2> QED BY <1>1, <1>2, <1>3, <2>1, <2>2 DEF Can!Drop
<1>4. CASE ~Full(b)
  <2>1. mb'["can"] = Stored(b, m) /\ dropped'["can"] = FALSE
    BY <1>1, <1>4 DEF Receive
  <2>2. m \in Seq(Nat)
    BY RingAssumption
  <2>3. Waiting(mb["can"])' = Append(Waiting(mb["can"]), m)
    BY <1>1, <1>2, <1>4, <2>1, <2>2, StoredAppends, Primed
  <2>4. Len(Waiting(b)) < N - 1
    BY <1>2, <1>4, Indices
  <2> QED BY <1>1, <2>1, <2>3, <2>4 DEF Can!Put
<1> QED BY <1>3, <1>4

LEMMA CanClears ==
  ASSUME Inv, mb'["can"] = EmptyBuf, UNCHANGED <<out, dropped>>, pc = "can"
  PROVE  Can!Clear
<1>1. "can" \in Rings
  BY DEF Rings
<1>2. Waiting(mb["can"])' = <<>>
  BY <1>1, EmptyStep, Primed
<1> QED BY <1>2 DEF Can!Clear

LEMMA UartStep == Inv /\ [Next]_vars => [Uart!Next]_(Uart!vars)
<1> SUFFICES ASSUME Inv, [Next]_vars PROVE [Uart!Next]_(Uart!vars)
  OBVIOUS
<1>0. DOMAIN mb = Rings /\ DOMAIN out = Rings /\ DOMAIN dropped = Rings /\ Rings = {"uart", "can"}
  BY DEF Inv, TypeOK, Rings
<1>1. CASE Open \/ Close \/ UNCHANGED vars
  BY <1>1, UartStutter DEF Open, Close, Unhooked, vars
<1>2. CASE Reset
  <2>1. PICK r \in Rings : /\ mb' = [mb EXCEPT ![r] = EmptyBuf] /\ UNCHANGED <<out, dropped>>
                            /\ pc = r
    BY <1>2 DEF Reset, Goto
  <2>2. CASE r = "uart"
    BY <1>0, <2>1, <2>2, UartClears DEF Uart!Next
  <2>3. CASE r = "can"
    BY <1>0, <2>1, <2>3, UartStutter
  <2> QED BY <1>0, <2>2, <2>3
<1>3. CASE IrqRead
  <2>1. /\ mb'["uart"] = Advanced(mb["uart"]) /\ out'["uart"] = Copied("uart")
        /\ dropped' = dropped
    BY <1>0, <1>3 DEF IrqRead, After
  <2>2. mb["uart"].rx_idx # mb["uart"].tx_idx
    <3>1. Count(mb["uart"]) = 1 /\ "uart" \in Rings
      BY <1>0, <1>3 DEF IrqRead, Inv, IrqInv
    <3> QED BY <3>1, BufTypes, RingIndex DEF Inv
  <2> QED BY <2>1, <2>2, UartGets DEF Uart!Next
<1>4. ASSUME NEW r \in Rings, Copy(r) PROVE [Uart!Next]_(Uart!vars)
  BY <1>4, UartStutter DEF Copy
<1>5. ASSUME NEW r \in Rings, Advance(r) PROVE [Uart!Next]_(Uart!vars)
  <2>1. /\ reading[r] /\ mb' = [mb EXCEPT ![r] = After(r)]
        /\ out' = [out EXCEPT ![r] = buffer[r]] /\ dropped' = dropped
    BY <1>5 DEF Advance
  <2>2. mb[r].rx_idx # mb[r].tx_idx /\ buffer[r] = Copied(r)
    BY <2>1 DEF Inv, ReadInv, ReadersSafe
  <2>3. CASE r = "uart"
    BY <1>0, <2>1, <2>2, <2>3, UartGets DEF Uart!Next, After
  <2>4. CASE r = "can"
    BY <1>0, <2>1, <2>4, UartStutter
  <2> QED BY <1>0, <2>3, <2>4
<1>6. ASSUME NEW r \in Rings, NEW m \in Frames[r], Receive(r, m)
      PROVE  [Uart!Next]_(Uart!vars)
  <2>1. CASE r = "uart"
    BY <1>6, <2>1, UartReceives, FrameTypes DEF Uart!Next
  <2>2. CASE r = "can"
    <3>1. UNCHANGED <<mb["uart"], out["uart"], dropped["uart"]>>
      BY <1>0, <1>6, <2>2 DEF Receive
    <3> QED BY <3>1, UartStutter
  <2> QED BY <1>0, <2>1, <2>2
<1> QED BY <1>1, <1>2, <1>3, <1>4, <1>5, <1>6 DEF Next

LEMMA CanStep == Inv /\ [Next]_vars => [Can!Next]_(Can!vars)
<1> SUFFICES ASSUME Inv, [Next]_vars PROVE [Can!Next]_(Can!vars)
  OBVIOUS
<1>0. DOMAIN mb = Rings /\ DOMAIN out = Rings /\ DOMAIN dropped = Rings /\ Rings = {"uart", "can"}
  BY DEF Inv, TypeOK, Rings
<1>1. CASE Open \/ Close \/ UNCHANGED vars
  BY <1>1, CanStutter DEF Open, Close, Unhooked, vars
<1>2. CASE Reset
  <2>1. PICK r \in Rings : /\ mb' = [mb EXCEPT ![r] = EmptyBuf] /\ UNCHANGED <<out, dropped>>
                            /\ pc = r
    BY <1>2 DEF Reset, Goto
  <2>2. CASE r = "can"
    BY <1>0, <2>1, <2>2, CanClears DEF Can!Next
  <2>3. CASE r = "uart"
    BY <1>0, <2>1, <2>3, CanStutter
  <2> QED BY <1>0, <2>2, <2>3
<1>3. CASE IrqRead
  BY <1>0, <1>3, CanStutter DEF IrqRead
<1>4. ASSUME NEW r \in Rings, Copy(r) PROVE [Can!Next]_(Can!vars)
  BY <1>4, CanStutter DEF Copy
<1>5. ASSUME NEW r \in Rings, Advance(r) PROVE [Can!Next]_(Can!vars)
  <2>1. /\ reading[r] /\ mb' = [mb EXCEPT ![r] = After(r)]
        /\ out' = [out EXCEPT ![r] = buffer[r]] /\ dropped' = dropped
    BY <1>5 DEF Advance
  <2>2. mb[r].rx_idx # mb[r].tx_idx /\ buffer[r] = Copied(r)
    BY <2>1 DEF Inv, ReadInv, ReadersSafe
  <2>3. CASE r = "can"
    <3>1. After("can") = Popped(mb["can"])
      BY DEF After
    <3> QED BY <1>0, <2>1, <2>2, <2>3, <3>1, CanGets DEF Can!Next
  <2>4. CASE r = "uart"
    BY <1>0, <2>1, <2>4, CanStutter
  <2> QED BY <1>0, <2>3, <2>4
<1>6. ASSUME NEW r \in Rings, NEW m \in Frames[r], Receive(r, m)
      PROVE  [Can!Next]_(Can!vars)
  <2>1. CASE r = "can"
    BY <1>6, <2>1, CanReceives, FrameTypes DEF Can!Next
  <2>2. CASE r = "uart"
    <3>1. UNCHANGED <<mb["can"], out["can"], dropped["can"]>>
      BY <1>0, <1>6, <2>2 DEF Receive
    <3> QED BY <3>1, CanStutter
  <2> QED BY <1>0, <2>1, <2>2
<1> QED BY <1>1, <1>2, <1>3, <1>4, <1>5, <1>6 DEF Next

(* The serial port laid over the CAN device is a queue of N - 1 frames read  *)
(* byte by byte, whatever frames arrive while it is opened, read and closed. *)
THEOREM UartRefines == Spec => UartIsQueue
<1>1. Init => Uart!Init
  BY EmptyStep DEF Init, Uart!Init, Rings
<1>2. QED
  BY <1>1, UartStep, InvHolds, PTL DEF Spec, UartIsQueue, Uart!Spec

(* And the CAN device stays a queue of frames for its former user. *)
THEOREM CanRefines == Spec => CanIsQueue
<1>1. Init => Can!Init
  BY EmptyStep DEF Init, Can!Init, Rings
<1>2. QED
  BY <1>1, CanStep, InvHolds, PTL DEF Spec, CanIsQueue, Can!Spec

----------------------------------------------------------------------------
(* A write *)

Sound == writer = "boot" \/ (writer = "app" /\ size < UInt8)

WriteTypes ==
  /\ size \in 0 .. MaxWrite /\ turn \in Nat
  /\ writer \in {"none", "app", "boot"}
  /\ writer = "none" => turn = 0 /\ bus = <<>>

(* What is on the bus is all that does not remain, and after each turn that   *)
(* is eight bytes more, or all.  The frames that are counted are as many as   *)
(* are needed.                                                                *)
Cut ==
  /\ remain = IF 8 * turn <= size THEN size - 8 * turn ELSE 0
  /\ writer = "app" => turn <= MsgCnt(size)
  /\ bus = Buffer(size - remain)
  /\ turn > 0 => Len(msg) \in 1 .. 8

WriteInv == WriteTypes /\ (Sound => Cut)

LEMMA Lengths == MaxWrite \in Nat /\ \A n \in 0 .. MaxWrite : n \in Nat
<1>1. MaxWrite \in Nat
  BY CanWriteAssumption
<1> QED BY <1>1

(* Up to 255 bytes the frames of the app are counted without loss. *)
LEMMA Counted ==
  ASSUME NEW n \in 1 .. 255
  PROVE  MsgCnt(n) \in Nat /\ 8 * MsgCnt(n) >= n /\ 8 * MsgCnt(n) < n + 8
<1>1. (n + 7) \div 8 \in 0 .. 255 /\ 8 * ((n + 7) \div 8) >= n /\ 8 * ((n + 7) \div 8) < n + 8
  OBVIOUS
<1> DEFINE c == (n + 7) \div 8
<1> HIDE DEF c
<1>2. c \in 0 .. 255 => c % 256 = c
  OBVIOUS
<1> QED BY <1>1, <1>2 DEF MsgCnt, UInt8, c

LEMMA SameBytes ==
  ASSUME NEW x \in Seq(Nat), NEW y \in Seq(Nat), Len(x) = Len(y),
         \A j \in 1 .. Len(x) : x[j] = y[j]
  PROVE  x = y
  OBVIOUS

(* A buffer and the bytes that follow it are a longer buffer. *)
LEMMA Joined ==
  ASSUME NEW k \in Nat, NEW l \in Nat
  PROVE  /\ Buffer(k) \o [j \in 1 .. l |-> k + j] = Buffer(k + l)
         /\ Buffer(0) = <<>>
<1> DEFINE a == Buffer(k)
           b == [j \in 1 .. l |-> k + j]
           c == Buffer(k + l)
<1>1. a \in Seq(Nat) /\ Len(a) = k /\ \A j \in 1 .. k : a[j] = j
  BY DEF Buffer
<1>2. b \in Seq(Nat) /\ Len(b) = l /\ \A j \in 1 .. l : b[j] = k + j
  OBVIOUS
<1>3. c \in Seq(Nat) /\ Len(c) = k + l /\ \A j \in 1 .. k + l : c[j] = j
  BY DEF Buffer
<1>4. Buffer(0) = <<>>
  BY DEF Buffer
<1> HIDE DEF a, b, c
<1>5. a \o b \in Seq(Nat) /\ Len(a \o b) = k + l
  BY <1>1, <1>2
<1>6. ASSUME NEW j \in 1 .. k + l PROVE (a \o b)[j] = c[j]
  BY <1>1, <1>2, <1>3
<1>7. a \o b = c
  BY <1>3, <1>5, <1>6, SameBytes
<1> QED BY <1>4, <1>7 DEF a, b, c

LEMMA SendWhole == WriteInv /\ Send => WriteInv'
<1> SUFFICES ASSUME WriteInv, Send PROVE WriteInv'
  OBVIOUS
<1> DEFINE l == MsgLen
<1>1. /\ writer # "none" /\ ~Over
      /\ msg' = Piece(l) /\ bus' = bus \o msg' /\ remain' = remain - l /\ turn' = turn + 1
      /\ writer' = writer /\ size' = size
  BY DEF Send
<1>2. size \in Nat /\ turn \in Nat /\ writer \in {"app", "boot"}
  <2>1. size \in 0 .. MaxWrite /\ turn \in Nat /\ writer \in {"none", "app", "boot"}
    BY DEF WriteInv, WriteTypes
  <2>2. size \in Nat
    BY <2>1, Lengths
  <2> QED BY <1>1, <2>1, <2>2
<1>3. WriteTypes'
  <2>1. size' \in 0 .. MaxWrite /\ turn' \in Nat
    BY <1>1, <1>2 DEF WriteInv, WriteTypes
  <2>2. writer' \in {"app", "boot"} /\ writer' # "none"
    BY <1>1, <1>2
  <2> QED BY <2>1, <2>2 DEF WriteTypes
<1>4. ASSUME Sound' PROVE Cut'
  <2>1. Sound /\ Cut
    BY <1>1, <1>4 DEF WriteInv, Sound
  <2>2. remain \in Nat /\ remain <= size /\ remain = IF 8 * turn <= size THEN size - 8 * turn ELSE 0
    BY <1>2, <2>1 DEF Cut
  <2>3. remain > 0 /\ (writer = "app" => turn + 1 <= MsgCnt(size))
    <3>1. CASE writer = "boot"
      BY <1>1, <2>2, <3>1 DEF Over
    <3>2. CASE writer = "app"
      <4>1. turn # MsgCnt(size) /\ turn <= MsgCnt(size)
        BY <1>1, <2>1, <3>2 DEF Over, Cut
      <4>2. size < 256
        BY <2>1, <3>2 DEF Sound, UInt8
      <4>3. size # 0
        <5>1. ASSUME size = 0 PROVE FALSE
          <6>1. MsgCnt(0) = 0
            BY DEF MsgCnt, UInt8
          <6> QED BY <1>2, <4>1, <5>1, <6>1
        <5> QED BY <5>1
      <4>4. MsgCnt(size) \in Nat /\ 8 * MsgCnt(size) < size + 8
        BY <1>2, <4>2, <4>3, Counted
      <4> DEFINE c == MsgCnt(size)
      <4> HIDE DEF c
      <4>5. c \in Nat /\ 8 * c < size + 8 /\ turn <= c /\ turn # c
        BY <4>1, <4>4 DEF c
      <4>6. turn + 1 <= c /\ 8 * turn < size
        BY <1>2, <4>5
      <4> QED BY <1>2, <2>2, <4>6 DEF c
    <3> QED BY <1>2, <3>1, <3>2
  <2>4. l \in 1 .. 8 /\ l <= remain /\ remain - l = IF 8 * (turn + 1) <= size THEN size - 8 * (turn + 1) ELSE 0
    BY <1>2, <2>2, <2>3 DEF MsgLen
  <2> HIDE DEF l
  <2>5. Len(Piece(l)) = l /\ Piece(l) = [j \in 1 .. l |-> (size - remain) + j]
    BY <2>4 DEF Piece
  <2>6. bus \o Piece(l) = Buffer(size - (remain - l))
    <3>1. size - remain \in Nat /\ l \in Nat /\ (size - remain) + l = size - (remain - l)
      BY <1>2, <2>2, <2>4
    <3>2. bus = Buffer(size - remain)
      BY <2>1 DEF Cut
    <3> QED BY <2>5, <3>1, <3>2, Joined
  <2>7. remain' = IF 8 * turn' <= size' THEN size' - 8 * turn' ELSE 0
    BY <1>1, <2>4
  <2>8. writer' = "app" => turn' <= MsgCnt(size)'
    BY <1>1, <2>3, ZenonT(30) DEF MsgCnt
  <2>9. bus' = Buffer(size - remain)'
    BY <1>1, <2>6, ZenonT(30) DEF Buffer
  <2>10. Len(msg)' \in 1 .. 8
    BY <1>1, <2>4, <2>5
  <2> QED BY <2>7, <2>8, <2>9, <2>10 DEF Cut
<1> QED BY <1>3, <1>4 DEF WriteInv

LEMMA CallWhole ==
  ASSUME WriteInv, NEW n \in 1 .. MaxWrite,
         Call("app", n, n % UInt8) \/ Call("boot", n, n)
  PROVE  WriteInv'
<1>1. /\ writer = "none" /\ writer' \in {"app", "boot"} /\ size' = n
      /\ turn' = turn /\ msg' = msg /\ bus' = bus
      /\ remain' = n \/ (writer' = "app" /\ remain' = n % UInt8)
  BY DEF Call
<1>2. turn = 0 /\ bus = <<>>
  BY <1>1 DEF WriteInv, WriteTypes
<1>3. n \in Nat /\ n > 0 /\ n \in 0 .. MaxWrite
  BY Lengths
<1>4. WriteTypes'
  BY <1>1, <1>2, <1>3 DEF WriteTypes
<1>5. ASSUME Sound' PROVE Cut'
  <2>1. remain' = n
    BY <1>1, <1>3, <1>5 DEF Sound, UInt8
  <2>2. writer' = "app" => MsgCnt(n) \in Nat
    <3>1. ASSUME writer' = "app" PROVE n \in 1 .. 255
      BY <1>1, <1>3, <1>5, <3>1 DEF Sound, UInt8
    <3> QED BY <3>1, Counted
  <2>3. bus' = Buffer(size' - remain')
    <3>1. size' - remain' = 0
      BY <1>1, <1>3, <2>1
    <3> QED BY <1>1, <1>2, <3>1, Joined
  <2>4. turn' = 0 /\ remain' = IF 8 * turn' <= size' THEN size' - 8 * turn' ELSE 0
    BY <1>1, <1>2, <1>3, <2>1
  <2>5. writer' = "app" => turn' <= MsgCnt(size')
    BY <1>1, <2>2, <2>4
  <2> QED BY <2>3, <2>4, <2>5 DEF Cut
<1> QED BY <1>4, <1>5 DEF WriteInv

LEMMA WriteStep == WriteInv /\ [WriteNext]_wvars => WriteInv'
<1> SUFFICES ASSUME WriteInv, [WriteNext]_wvars PROVE WriteInv'
  OBVIOUS
<1>1. CASE UartCanWrite
  BY <1>1, CallWhole DEF UartCanWrite
<1>2. CASE CanTx
  BY <1>2, CallWhole DEF CanTx
<1>3. CASE Send
  BY <1>3, SendWhole
<1>4. CASE Finish
  BY <1>4, Lengths DEF Finish, WriteInv, WriteTypes, Sound
<1>5. CASE UNCHANGED wvars
  BY <1>5 DEF wvars, WriteInv, WriteTypes, Sound, Cut, Buffer, MsgCnt
<1> QED BY <1>1, <1>2, <1>3, <1>4, <1>5 DEF WriteNext

LEMMA WholeAtEnd == WriteInv => WritesWhole
<1> SUFFICES ASSUME WriteInv, Sound PROVE (Over => bus = Buffer(size)) /\ (turn > 0 => Len(msg) \in 1 .. 8)
  BY DEF WritesWhole, Sound
<1>1. Cut /\ size \in Nat /\ turn \in Nat
  BY Lengths DEF WriteInv, WriteTypes
<1>2. ASSUME Over PROVE remain = 0
  <2>1. CASE writer = "boot"
    BY <1>2, <2>1 DEF Over
  <2>2. CASE writer = "app" /\ size = 0
    BY <1>1, <2>2 DEF Cut
  <2>3. CASE writer = "app" /\ size # 0
    <3>1. turn = MsgCnt(size) /\ size \in 1 .. 255
      BY <1>1, <1>2, <2>3 DEF Over, Sound, UInt8
    <3>2. 8 * turn >= size
      BY <3>1, Counted
    <3> QED BY <1>1, <3>2 DEF Cut
  <2> QED BY <2>1, <2>2, <2>3 DEF Sound
<1>3. ASSUME Over PROVE bus = Buffer(size)
  <2>1. size - remain = size
    BY <1>1, <1>2, <1>3
  <2> QED BY <1>1, <2>1 DEF Cut
<1> QED BY <1>1, <1>3 DEF Cut

(* A write of any length reaches the bus whole, once and in order, and none  *)
(* of its frames is empty: of the app while its length fits eight bits, of   *)
(* the bootloader always.                                                    *)
THEOREM WritesAlwaysWhole == WriteSpec => []WritesWhole
<1>1. WriteInit => WriteInv
  BY Lengths DEF WriteInit, WriteInv, WriteTypes, Sound
<1>2. QED
  BY <1>1, WriteStep, WholeAtEnd, PTL DEF WriteSpec

=============================================================================
