---------------------------- MODULE UpdateProofs ----------------------------
(***************************************************************************)
(* Theorems about Update, for all images, numbers of blocks and faults.    *)
(***************************************************************************)
EXTENDS Update, TLAPS

Loop == where \in {"loop", "listen", "fota_erase", "fota_write"}

\* The app is about to commit an image.
Committing == where = "commit" \/ (Rewriting /\ after = "commit")

\* The host's packets that a part holds.
Has(part, n) == \A b \in 1..n : part[b] = host.image

\* A packet that is being stored is one of the image, and the expected one.
PacketInv ==
  /\ where \in {"fota_erase", "fota_write", "dl_erase", "dl_write"} =>
       host.next < Blocks /\ expect = host.next
  /\ where = "dl_erase" => host.next = 0
  /\ Committing => host.next = Blocks - 1
  /\ where = "bl_program" => todo # <<>>

\* Flash and RAM hold the same bl_data, except while it is rewritten.
CopyInv ==
  /\ where \notin {"off", "bl_erase", "bl_program"} => ram = bl
  /\ where = "bl_erase" /\ after = "launch" => ram = bl
  /\ where = "bl_program" =>
       \/ todo = Words /\ bl.wait = "erased"
       \/ todo = <<"size", "wait", "tail">> /\ bl.sota = ram.sota /\ bl.wait = "erased"
       \/ /\ todo = <<"wait", "tail">>
          /\ bl.sota = ram.sota /\ bl.size = ram.size /\ bl.wait = "erased"
       \/ /\ todo = <<"tail">>
          /\ bl.sota = ram.sota /\ bl.size = ram.size /\ bl.wait = ram.wait
  /\ where = "bl_program" /\ after = "launch" => ram.sota = "no" /\ ram.wait = "window"

\* What the app writes to bl_data: it asks for an installation only when an
\* image is complete.
AppInv ==
  InApp =>
    /\ ram.wait # "erased" /\ ram.tail = "set"
    /\ ram.sota = "yes" => ram.size = "set" /\ (flags.ota_done \/ Committing)
    /\ where \in {"dl_erase", "dl_write"} => ~flags.ota_done

\* What is to be installed is whole; what counts as received is stored.
StoreInv ==
  /\ Asks(bl) \/ Asks(ram) => \E i \in Images : Whole(dl, i)
  /\ Committing => Whole(dl, host.image)
  /\ InApp /\ ~Committing /\ host.next > 0 /\ expect > 0 => Has(dl, expect)
  /\ Loop /\ host.next > 0 /\ expect > 0 => Has(app, expect)

\* As long as an image waits to be installed, the acknowledged packets are its own.
Pending == where \in {"sota_erase", "sota_write"} \/ Asks(bl) \/ Asks(ram)
AckInv ==
  host.next > 0 => Has(dl, host.next) \/ (Has(app, host.next) /\ ~Pending)

\* The loop of main is entered, and the installation begun, as bl_data says.
PathInv ==
  /\ where \in {"sota_erase", "sota_write"} => BootPath(bl) = "sota_erase"
  /\ Loop => BootPath(bl) = "loop"

\* Recoverable, and what each phase relies on to keep it so.
RecoverInv ==
  /\ Recoverable
  /\ InApp => Runs(app)
  /\ where = "sota_write" => \A b \in 1..(page - 1) : app[b] = dl[b]
  /\ \/ where \in {"listen", "fota_erase", "fota_write"}
     \/ where = "loop" /\ fota \in {"waiting", "fotaing"}
     => bl.wait = "window"
  /\ where \in {"fota_erase", "fota_write"} => bl.tail = "set"
  /\ where = "deinit" \/ (Rewriting /\ after = "launch") => Runs(app) \/ ram.tail = "set"

IInv1 == TypeOK /\ PacketInv /\ CopyInv /\ AppInv
IInv2 == IInv1 /\ PathInv /\ StoreInv /\ AckInv

LEMMA WordsLeft ==
  /\ Head(Words) = "sota" /\ Tail(Words) = <<"size", "wait", "tail">>
  /\ Head(<<"size", "wait", "tail">>) = "size"
  /\ Tail(<<"size", "wait", "tail">>) = <<"wait", "tail">>
  /\ Head(<<"wait", "tail">>) = "wait" /\ Tail(<<"wait", "tail">>) = <<"tail">>
  /\ Head(<<"tail">>) = "tail" /\ Tail(<<"tail">>) = <<>>
  /\ Words # <<>> /\ <<"size", "wait", "tail">> # <<>>
  /\ <<"wait", "tail">> # <<>> /\ <<"tail">> # <<>>
  BY DEF Words

LEMMA DataTypes == Erased \in Data /\ Defaults \in Data
  BY DEF Erased, Defaults, Data

LEMMA SameData ==
  ASSUME NEW d \in Data, NEW e \in Data,
         d.sota = e.sota, d.size = e.size, d.wait = e.wait, d.tail = e.tail
  PROVE  d = e
  BY DEF Data

LEMMA HandedOverData ==
  ASSUME NEW d \in Data
  PROVE  /\ HandedOver(d) \in Data
         /\ HandedOver(d).sota = "no" /\ HandedOver(d).wait = "window"
         /\ HandedOver(d).size = d.size /\ HandedOver(d).tail = d.tail
  BY DEF Data, HandedOver

\* The host, when an answer has come or was lost.
LEMMA HostTypes ==
  ASSUME NEW h \in [image : Images, next : 0..Blocks], NEW n \in 0..Blocks
  PROVE  /\ [h EXCEPT !.next = n] \in [image : Images, next : 0..Blocks]
         /\ [h EXCEPT !.next = n].image = h.image /\ [h EXCEPT !.next = n].next = n
  OBVIOUS

LEMMA InitInv1 == Init => IInv1
<1> SUFFICES ASSUME Init PROVE IInv1
  OBVIOUS
<1> USE ImageAssumption, DataTypes DEF Init
<1>1. TypeOK
  BY DEF TypeOK, Where, Left, Block
<1>2. PacketInv /\ CopyInv /\ AppInv
  BY DEF PacketInv, CopyInv, AppInv, Committing, InApp, Rewriting
<1> QED
  BY <1>1, <1>2 DEF IInv1

LEMMA StepInv1 == IInv1 /\ [Next]_vars => IInv1'
<1> SUFFICES ASSUME IInv1, [Next]_vars PROVE IInv1'
  OBVIOUS
<1> USE ImageAssumption, DataTypes
    DEF IInv1, TypeOK, PacketInv, CopyInv, AppInv, Committing, InApp, Rewriting, Block,
        vars, flash, rewrite
<1>1. CASE PowerUp
  BY <1>1 DEF PowerUp, BootPath, Where, Data
<1>2. CASE SotaErase
  BY <1>2 DEF SotaErase, Program, Fail, NextPage, Where
<1>3. CASE SotaWrite
  <2>1. TypeOK'
    <3>1. dl[page] \in Images \cup {Factory, Empty}
      OBVIOUS
    <3>2. app' \in [Block -> Images \cup {Factory, Empty}] /\ faults' \in 0..MaxFaults
      BY <1>3, <3>1 DEF SotaWrite, Program, Fail
    <3>3. page' \in Block
      BY <1>3 DEF SotaWrite, NextPage
    <3> QED
      BY <1>3, <3>2, <3>3 DEF SotaWrite, Program, Fail, Where
  <2>2. PacketInv'
    BY <1>3 DEF SotaWrite, Program, Fail, NextPage
  <2>3. CopyInv'
    BY <1>3 DEF SotaWrite, Program, Fail, NextPage
  <2>4. AppInv'
    BY <1>3 DEF SotaWrite, Program, Fail, NextPage
  <2> QED
    BY <2>1, <2>2, <2>3, <2>4
<1>4. CASE Deinit
  BY <1>4 DEF Deinit, Where
<1>5. CASE BlErase
  <2>1. TypeOK'
    <3>1. ram' \in Data
      BY <1>5, HandedOverData DEF BlErase
    <3> QED
      BY <1>5, <3>1 DEF BlErase, Where, Left
  <2>2. PacketInv'
    BY <1>5, WordsLeft DEF BlErase, HandedOver
  <2>3. CopyInv'
    BY <1>5, WordsLeft DEF BlErase, HandedOver, Erased
  <2>4. AppInv'
    BY <1>5, WordsLeft DEF BlErase, HandedOver
  <2> QED
    BY <2>1, <2>2, <2>3, <2>4
<1>6. CASE BlProgram
  <2>1. ASSUME NEW w \in {"sota", "size", "wait", "tail"}, Head(todo) = w
        PROVE  /\ bl' \in Data /\ bl'[w] = ram[w]
               /\ \A v \in {"sota", "size", "wait", "tail"} \ {w} : bl'[v] = bl[v]
    <3>1. bl' = [bl EXCEPT ![w] = ram[w]]
      BY <1>6, <2>1 DEF BlProgram
    <3>2. bl \in Data /\ ram \in Data
      OBVIOUS
    <3> HIDE DEF TypeOK, PacketInv, CopyInv, AppInv, IInv1
    <3>3. /\ [bl EXCEPT ![w] = ram[w]] \in Data
          /\ [bl EXCEPT ![w] = ram[w]][w] = ram[w]
          /\ \A v \in {"sota", "size", "wait", "tail"} \ {w} :
               [bl EXCEPT ![w] = ram[w]][v] = bl[v]
      BY <3>2, <2>1 DEF Data
    <3> QED
      BY <3>1, <3>3
  <2>2. /\ bl' \in Data /\ todo' \in Left
        /\ CopyInv'
    <3>1. CASE todo = Words /\ bl.wait = "erased"
      BY <1>6, <2>1, <3>1, WordsLeft DEF BlProgram, Left
    <3>2. CASE todo = <<"size", "wait", "tail">> /\ bl.sota = ram.sota /\ bl.wait = "erased"
      BY <1>6, <2>1, <3>2, WordsLeft DEF BlProgram, Left
    <3>3. CASE /\ todo = <<"wait", "tail">>
               /\ bl.sota = ram.sota /\ bl.size = ram.size /\ bl.wait = "erased"
      BY <1>6, <2>1, <3>3, WordsLeft DEF BlProgram, Left
    <3>4. CASE /\ todo = <<"tail">>
               /\ bl.sota = ram.sota /\ bl.size = ram.size /\ bl.wait = ram.wait
      <4>1. /\ bl' \in Data /\ bl'.tail = ram.tail /\ bl'.sota = ram.sota
            /\ bl'.size = ram.size /\ bl'.wait = ram.wait
        BY <2>1, <3>4, WordsLeft
      <4>2. bl' = ram
        BY <4>1, SameData
      <4> QED
        BY <1>6, <3>4, <4>1, <4>2, WordsLeft DEF BlProgram, Left
    <3> QED
      BY <1>6, <3>1, <3>2, <3>3, <3>4 DEF BlProgram
  <2>3. TypeOK'
    BY <1>6, <2>2 DEF BlProgram, Where
  <2>4. PacketInv' /\ AppInv'
    BY <1>6 DEF BlProgram
  <2> QED
    BY <2>2, <2>3, <2>4
<1>7. CASE Launch
  BY <1>7 DEF Launch, Where, Defaults
<1>8. CASE Watchdog \/ Listen \/ Nothing \/ LeaveLoop \/ Restart \/ Crash
  BY <1>8 DEF Watchdog, Listen, Nothing, LeaveLoop, Restart, Crash, Where
<1>19. CASE FotaTimeout \/ FotaStart
  BY <1>19 DEF FotaTimeout, FotaStart, Where
<1>20. CASE Restart4Fota
  BY <1>20 DEF Restart4Fota, Where
<1>9. CASE FotaPacket
  BY <1>9, SMTT(30) DEF FotaPacket, Packet, Accepted, Expected, Repeated, Reply, Where
<1>10. CASE FotaErase
  BY <1>10, SMTT(30) DEF FotaErase, Program, Fail, Reply, Where
<1>11. CASE FotaWrite
  <2>1. host' \in [image : Images, next : 0..Blocks] /\ expect' \in 0..(Blocks - 1)
    <3>1. /\ host.next + 1 \in 0..Blocks /\ 0 \in 0..Blocks
          /\ host \in [image : Images, next : 0..Blocks]
      BY <1>11 DEF FotaWrite
    <3>2. host' \in {host, [host EXCEPT !.next = host.next + 1], [host EXCEPT !.next = 0]}
      BY <1>11 DEF FotaWrite, Reply
    <3>3. host' \in [image : Images, next : 0..Blocks]
      <4> HIDE DEF TypeOK, PacketInv, CopyInv, AppInv, IInv1
      <4> QED
        BY <3>1, <3>2, HostTypes
    <3>4. expect' \in 0..(Blocks - 1)
      <4>1. \/ expect' = expect
            \/ expect' = IF expect = Blocks - 1 THEN 0 ELSE expect + 1
        BY <1>11 DEF FotaWrite, Stored, Program, Fail, Reply
      <4>2. expect \in 0..(Blocks - 1) /\ Blocks \in Nat \ {0}
        OBVIOUS
      <4> HIDE DEF TypeOK, PacketInv, CopyInv, AppInv, IInv1
      <4> QED
        BY <4>1, <4>2
    <3> QED
      BY <3>3, <3>4
  <2>2. app' \in [Block -> Images \cup {Factory, Empty}] /\ faults' \in 0..MaxFaults
    <3>1. host.next + 1 \in Block
      BY <1>11 DEF FotaWrite
    <3> QED
      BY <1>11, <3>1 DEF FotaWrite, Program, Fail, Reply
  <2>3. where' = "loop" /\ fota' \in {"waiting", "fotaing", "done", "timeout"}
    BY <1>11 DEF FotaWrite, Program, Fail
  <2> QED
    BY <1>11, <2>1, <2>2, <2>3 DEF FotaWrite, Where
<1>12. CASE OtaPacket
  BY <1>12 DEF OtaPacket, Packet, Accepted, Expected, Repeated, Reply, Where
<1>13. CASE DlErase
  BY <1>13 DEF DlErase, Where
<1>14. CASE DlWrite
  <2>1. TypeOK'
    <3>1. ram' \in Data
      BY <1>14, ZenonT(30) DEF DlWrite, Data
    <3>2. dl' \in [Block -> Images \cup {Empty}]
      BY <1>14 DEF DlWrite
    <3>3. expect' \in 0..(Blocks - 1) /\ host' \in [image : Images, next : 0..Blocks]
      BY <1>14 DEF DlWrite, Stored, Last, Reply
    <3> QED
      BY <1>14, <3>1, <3>2, <3>3 DEF DlWrite, Where
  <2>2. PacketInv'
    BY <1>14 DEF DlWrite, Stored, Last, Reply
  <2>3. CopyInv'
    BY <1>14 DEF DlWrite, Stored, Last, Reply
  <2>4. AppInv'
    <3>1. CASE Last
      BY <1>14, <3>1 DEF DlWrite, Data
    <3>2. CASE ~Last
      BY <1>14, <3>2 DEF DlWrite
    <3> QED
      BY <3>1, <3>2
  <2> QED
    BY <2>1, <2>2, <2>3, <2>4
<1>15. CASE Commit
  <2>1. TypeOK'
    <3>1. host' \in [image : Images, next : 0..Blocks]
      <4>1. host.next + 1 \in 0..Blocks /\ host \in [image : Images, next : 0..Blocks]
        BY <1>15 DEF Commit
      <4>2. host' \in {host, [host EXCEPT !.next = host.next + 1]}
        BY <1>15 DEF Commit, Reply
      <4> HIDE DEF TypeOK, PacketInv, CopyInv, AppInv, IInv1
      <4> QED
        BY <4>1, <4>2, HostTypes
    <3>2. flags' \in [ota_done : BOOLEAN, restart4fota : BOOLEAN]
      BY <1>15 DEF Commit
    <3> QED
      BY <1>15, <3>1, <3>2 DEF Commit, Where
  <2>2. PacketInv'
    BY <1>15 DEF Commit, Reply
  <2>3. CopyInv'
    BY <1>15 DEF Commit, Reply
  <2>4. AppInv'
    BY <1>15 DEF Commit, Reply
  <2> QED
    BY <2>1, <2>2, <2>3, <2>4
<1>16. CASE CmdRestart4Fota
  <2>1. TypeOK'
    <3>1. ram' \in Data
      BY <1>16 DEF CmdRestart4Fota, Data
    <3> QED
      BY <1>16, <3>1 DEF CmdRestart4Fota, Where
  <2>2. PacketInv'
    BY <1>16 DEF CmdRestart4Fota
  <2>3. CopyInv'
    BY <1>16 DEF CmdRestart4Fota
  <2>4. AppInv'
    BY <1>16 DEF CmdRestart4Fota
  <2> QED
    BY <2>1, <2>2, <2>3, <2>4
<1>17. CASE NewSession
  BY <1>17 DEF NewSession
<1>18. CASE UNCHANGED vars
  BY <1>18
<1> QED
  BY <1>1, <1>2, <1>3, <1>4, <1>5, <1>6, <1>7, <1>8, <1>9, <1>10, <1>11, <1>12, <1>13,
     <1>14, <1>15, <1>16, <1>17, <1>18, <1>19, <1>20
     DEF Next, Device, Boot

LEMMA PathStep == IInv1 /\ IInv1' /\ PathInv /\ [Next]_vars => PathInv'
<1> SUFFICES ASSUME IInv1, IInv1', PathInv, [Next]_vars PROVE PathInv'
  OBVIOUS
<1> USE DEF PathInv, Loop, vars, flash, rewrite
<1>1. CASE PowerUp \/ SotaErase \/ SotaWrite \/ Deinit \/ Launch \/ Watchdog
           \/ BlErase \/ BlProgram
  <2>1. after \in {"launch", "app", "commit", "restart4fota"}
    BY DEF IInv1, TypeOK
  <2> QED
    BY <1>1, <2>1 DEF PowerUp, SotaErase, SotaWrite, Deinit, Launch, Watchdog, BlErase,
           BlProgram, Program, Fail, BootPath
<1>2. CASE Listen \/ Nothing \/ FotaErase \/ FotaWrite \/ LeaveLoop \/ FotaTimeout
           \/ FotaStart \/ FotaPacket
  BY <1>2 DEF Listen, Nothing, FotaErase, FotaWrite, LeaveLoop, FotaTimeout, FotaStart,
              FotaPacket, Packet, Program, Fail, Reply
<1>3. CASE DlErase \/ DlWrite \/ Commit \/ Restart4Fota \/ Restart \/ Crash
           \/ OtaPacket \/ CmdRestart4Fota \/ NewSession
  BY <1>3 DEF DlErase, DlWrite, Commit, Restart4Fota, Restart, Crash, OtaPacket, Packet,
              CmdRestart4Fota, NewSession, Reply
<1>4. CASE UNCHANGED vars
  BY <1>4
<1> QED
  BY <1>1, <1>2, <1>3, <1>4 DEF Next, Device, Boot

(* What the steps do to the host, its packets and the blocks.                 *)
HostIs(n) == host' = [host EXCEPT !.next = n]

LEMMA HostKnown ==
  ASSUME IInv1
  PROVE  /\ host = [host EXCEPT !.next = host.next]
         /\ \A n : [host EXCEPT !.next = n].next = n
         /\ \A n : [host EXCEPT !.next = n].image = host.image
         /\ host.next \in 0..Blocks /\ expect \in 0..(Blocks - 1) /\ host.image \in Images
         /\ Blocks \in Nat \ {0}
  BY ImageAssumption DEF IInv1, TypeOK

\* A packet is to be stored, is repeated or refused.
FotaPacketDoes ==
  /\ where = "listen" /\ UNCHANGED <<app, dl, bl, ram, after>>
  /\ \/ where' = "fota_erase" /\ host' = host /\ (host.next > 0 => expect' = expect)
     \/ /\ where' = "loop" /\ expect' = expect
        /\ \/ HostIs(host.next) \/ HostIs(0)
           \/ HostIs(host.next + 1) /\ expect = host.next + 1 /\ host.next > 0

LEMMA FotaPacketIs == IInv1 /\ FotaPacket => FotaPacketDoes
  BY HostKnown DEF FotaPacketDoes, FotaPacket, Packet, Accepted, Expected, Repeated, Reply, HostIs,
                   flash, rewrite

OtaPacketDoes ==
  /\ where = "app" /\ UNCHANGED <<app, dl, bl, ram, after>>
  /\ \/ /\ where' \in {"dl_erase", "dl_write"} /\ host' = host
        /\ host.next > 0 => expect' = expect
     \/ /\ where' = "app" /\ expect' = expect
        /\ \/ HostIs(host.next) \/ HostIs(0)
           \/ HostIs(host.next + 1) /\ expect = host.next + 1 /\ host.next > 0

LEMMA OtaPacketIs == IInv1 /\ OtaPacket => OtaPacketDoes
  BY HostKnown DEF OtaPacketDoes, OtaPacket, Packet, Accepted, Expected, Repeated, Reply, HostIs,
                   flash, rewrite

FotaEraseDoes ==
  /\ where = "fota_erase" /\ UNCHANGED <<dl, bl, ram, after, expect>>
  /\ expect = host.next /\ host.next < Blocks
  /\ \/ /\ where' = "fota_write" /\ host' = host
        /\ app' = [app EXCEPT ![host.next + 1] = Empty]
     \/ where' = "loop" /\ app' = app /\ (HostIs(host.next) \/ HostIs(0))

LEMMA FotaEraseIs == IInv1 /\ FotaErase => FotaEraseDoes
  BY HostKnown DEF FotaEraseDoes, FotaErase, Program, Fail, Reply, HostIs, rewrite, IInv1,
                   PacketInv

FotaWriteDoes ==
  /\ where = "fota_write" /\ where' = "loop" /\ UNCHANGED <<dl, bl, ram, after>>
  /\ expect = host.next /\ host.next < Blocks
  /\ \/ /\ app' = [app EXCEPT ![host.next + 1] = host.image]
        /\ expect' \in {0, host.next + 1}
        /\ HostIs(host.next) \/ HostIs(host.next + 1)
     \/ app' = app /\ expect' = expect /\ (HostIs(host.next) \/ HostIs(0))

LEMMA FotaWriteIs == IInv1 /\ FotaWrite => FotaWriteDoes
<1> SUFFICES ASSUME IInv1, FotaWrite PROVE FotaWriteDoes
  OBVIOUS
<1>1. /\ where = "fota_write" /\ where' = "loop" /\ UNCHANGED <<dl, bl, ram, after>>
      /\ expect = host.next /\ host.next < Blocks
  BY DEF FotaWrite, Program, Fail, rewrite, IInv1, PacketInv
<1>2. CASE Program(host.next + 1, host.image, "loop") /\ Stored /\ Reply(TRUE)
  BY <1>1, <1>2, HostKnown DEF FotaWriteDoes, Program, Stored, Reply, HostIs
<1>3. CASE Fail("loop") /\ Reply(FALSE) /\ expect' = expect
  BY <1>1, <1>3, HostKnown DEF FotaWriteDoes, Fail, Reply, HostIs
<1> QED
  BY <1>1, <1>2, <1>3 DEF FotaWrite

DlWriteDoes ==
  /\ where = "dl_write" /\ UNCHANGED <<app, bl>>
  /\ expect = host.next /\ host.next < Blocks
  /\ dl' = [dl EXCEPT ![host.next + 1] = host.image]
  /\ \/ /\ where' = "bl_erase" /\ after' = "commit" /\ host' = host
        /\ host.next = Blocks - 1
     \/ /\ where' = "app" /\ UNCHANGED <<ram, after>>
        /\ expect' \in {0, host.next + 1}
        /\ HostIs(host.next) \/ HostIs(host.next + 1)
  /\ ~Asks(bl) /\ ~Asks(ram)

LEMMA DlWriteIs == IInv1 /\ DlWrite => DlWriteDoes
<1> SUFFICES ASSUME IInv1, DlWrite PROVE DlWriteDoes
  OBVIOUS
<1>1. /\ where = "dl_write" /\ UNCHANGED <<app, bl>>
      /\ expect = host.next /\ host.next < Blocks
      /\ dl' = [dl EXCEPT ![host.next + 1] = host.image]
  BY DEF DlWrite, IInv1, PacketInv
<1>2. ~Asks(bl) /\ ~Asks(ram)
  BY <1>1 DEF IInv1, CopyInv, AppInv, InApp, Committing, Rewriting, Asks
<1>3. CASE Last
  BY <1>1, <1>2, <1>3, HostKnown DEF DlWriteDoes, DlWrite, Last
<1>4. CASE ~Last
  BY <1>1, <1>2, <1>4, HostKnown DEF DlWriteDoes, DlWrite, Stored, Reply, HostIs
<1> QED
  BY <1>3, <1>4

CommitDoes ==
  /\ where = "commit" /\ where' = "app" /\ UNCHANGED <<app, dl, bl, ram, after, expect>>
  /\ host.next = Blocks - 1 /\ (HostIs(host.next) \/ HostIs(host.next + 1))

LEMMA CommitIs == IInv1 /\ Commit => CommitDoes
  BY HostKnown DEF CommitDoes, Commit, Reply, HostIs, flash, rewrite, IInv1, PacketInv,
                   Committing

LEMMA BlProgramIs ==
  ASSUME IInv1, IInv1', BlProgram
  PROVE  /\ where = "bl_program" /\ where' \in {"bl_program", after}
         /\ UNCHANGED <<app, dl, ram, after, expect, host, flags>>
         /\ Asks(bl') => Asks(ram)
<1>1. /\ where = "bl_program" /\ where' \in {"bl_program", after}
      /\ UNCHANGED <<app, dl, ram, after, expect, host, flags>>
      /\ after \in {"launch", "app", "commit", "restart4fota"}
  BY DEF BlProgram, IInv1, TypeOK
<1>2. Asks(bl') => Asks(ram')
  BY <1>1 DEF IInv1, CopyInv, Asks
<1> QED
  BY <1>1, <1>2 DEF Asks

\* Storing a block keeps the blocks before it.
LEMMA BlockStored ==
  ASSUME NEW S, NEW part \in [Block -> S], NEW n \in 0..(Blocks - 1), NEW i
  PROVE  /\ \A b \in 1..n : [part EXCEPT ![n + 1] = i][b] = part[b]
         /\ [part EXCEPT ![n + 1] = i][n + 1] = i
         /\ 1..(n + 1) = 1..n \cup {n + 1}
  BY ImageAssumption DEF Block

LEMMA StoreStep == IInv2 /\ IInv1' /\ PathInv' /\ [Next]_vars => StoreInv'
<1> SUFFICES ASSUME IInv2, IInv1', PathInv', [Next]_vars PROVE StoreInv'
  OBVIOUS
<1>h. /\ host = [host EXCEPT !.next = host.next]
      /\ \A n : [host EXCEPT !.next = n].next = n
      /\ \A n : [host EXCEPT !.next = n].image = host.image
      /\ host.next \in 0..Blocks /\ expect \in 0..(Blocks - 1) /\ host.image \in Images
      /\ Blocks \in Nat \ {0}
  BY HostKnown DEF IInv2
<1> USE ImageAssumption
    DEF IInv2, StoreInv, Asks, Has, Whole, Committing, InApp, Rewriting, Loop, Block
<1>t. /\ host \in [image : Images, next : 0..Blocks]
      /\ expect \in 0..(Blocks - 1)
      /\ dl \in [Block -> Images \cup {Empty}]
      /\ app \in [Block -> Images \cup {Factory, Empty}]
      /\ after \in {"launch", "app", "commit", "restart4fota"}
  BY DEF IInv1, TypeOK
<1>1. CASE PowerUp
  BY <1>1 DEF PowerUp, BootPath, flash
<1>2. CASE SotaErase \/ SotaWrite \/ Deinit \/ Watchdog
  BY <1>2 DEF SotaErase, SotaWrite, Deinit, Watchdog, Program, Fail, flash, rewrite
<1>3. CASE BlErase
  BY <1>3 DEF BlErase, HandedOver, Erased
<1>4. CASE BlProgram
  <2>1. /\ where = "bl_program" /\ where' \in {"bl_program", after}
        /\ UNCHANGED <<app, dl, ram, after, expect, host, flags>>
        /\ Asks(bl') => Asks(ram)
    <3> HIDE DEF Asks
    <3> QED BY <1>4, BlProgramIs
  <2>2. after \in {"launch", "app", "commit", "restart4fota"}
    BY <1>t
  <2> QED
    BY <2>1, <2>2
<1>5. CASE Launch
  BY <1>5 DEF Launch, Defaults, flash
<1>6. CASE Listen \/ Nothing \/ LeaveLoop \/ FotaTimeout \/ FotaStart \/ Restart4Fota
           \/ Restart \/ Crash
  BY <1>6 DEF Listen, Nothing, LeaveLoop, FotaTimeout, FotaStart, Restart4Fota, Restart,
              Crash, flash, rewrite
<1>7. CASE FotaPacket
  <2>1. FotaPacketDoes
    BY <1>7, FotaPacketIs DEF IInv2
  <2> QED
    BY <1>h, <1>t, <2>1 DEF FotaPacketDoes, HostIs
<1>8. CASE FotaErase
  <2>1. FotaEraseDoes
    BY <1>8, FotaEraseIs DEF IInv2
  <2> QED
    BY <1>h, <1>t, <2>1, BlockStored DEF FotaEraseDoes, HostIs
<1>9. CASE FotaWrite
  <2>1. FotaWriteDoes
    BY <1>9, FotaWriteIs DEF IInv2
  <2> QED
    BY <1>h, <1>t, <2>1, BlockStored DEF FotaWriteDoes, HostIs
<1>10. CASE OtaPacket
  <2>1. OtaPacketDoes
    BY <1>10, OtaPacketIs DEF IInv2
  <2> QED
    BY <1>h, <1>t, <2>1 DEF OtaPacketDoes, HostIs
<1>11. CASE DlErase
  BY <1>11 DEF DlErase, rewrite, IInv1, PacketInv, CopyInv, AppInv
<1>12. CASE DlWrite
  <2>1. DlWriteDoes
    BY <1>12, DlWriteIs DEF IInv2
  <2> QED
    <3>1. dl' = [dl EXCEPT ![host.next + 1] = host.image] /\ host.next \in 0..(Blocks - 1)
      BY <1>h, <2>1 DEF DlWriteDoes
    <3>2. \A b \in 1..(host.next + 1) : dl'[b] = host.image
      BY <1>h, <1>t, <2>1, <3>1, BlockStored DEF DlWriteDoes
    <3>3. CASE where' = "bl_erase"
      <4>1. host.next + 1 = Blocks /\ host' = host /\ after' = "commit"
        BY <1>h, <2>1, <3>3 DEF DlWriteDoes
      <4>2. dl' = [b \in Block |-> dl'[b]]
        BY <1>t, <3>1
      <4>3. dl' = [b \in Block |-> host.image]
        BY <3>2, <4>1, <4>2
      <4> QED
        BY <1>h, <3>3, <4>1, <4>3
    <3>4. CASE where' = "app"
      BY <1>h, <1>t, <2>1, <3>2, <3>4 DEF DlWriteDoes, HostIs
    <3> QED
      BY <2>1, <3>3, <3>4 DEF DlWriteDoes
<1>13. CASE Commit
  <2>1. CommitDoes
    BY <1>13, CommitIs DEF IInv2
  <2> QED
    BY <1>h, <1>t, <2>1 DEF CommitDoes, HostIs
<1>14. CASE CmdRestart4Fota
  BY <1>14 DEF CmdRestart4Fota, flash, IInv1, AppInv
<1>15. CASE NewSession
  BY <1>15 DEF NewSession, flash, rewrite
<1>16. CASE UNCHANGED vars
  BY <1>16 DEF vars, flash, rewrite
<1> QED
  BY <1>1, <1>2, <1>3, <1>4, <1>5, <1>6, <1>7, <1>8, <1>9, <1>10, <1>11, <1>12, <1>13,
     <1>14, <1>15, <1>16
     DEF Next, Device, Boot

LEMMA AckStep == IInv2 /\ IInv1' /\ PathInv' /\ [Next]_vars => AckInv'
<1> SUFFICES ASSUME IInv2, IInv1', PathInv', [Next]_vars PROVE AckInv'
  OBVIOUS
<1>h. /\ host = [host EXCEPT !.next = host.next]
      /\ \A n : [host EXCEPT !.next = n].next = n
      /\ \A n : [host EXCEPT !.next = n].image = host.image
      /\ host.next \in 0..Blocks /\ expect \in 0..(Blocks - 1) /\ host.image \in Images
      /\ Blocks \in Nat \ {0}
  BY HostKnown DEF IInv2
<1> USE ImageAssumption
    DEF IInv2, AckInv, Asks, Has, Whole, Pending, Committing, InApp, Rewriting, Loop, Block
<1>t. /\ host \in [image : Images, next : 0..Blocks]
      /\ expect \in 0..(Blocks - 1)
      /\ dl \in [Block -> Images \cup {Empty}]
      /\ app \in [Block -> Images \cup {Factory, Empty}]
      /\ after \in {"launch", "app", "commit", "restart4fota"}
  BY DEF IInv1, TypeOK
<1>1. CASE PowerUp
  BY <1>1 DEF PowerUp, BootPath, flash
<1>2. CASE SotaErase \/ SotaWrite \/ Deinit \/ Watchdog
  BY <1>2 DEF SotaErase, SotaWrite, Deinit, Watchdog, Program, Fail, flash, rewrite
<1>3. CASE BlErase
  BY <1>3 DEF BlErase, HandedOver, Erased
<1>4. CASE BlProgram
  <2>1. /\ where = "bl_program" /\ where' \in {"bl_program", after}
        /\ UNCHANGED <<app, dl, ram, after, expect, host, flags>>
        /\ Asks(bl') => Asks(ram)
    <3> HIDE DEF Asks
    <3> QED BY <1>4, BlProgramIs
  <2> QED
    BY <1>t, <2>1
<1>5. CASE Launch
  BY <1>5 DEF Launch, Defaults, flash
<1>6. CASE Listen \/ Nothing \/ LeaveLoop \/ FotaTimeout \/ FotaStart \/ Restart4Fota
           \/ Restart \/ Crash
  BY <1>6 DEF Listen, Nothing, LeaveLoop, FotaTimeout, FotaStart, Restart4Fota, Restart,
              Crash, flash, rewrite
<1>7. CASE FotaPacket
  <2>1. FotaPacketDoes
    BY <1>7, FotaPacketIs DEF IInv2
  <2> QED
    BY <1>h, <1>t, <2>1 DEF FotaPacketDoes, HostIs, StoreInv, PathInv
<1>8. CASE FotaErase
  <2>1. FotaEraseDoes
    BY <1>8, FotaEraseIs DEF IInv2
  <2> QED
    BY <1>h, <1>t, <2>1, BlockStored DEF FotaEraseDoes, HostIs
<1>9. CASE FotaWrite
  <2>1. FotaWriteDoes
    BY <1>9, FotaWriteIs DEF IInv2
  <2> QED
    <3>1. CASE app' = [app EXCEPT ![host.next + 1] = host.image]
      <4>1. host.next \in 0..(Blocks - 1)
        BY <1>h, <2>1 DEF FotaWriteDoes
      <4>2. \A b \in 1..(host.next + 1) : app'[b] = host.image
        BY <1>h, <1>t, <2>1, <3>1, <4>1, BlockStored DEF FotaWriteDoes, StoreInv
      <4>3. ~Pending'
        BY <2>1 DEF FotaWriteDoes, PathInv, BootPath, IInv1, CopyInv
      <4>4. host'.image = host.image /\ host'.next \in {0, host.next, host.next + 1}
        BY <1>h, <2>1 DEF FotaWriteDoes, HostIs
      <4> QED
        BY <1>h, <4>1, <4>2, <4>3, <4>4
    <3>2. CASE app' = app /\ (HostIs(host.next) \/ HostIs(0))
      <4>1. host'.image = host.image /\ host'.next \in {0, host.next}
        BY <1>h, <3>2 DEF HostIs
      <4>2. UNCHANGED <<dl, bl, ram>> /\ where' = "loop"
        BY <2>1 DEF FotaWriteDoes
      <4> QED
        BY <1>h, <3>2, <4>1, <4>2
    <3> QED
      BY <2>1, <3>1, <3>2 DEF FotaWriteDoes
<1>10. CASE OtaPacket
  <2>1. OtaPacketDoes
    BY <1>10, OtaPacketIs DEF IInv2
  <2> QED
    BY <1>h, <1>t, <2>1 DEF OtaPacketDoes, HostIs, StoreInv
<1>11. CASE DlErase
  BY <1>11 DEF DlErase, rewrite, IInv1, PacketInv
<1>12. CASE DlWrite
  <2>1. DlWriteDoes
    BY <1>12, DlWriteIs DEF IInv2
  <2> QED
    BY <1>h, <1>t, <2>1, BlockStored DEF DlWriteDoes, HostIs, StoreInv
<1>13. CASE Commit
  <2>1. CommitDoes
    BY <1>13, CommitIs DEF IInv2
  <2> QED
    BY <1>h, <1>t, <2>1 DEF CommitDoes, HostIs, StoreInv
<1>14. CASE CmdRestart4Fota
  BY <1>14 DEF CmdRestart4Fota, flash, IInv1, AppInv
<1>15. CASE NewSession
  BY <1>15 DEF NewSession, flash, rewrite
<1>16. CASE UNCHANGED vars
  BY <1>16 DEF vars, flash, rewrite
<1> QED
  BY <1>1, <1>2, <1>3, <1>4, <1>5, <1>6, <1>7, <1>8, <1>9, <1>10, <1>11, <1>12, <1>13,
     <1>14, <1>15, <1>16
     DEF Next, Device, Boot

LEMMA RecoverStep ==
  IInv1 /\ IInv1' /\ PathInv /\ PathInv' /\ RecoverInv /\ [Next]_vars => RecoverInv'
<1> SUFFICES ASSUME IInv1, IInv1', PathInv, PathInv', RecoverInv, [Next]_vars
             PROVE  RecoverInv'
  OBVIOUS
<1> USE ImageAssumption
    DEF RecoverInv, Recoverable, Survivable, WayOn, InApp, Rewriting, Loop
<1>t. /\ app \in [Block -> Images \cup {Factory, Empty}]
      /\ dl \in [Block -> Images \cup {Empty}]
      /\ page \in Block /\ page' \in Block
      /\ after \in {"launch", "app", "commit", "restart4fota"}
  BY DEF IInv1, TypeOK
<1>c. where \notin {"off", "bl_erase", "bl_program"} => ram = bl
  BY DEF IInv1, CopyInv
<1>1. CASE PowerUp
  BY <1>1 DEF PowerUp, BootPath, flash
<1>2. CASE SotaErase
  <2>1. /\ where = "sota_erase" /\ UNCHANGED <<dl, bl, ram, after>>
        /\ \/ where' = "sota_erase"
           \/ where' = "sota_write" /\ page' = 1
           \/ where' = "deinit" /\ PortOpen
    BY <1>2 DEF SotaErase, Program, Fail, NextPage, rewrite
  <2>2. WayOn' /\ BootPath(bl) = "sota_erase"
    BY <2>1 DEF PathInv, BootPath
  <2>3. CASE where' = "sota_write" /\ page' = 1
    <3>1. \A b \in 1..(page' - 1) : app'[b] = dl'[b]
      BY <2>3
    <3> QED
      BY <2>1, <2>2, <2>3, <3>1
  <2>4. CASE where' # "sota_write"
    BY <1>c, <2>1, <2>2, <2>4 DEF PortOpen
  <2> QED
    BY <2>1, <2>3, <2>4
<1>3. CASE SotaWrite
  <2>1. /\ where = "sota_write" /\ UNCHANGED <<dl, bl, ram, after>>
        /\ \/ /\ app' = [app EXCEPT ![page] = dl[page]]
              /\ \/ page = Blocks /\ where' = "deinit"
                 \/ page # Blocks /\ where' = "sota_write" /\ page' = page + 1
           \/ where' = "deinit" /\ PortOpen
    BY <1>3 DEF SotaWrite, Program, Fail, NextPage, rewrite
  <2>2. CASE app' = [app EXCEPT ![page] = dl[page]]
    <3>1. \A b \in 1..page : app'[b] = dl[b]
      BY <1>t, <2>1, <2>2 DEF Block
    <3>2. CASE page = Blocks
      <4>1. app' = dl
        BY <1>t, <2>2, <3>1, <3>2 DEF Block
      <4> QED
        BY <1>c, <2>1, <2>2, <3>2, <4>1 DEF PathInv, BootPath, PortOpen
    <3>3. CASE page # Blocks
      <4>1. \/ where' = "sota_write" /\ page' = page + 1
            \/ where' = "deinit" /\ PortOpen
        BY <2>1, <3>3
      <4>2. WayOn'
        BY <2>1 DEF PathInv, BootPath
      <4>3. where' = "sota_write" => \A b \in 1..(page' - 1) : app'[b] = dl'[b]
        BY <1>t, <2>1, <3>1, <4>1 DEF Block
      <4> QED
        BY <1>c, <2>1, <4>1, <4>2, <4>3 DEF PortOpen
    <3> QED
      BY <3>2, <3>3
  <2>3. CASE where' = "deinit" /\ PortOpen
    BY <1>c, <2>1, <2>3 DEF PathInv, BootPath, PortOpen
  <2> QED
    BY <2>1, <2>2, <2>3
<1>4. CASE Deinit
  BY <1>4, <1>c DEF Deinit, flash
<1>5. CASE BlErase
  BY <1>5 DEF BlErase, HandedOver, BootPath, Erased
<1>6. CASE BlProgram
  <2>1. /\ where = "bl_program" /\ where' \in {"bl_program", after}
        /\ UNCHANGED <<app, dl, ram, after, fota>>
    BY <1>6 DEF BlProgram
  <2>2. /\ where' # "bl_program" => bl' = ram
        /\ \/ bl'.wait = "erased"
           \/ bl'.wait = ram.wait /\ bl'.sota = ram.sota /\ bl'.size = ram.size
    BY <1>t, <2>1 DEF IInv1, CopyInv
  <2>3. after = "launch" => ram.sota = "no" /\ ram.wait = "window"
    BY <2>1 DEF IInv1, CopyInv
  <2>4. after # "launch" => ram.tail = "set" /\ (ram.sota = "yes" => ram.size = "set")
    BY <2>1 DEF IInv1, AppInv
  <2> QED
    BY <1>t, <2>1, <2>2, <2>3, <2>4 DEF BootPath
<1>7. CASE Launch
  BY <1>7 DEF Launch, flash
<1>8. CASE Listen \/ Nothing \/ LeaveLoop \/ FotaTimeout \/ FotaStart
  BY <1>8, <1>c DEF Listen, Nothing, LeaveLoop, FotaTimeout, FotaStart, LoopOver, PathInv,
                    flash, rewrite
<1>9. CASE FotaPacket
  BY <1>9, <1>c, FotaPacketIs DEF FotaPacketDoes, FotaPacket, PortOpen
<1>10. CASE FotaErase
  BY <1>10, FotaEraseIs DEF FotaEraseDoes, PathInv
<1>11. CASE FotaWrite
  BY <1>11, FotaWriteIs DEF FotaWriteDoes, PathInv
<1>12. CASE OtaPacket
  BY <1>12, OtaPacketIs DEF OtaPacketDoes
<1>13. CASE DlErase
  BY <1>13, <1>c DEF DlErase, rewrite, IInv1, AppInv, Committing, BootPath
<1>14. CASE DlWrite
  BY <1>14, <1>c, DlWriteIs DEF DlWriteDoes, Asks, BootPath
<1>15. CASE Commit
  BY <1>15, CommitIs DEF CommitDoes
<1>16. CASE CmdRestart4Fota
  BY <1>16, <1>c DEF CmdRestart4Fota, flash
<1>17. CASE Watchdog \/ Restart4Fota \/ Restart \/ Crash \/ NewSession
  BY <1>17 DEF Watchdog, Restart4Fota, Restart, Crash, NewSession, flash, rewrite
<1>18. CASE UNCHANGED vars
  BY <1>18 DEF vars, flash, rewrite
<1> QED
  BY <1>1, <1>2, <1>3, <1>4, <1>5, <1>6, <1>7, <1>8, <1>9, <1>10, <1>11, <1>12, <1>13,
     <1>14, <1>15, <1>16, <1>17, <1>18
     DEF Next, Device, Boot

----------------------------------------------------------------------------
IInv == IInv1 /\ PathInv /\ StoreInv /\ AckInv /\ RecoverInv

LEMMA InitInv == Init => IInv
<1> SUFFICES ASSUME Init PROVE IInv
  OBVIOUS
<1>1. IInv1
  BY InitInv1
<1>2. PathInv /\ StoreInv /\ AckInv
  BY DEF Init, PathInv, StoreInv, AckInv, Loop, Asks, Erased, Committing, InApp, Rewriting
<1>3. RecoverInv
  BY ImageAssumption
     DEF Init, RecoverInv, Recoverable, Survivable, WayOn, BootPath, Erased, InApp, Rewriting,
         Runs, Whole
<1> QED
  BY <1>1, <1>2, <1>3 DEF IInv

LEMMA StepInv == IInv /\ [Next]_vars => IInv'
<1> SUFFICES ASSUME IInv, [Next]_vars PROVE IInv'
  OBVIOUS
<1>1. IInv1'
  BY StepInv1 DEF IInv
<1>2. PathInv'
  BY <1>1, PathStep DEF IInv
<1>3. StoreInv'
  BY <1>1, <1>2, StoreStep DEF IInv, IInv2
<1>4. AckInv'
  BY <1>1, <1>2, AckStep DEF IInv, IInv2
<1>5. RecoverInv'
  BY <1>1, <1>2, RecoverStep DEF IInv
<1> QED
  BY <1>1, <1>2, <1>3, <1>4, <1>5 DEF IInv

THEOREM InvHolds == Spec => []IInv
  BY InitInv, StepInv, PTL DEF Spec

\* What the processor does, the flash, bl_data and the host keep their types.
THEOREM TypeCorrect == Spec => []TypeOK
<1>1. IInv => TypeOK
  BY DEF IInv, IInv1
<1> QED
  BY <1>1, InvHolds, PTL

\* However packets were repeated, sessions abandoned and resets placed, bl_data
\* asks only for the installation of one whole image of the host.
THEOREM CommitSafe == Spec => []CommitMeansWhole
<1>1. IInv => CommitMeansWhole
  BY DEF IInv, StoreInv, Asks, CommitMeansWhole, BootPath
<1> QED
  BY <1>1, InvHolds, PTL

\* An acknowledged packet is in flash, in the one partition or the other.
THEOREM AckSafe == Spec => []AckedMeansStored
<1>1. IInv => AckedMeansStored
  <2> SUFFICES ASSUME IInv PROVE AckedMeansStored
    OBVIOUS
  <2>1. host.next \in 0..Blocks
    BY DEF IInv, IInv1, TypeOK
  <2> QED
    BY <2>1 DEF IInv, AckInv, Has, AckedMeansStored
<1> QED
  BY <1>1, InvHolds, PTL

\* Wherever power may fail, the next start has a way on.
THEOREM RecoverableAlways == Spec => []Recoverable
<1>1. IInv => Recoverable
  BY DEF IInv, RecoverInv
<1> QED
  BY <1>1, InvHolds, PTL

-----------------------------------------------------------------------------
(* Update implements Installer. *)

\* The bootloader is done with an installation only when the image is in place
\* or the flash has failed, and starts no app before.
DoneInv ==
  /\ where = "deinit" \/ (where = "bl_erase" /\ after = "launch") =>
       ~Asks(bl) \/ app = dl \/ faults > 0
  /\ where = "launch" => ~Asks(bl)

\* No two images are whole in one partition, and none in one with an empty block.
LEMMA OneWhole ==
  ASSUME NEW part, NEW i, NEW j, Whole(part, i), Whole(part, j)
  PROVE  i = j
<1>1. 1 \in Block
  BY ImageAssumption DEF Block
<1> QED
  BY <1>1 DEF Whole

LEMMA Stuttered ==
  ASSUME Slot' = Slot, Asked' = Asked, InApp' <=> InApp, faults' = faults
  PROVE  UNCHANGED Installing!vars
<1>1. InApp \in BOOLEAN /\ InApp' \in BOOLEAN
  BY DEF InApp
<1>2. InApp' = InApp
  BY <1>1
<1>3. (faults > 0)' = (faults > 0)
  OBVIOUS
<1> QED
  BY <1>2, <1>3 DEF Installing!vars

LEMMA Started ==
  ASSUME Slot' = Slot, Asked' = Asked, InApp', ~InApp, faults' = faults, Asked = {}, Slot # {}
  PROVE  Installing!Start
<1>1. (faults > 0)' = (faults > 0)
  OBVIOUS
<1> QED
  BY <1>1 DEF Installing!Start

LEMMA Stopped ==
  ASSUME Slot' = Slot, Asked' = Asked, ~InApp', faults' = faults
  PROVE  [Installing!Next]_(Installing!vars)
<1>1. CASE InApp
  <2>1. (faults > 0)' = (faults > 0)
    OBVIOUS
  <2>2. Installing!Stop
    BY <1>1, <2>1 DEF Installing!Stop
  <2> QED
    BY <2>2 DEF Installing!Next
<1>2. CASE ~InApp
  BY <1>2, Stuttered
<1> QED
  BY <1>1, <1>2

\* What the app does to bl_data.
LEMMA Reconsidered ==
  ASSUME Slot' = Slot, InApp, InApp', faults' = faults,
         Asked' = {} \/ Asked' = Asked \/ (Asked = {} /\ \E i \in Images : Asked' = {i})
  PROVE  [Installing!Next]_(Installing!vars)
<1>1. (faults > 0)' = (faults > 0)
  OBVIOUS
<1>2. InApp' = InApp
  BY DEF InApp
<1>3. CASE Asked' = {}
  BY <1>1, <1>2, <1>3 DEF Installing!Next, Installing!Withdraw
<1>4. CASE Asked' = Asked
  BY <1>4, Stuttered
<1>5. CASE Asked = {} /\ \E i \in Images : Asked' = {i}
  BY <1>1, <1>2, <1>5 DEF Installing!Next, Installing!Ask, Installing!One
<1> QED
  BY <1>3, <1>4, <1>5

\* What the bootloader does to the partition of the app.
LEMMA Written ==
  ASSUME Asked' = Asked, ~InApp, ~InApp', faults' = faults,
         \/ Asked # {} /\ Slot' \in {{}, Asked}
         \/ Asked = {} /\ (Slot' = {} \/ \E i \in Images : Slot' = {i})
  PROVE  [Installing!Next]_(Installing!vars)
<1>1. (faults > 0)' = (faults > 0)
  OBVIOUS
<1>2. InApp' = InApp
  BY DEF InApp
<1>3. CASE Asked # {} /\ Slot' \in {{}, Asked}
  BY <1>1, <1>2, <1>3 DEF Installing!Next, Installing!Install
<1>4. CASE Asked = {} /\ (Slot' = {} \/ \E i \in Images : Slot' = {i})
  BY <1>1, <1>2, <1>4 DEF Installing!Next, Installing!Exchange, Installing!One
<1> QED
  BY <1>3, <1>4

LEMMA Failed ==
  ASSUME IInv1, Slot' = Slot, Asked' = Asked, ~InApp, ~InApp', faults' = faults + 1
  PROVE  [Installing!Next]_(Installing!vars)
<1>1. (faults > 0)'
  BY ImageAssumption DEF IInv1, TypeOK
<1>2. InApp' = InApp
  BY DEF InApp
<1> QED
  BY <1>1, <1>2 DEF Installing!Next, Installing!Break

LEMMA SameFlash ==
  /\ app' = app => Slot' = Slot
  /\ bl' = bl /\ dl' = dl => Asked' = Asked
  /\ ~Asks(bl) => Asked = {}
  /\ ~Asks(bl') => Asked' = {}
  BY DEF Slot, Asked, Asks, Whole

\* An installation fills the partition from the first block to the last.
LEMMA Filled ==
  ASSUME IInv, where = "sota_write", page = Blocks, app' = [app EXCEPT ![page] = dl[page]]
  PROVE  app' = dl
<1>1. app \in [Block -> Images \cup {Factory, Empty}] /\ dl \in [Block -> Images \cup {Empty}]
  BY DEF IInv, IInv1, TypeOK
<1>2. \A b \in Block : b \in 1..(page - 1) \/ b = page
  BY ImageAssumption DEF Block
<1>3. \A b \in 1..(page - 1) : app[b] = dl[b]
  BY DEF IInv, RecoverInv
<1>4. \A b \in Block : app'[b] = dl[b]
  BY <1>1, <1>2, <1>3
<1>5. app' = [b \in Block |-> app'[b]] /\ dl = [b \in Block |-> dl[b]]
  BY <1>1
<1> QED
  BY <1>4, <1>5, Zenon

LEMMA DoneStep == IInv /\ DoneInv /\ [Next]_vars => DoneInv'
<1> SUFFICES ASSUME IInv, DoneInv, [Next]_vars PROVE DoneInv'
  OBVIOUS
<1> USE DEF DoneInv
<1>0. after \in {"launch", "app", "commit", "restart4fota"} /\ faults \in Nat
  BY ImageAssumption DEF IInv, IInv1, TypeOK
<1>1. CASE SotaErase \/ SotaWrite
  <2>1. CASE Fail("deinit")
    <3>1. faults' > 0 /\ where' = "deinit"
      BY <1>0, <2>1 DEF Fail
    <3> QED
      BY <3>1
  <2>2. CASE SotaErase /\ Program(page, Empty, IF page = Blocks THEN "sota_write" ELSE where)
    <3>1. where' \in {"sota_erase", "sota_write"}
      BY <2>2 DEF SotaErase, Program
    <3> QED
      BY <3>1
  <2>3. CASE SotaWrite /\ Program(page, dl[page], IF page = Blocks THEN "deinit" ELSE where)
    <3>1. /\ where = "sota_write" /\ app' = [app EXCEPT ![page] = dl[page]] /\ dl' = dl
          /\ where' = IF page = Blocks THEN "deinit" ELSE "sota_write"
      BY <2>3 DEF SotaWrite, Program
    <3>2. CASE page = Blocks
      <4>1. app' = dl' /\ where' = "deinit"
        BY <3>1, <3>2, Filled
      <4> QED
        BY <4>1
    <3>3. CASE page # Blocks
      BY <3>1, <3>3
    <3> QED
      BY <3>2, <3>3
  <2> QED
    BY <1>1, <2>1, <2>2, <2>3 DEF SotaErase, SotaWrite
<1>2. CASE LeaveLoop
  <2>1. where = "loop" /\ where' = "deinit" /\ bl' = bl
    BY <1>2 DEF LeaveLoop, flash
  <2>2. ~Asks(bl)
    BY <2>1 DEF IInv, PathInv, Loop, BootPath, Asks
  <2> QED
    BY <2>1, <2>2 DEF Asks
<1>3. CASE Deinit
  <2>1. where = "deinit" /\ ram = bl /\ app' = app /\ dl' = dl /\ bl' = bl /\ faults' = faults
    BY <1>3 DEF Deinit, flash, IInv, IInv1, CopyInv
  <2>2. where' = "launch" => ~Asks(bl')
    BY <1>3, <2>1 DEF Deinit, Asks
  <2>3. where' \in {"launch", "bl_erase"}
    BY <1>3 DEF Deinit
  <2> QED
    BY <2>1, <2>2, <2>3 DEF Asks
<1>4. CASE PowerUp
  <2>1. where' = BootPath(bl) /\ bl' = bl
    BY <1>4 DEF PowerUp, flash
  <2>2. where' = "launch" => ~Asks(bl')
    BY <2>1 DEF BootPath, Asks
  <2> QED
    BY <2>1, <2>2 DEF BootPath
<1>5. CASE BlProgram
  <2>1. where' \in {"bl_program", after}
    BY <1>5 DEF BlProgram
  <2>2. where' = "launch" => ~Asks(bl')
    BY <1>5, WordsLeft, BlProgramIs DEF BlProgram, IInv, IInv1, CopyInv, Asks, TypeOK, Data
  <2> QED
    BY <1>0, <2>1, <2>2
<1>6. CASE BlErase \/ Launch \/ Watchdog \/ CmdRestart4Fota \/ DlWrite
  BY <1>6 DEF BlErase, Launch, Watchdog, CmdRestart4Fota, DlWrite
<1>7. CASE Listen \/ Nothing \/ FotaErase \/ FotaWrite \/ FotaTimeout \/ FotaStart \/ FotaPacket
  BY <1>7 DEF Listen, Nothing, FotaErase, FotaWrite, FotaTimeout, FotaStart, FotaPacket, Packet,
              Program, Fail
<1>8. CASE DlErase \/ Commit \/ Restart4Fota \/ Restart \/ Crash \/ OtaPacket
  BY <1>8 DEF DlErase, Commit, Restart4Fota, Restart, Crash, OtaPacket, Packet
<1>9. CASE NewSession \/ UNCHANGED vars
  BY <1>9 DEF NewSession, vars, flash, rewrite, Asks
<1> QED
  BY <1>1, <1>2, <1>3, <1>4, <1>5, <1>6, <1>7, <1>8, <1>9 DEF Next, Device, Boot

\* The image that is asked for, and whether it is in the partition of the app.
LEMMA AskedImage ==
  ASSUME IInv, Asks(bl)
  PROVE  \E i \in Images : Whole(dl, i) /\ Asked = {i} /\ (app = dl => Slot = Asked)
<1>1. PICK i \in Images : Whole(dl, i)
  BY DEF IInv, StoreInv
<1>2. Asked = {i}
  BY <1>1, OneWhole DEF Asked
<1>3. ASSUME app = dl PROVE Slot = {i}
  BY <1>1, <1>3, OneWhole DEF Slot
<1> QED
  BY <1>1, <1>2, <1>3

\* A block that is written leaves the partition torn, or whole with that image.
LEMMA BlockWritten ==
  ASSUME IInv, NEW p \in Block, NEW i, app' = [app EXCEPT ![p] = i]
  PROVE  /\ i = Empty => Slot' = {}
         /\ i \in Images => Slot' \in {{}, {i}}
<1>1. app'[p] = i
  BY DEF IInv, IInv1, TypeOK
<1>2. \A j : Whole(app', j) => j = i
  BY <1>1 DEF Whole
<1>3. Slot' = {j \in Images \cup {Factory} : Whole(app', j)}
  BY DEF Slot, Whole
<1>4. Empty \notin Images \cup {Factory}
  BY ImageAssumption
<1>5. i = Empty => Slot' = {}
  BY <1>2, <1>3, <1>4
<1>6. i \in Images => Slot' \in {{}, {i}}
  BY <1>2, <1>3
<1> QED
  BY <1>5, <1>6

LEMMA SotaInstalls ==
  ASSUME IInv, SotaErase \/ SotaWrite
  PROVE  [Installing!Next]_(Installing!vars)
<1>1. /\ where \in {"sota_erase", "sota_write"} /\ UNCHANGED <<dl, bl>>
      /\ where' \in {"sota_erase", "sota_write", "deinit"}
  BY DEF SotaErase, SotaWrite, Program, Fail
<1>2. ~InApp /\ ~InApp'
  BY <1>1 DEF InApp, Rewriting
<1>3. Asked' = Asked /\ Asks(bl)
  BY <1>1, SameFlash DEF IInv, PathInv, BootPath, Asks
<1>4. PICK i \in Images : Whole(dl, i) /\ Asked = {i}
  BY <1>3, AskedImage
<1>5. page \in Block
  BY DEF IInv, IInv1, TypeOK
<1>6. CASE Fail("deinit")
  BY <1>2, <1>3, <1>6, SameFlash, Failed DEF Fail, IInv
<1>7. CASE \E c \in {Empty, dl[page]}, next \in Where : Program(page, c, next)
  <2>1. PICK c \in {Empty, dl[page]} : app' = [app EXCEPT ![page] = c] /\ faults' = faults
    BY <1>7 DEF Program
  <2>2. dl[page] = i
    BY <1>4, <1>5 DEF Whole
  <2>3. Slot' \in {{}, Asked}
    BY <1>4, <1>5, <2>1, <2>2, BlockWritten
  <2> QED
    BY <1>2, <1>3, <1>4, <2>1, <2>3, Written
<1> QED
  BY <1>1, <1>6, <1>7 DEF SotaErase, SotaWrite, Where

LEMMA FotaExchanges ==
  ASSUME IInv, FotaErase \/ FotaWrite
  PROVE  [Installing!Next]_(Installing!vars)
<1>1. where \in {"fota_erase", "fota_write"} /\ UNCHANGED <<dl, bl>> /\ where' \in {"fota_write", "loop"}
  BY DEF FotaErase, FotaWrite, Program, Fail
<1>2. ~InApp /\ ~InApp'
  BY <1>1 DEF InApp, Rewriting
<1>3. Asked' = Asked /\ Asked = {}
  BY <1>1, SameFlash DEF IInv, PathInv, Loop, BootPath, Asks
<1>4. host.next + 1 \in Block /\ host.image \in Images
  BY <1>1, ImageAssumption DEF IInv, IInv1, PacketInv, TypeOK, Block
<1>5. CASE Fail("loop")
  BY <1>2, <1>3, <1>5, SameFlash, Failed DEF Fail, IInv
<1>6. CASE Program(host.next + 1, Empty, "fota_write") \/ Program(host.next + 1, host.image, "loop")
  <2>1. PICK c \in {Empty, host.image} : app' = [app EXCEPT ![host.next + 1] = c] /\ faults' = faults
    BY <1>6 DEF Program
  <2>2. Slot' = {} \/ \E i \in Images : Slot' = {i}
    BY <1>4, <2>1, BlockWritten
  <2> QED
    BY <1>2, <1>3, <2>1, <2>2, Written
<1> QED
  BY <1>5, <1>6 DEF FotaErase, FotaWrite

LEMMA LaunchStarts ==
  ASSUME IInv, DoneInv, Launch
  PROVE  [Installing!Next]_(Installing!vars)
<1>1. where = "launch" /\ UNCHANGED <<app, dl, bl, faults>>
  BY DEF Launch, flash
<1>2. Slot' = Slot /\ Asked' = Asked /\ Asked = {} /\ ~InApp
  BY <1>1, SameFlash DEF DoneInv, InApp, Rewriting
<1>3. CASE Runs(app)
  <2>1. InApp'
    BY <1>3 DEF Launch, InApp, Rewriting
  <2>2. PICK i \in Good : Whole(app, i)
    BY <1>3 DEF Runs
  <2>3. i \in Images \cup {Factory}
    <3>1. 1 \in Block
      BY ImageAssumption DEF Block
    <3>2. app[1] = i /\ app[1] \in Images \cup {Factory, Empty} /\ i # Empty
      BY <2>2, <3>1, ImageAssumption DEF Whole, IInv, IInv1, TypeOK
    <3> QED
      BY <3>2
  <2>4. Slot # {}
    BY <2>2, <2>3 DEF Slot
  <2> QED
    BY <1>1, <1>2, <2>1, <2>4, Started DEF Installing!Next
<1>4. CASE ~Runs(app)
  <2>1. ~InApp'
    BY <1>4 DEF Launch, InApp, Rewriting
  <2> QED
    BY <1>1, <1>2, <2>1, Stopped
<1> QED
  BY <1>3, <1>4

LEMMA BlEraseCompletes ==
  ASSUME IInv, DoneInv, BlErase
  PROVE  [Installing!Next]_(Installing!vars)
<1>1. /\ where = "bl_erase" /\ where' = "bl_program"
      /\ UNCHANGED <<app, dl, after, faults>> /\ bl' = Erased
  BY DEF BlErase
<1>2. Slot' = Slot /\ Asked' = {} /\ (InApp' <=> InApp)
  BY <1>1, SameFlash DEF Erased, Asks, InApp, Rewriting
<1>3. CASE InApp
  BY <1>1, <1>2, <1>3, Reconsidered
<1>4. CASE ~InApp /\ ~Asks(bl)
  BY <1>1, <1>2, <1>4, SameFlash, Stuttered
<1>5. CASE ~InApp /\ Asks(bl)
  <2>1. app = dl \/ faults > 0
    BY <1>1, <1>5 DEF DoneInv, InApp, Rewriting
  <2>2. Slot = Asked \/ faults > 0
    BY <1>5, <2>1, AskedImage
  <2>3. (faults > 0)' = (faults > 0) /\ InApp' = InApp
    BY <1>1, <1>2 DEF InApp
  <2>4. Installing!Complete
    BY <1>2, <1>5, <2>2, <2>3 DEF Installing!Complete
  <2> QED
    BY <2>4 DEF Installing!Next
<1> QED
  BY <1>3, <1>4, <1>5

LEMMA BlProgramAsks ==
  ASSUME IInv, IInv', BlProgram
  PROVE  [Installing!Next]_(Installing!vars)
<1>1. /\ where = "bl_program" /\ where' \in {"bl_program", after}
      /\ after \in {"launch", "app", "commit", "restart4fota"}
      /\ UNCHANGED <<app, dl, after, faults>>
  BY DEF BlProgram, IInv, IInv1, TypeOK
<1>2. Slot' = Slot /\ (InApp' <=> InApp)
  BY <1>1, SameFlash DEF InApp, Rewriting
<1>3. CASE after = "launch"
  <2>1. ~Asks(bl)
    BY <1>1, <1>3 DEF IInv, IInv1, CopyInv, Asks
  <2>2. ~Asks(bl')
    <3>1. ~Asks(ram)
      BY <1>1, <1>3 DEF IInv, IInv1, CopyInv, Asks
    <3> QED
      BY <3>1, BlProgramIs DEF IInv
  <2> QED
    BY <1>1, <1>2, <2>1, <2>2, SameFlash, Stuttered
<1>4. CASE after # "launch"
  <2>1. InApp /\ InApp'
    BY <1>1, <1>2, <1>4 DEF InApp, Rewriting
  <2>2. CASE ~Asks(bl')
    BY <1>1, <1>2, <2>1, <2>2, SameFlash, Reconsidered
  <2>3. CASE Asks(bl) /\ Asks(bl')
    <3>1. Asked' = Asked
      BY <1>1, <2>3 DEF Asked, Whole, Asks
    <3> QED
      BY <1>1, <1>2, <2>1, <3>1, Reconsidered
  <2>4. CASE ~Asks(bl) /\ Asks(bl')
    <3>1. PICK i \in Images : Whole(dl', i)
      BY <2>4 DEF IInv, StoreInv, Asks, Whole
    <3>2. Asked' = {i}
      <4>1. Asked' = {j \in Images : Whole(dl', j)}
        BY <2>4 DEF Asked, Asks, Whole
      <4> QED
        BY <3>1, <4>1, OneWhole
    <3>3. Asked = {}
      BY <2>4, SameFlash
    <3> QED
      BY <1>1, <1>2, <2>1, <3>2, <3>3, Reconsidered
  <2> QED
    BY <2>2, <2>3, <2>4
<1> QED
  BY <1>3, <1>4

\* What the app receives is not yet asked for.
LEMMA DlKeeps ==
  ASSUME IInv, DlErase \/ DlWrite
  PROVE  [Installing!Next]_(Installing!vars)
<1>1. where \in {"dl_erase", "dl_write"} /\ UNCHANGED <<app, bl, faults>>
  BY DEF DlErase, DlWrite
<1>2. InApp /\ InApp'
  BY <1>1 DEF DlErase, DlWrite, InApp, Rewriting
<1>3. ~Asks(bl)
  <2>1. ram = bl /\ ~Committing
    BY <1>1 DEF IInv, IInv1, CopyInv, Committing, Rewriting
  <2> QED
    BY <1>1, <1>2, <2>1 DEF IInv, IInv1, AppInv, Asks
<1>4. Asked' = {} /\ Slot' = Slot
  BY <1>1, <1>3, SameFlash DEF Asks
<1> QED
  BY <1>1, <1>2, <1>4, Reconsidered

LEMMA InstallStep ==
  ASSUME IInv, IInv', DoneInv, [Next]_vars
  PROVE  [Installing!Next]_(Installing!vars)
<1>0. after \in {"launch", "app", "commit", "restart4fota"}
  BY DEF IInv, IInv1, TypeOK
<1>1. CASE SotaErase \/ SotaWrite
  BY <1>1, SotaInstalls
<1>2. CASE FotaErase \/ FotaWrite
  BY <1>2, FotaExchanges
<1>3. CASE Launch \/ BlErase \/ BlProgram
  BY <1>3, LaunchStarts, BlEraseCompletes, BlProgramAsks
<1>4. CASE DlErase \/ DlWrite
  BY <1>4, DlKeeps
<1>5. CASE PowerUp \/ Watchdog \/ Restart \/ Crash \/ Deinit \/ LeaveLoop
  <2>1. UNCHANGED <<app, dl, bl, faults>> /\ ~InApp'
    BY <1>5 DEF PowerUp, Watchdog, Restart, Crash, Deinit, LeaveLoop, flash, BootPath, InApp, Rewriting
  <2> QED
    BY <2>1, SameFlash, Stopped
<1>6. CASE \/ Listen \/ Nothing \/ FotaTimeout \/ FotaStart \/ FotaPacket
           \/ OtaPacket \/ Commit \/ CmdRestart4Fota \/ Restart4Fota \/ NewSession \/ UNCHANGED vars
  <2>1. UNCHANGED <<app, dl, bl, faults>>
    BY <1>6 DEF Listen, Nothing, FotaTimeout, FotaStart, FotaPacket, Packet,
                OtaPacket, Commit, CmdRestart4Fota, Restart4Fota, NewSession, vars, flash
  <2>2. InApp' <=> InApp
    BY <1>6 DEF Listen, Nothing, FotaTimeout, FotaStart, FotaPacket, Packet, OtaPacket, Commit,
                CmdRestart4Fota, Restart4Fota, NewSession, vars, rewrite, InApp, Rewriting
  <2> QED
    BY <2>1, <2>2, SameFlash, Stuttered
<1> QED
  BY <1>1, <1>2, <1>3, <1>4, <1>5, <1>6 DEF Next, Device, Boot

\* Update implements Installer: an image that was committed is installed whole
\* before any app starts, and no app is written while it runs.
THEOREM UpdateRefines == Spec => InstallsWhole
<1>1. Init => DoneInv
  BY DEF Init, DoneInv
<1>2. Init => Installing!Init
  <2> SUFFICES ASSUME Init PROVE Installing!Init
    OBVIOUS
  <2>1. Whole(app, Factory)
    BY DEF Init, Whole
  <2>2. Slot = {Factory}
    BY <2>1, OneWhole DEF Slot
  <2>3. Asked = {} /\ ~InApp /\ ~(faults > 0)
    BY DEF Init, Asked, Asks, Erased, InApp, Rewriting
  <2> QED
    BY <2>2, <2>3 DEF Installing!Init
<1> QED
  BY <1>1, <1>2, InvHolds, DoneStep, InstallStep, PTL DEF Spec, InstallsWhole, Installing!Spec

=============================================================================
