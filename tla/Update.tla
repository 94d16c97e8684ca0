------------------------------- MODULE Update --------------------------------
(***************************************************************************)
(* Firmware update: the app downloads an image and commits it (pp_ota.c,   *)
(* pp_persist.c, pp_sys_cmd.c), the bootloader installs it (SOTA) or takes *)
(* one straight from the host (FOTA) and launches the app (pp_bl_main.c,   *)
(* pp_bl_sota.c, pp_bl_host.c), and the two speak through the flash        *)
(* partition bl_data (pp_bl_data.c).  Power may fail at every step; the    *)
(* flash is erased and programmed piece by piece.                          *)
(*                                                                         *)
(* An image is a number of equal blocks, one per packet.  External: the    *)
(* host, which sends one packet at a time and waits for the answer, which  *)
(* may be lost, and the watchdog, which resets an app that does not run.   *)
(***************************************************************************)
EXTENDS Integers, Sequences

CONSTANTS
  Images,       \* the images the host may send
  Factory,      \* the image programmed at the factory
  Good,         \* the images that start and reach their APP2 initialisation
  Blocks,       \* packets of an image (pack_num)
  MaxFaults     \* bound: failing flash operations in the app partition

Block == 1..Blocks
Empty == "empty"

ASSUME ImageAssumption ==
  /\ Blocks \in Nat \ {0}
  /\ Factory \in Good
  /\ Empty \notin Images \cup Good
  /\ MaxFaults \in Nat

VARIABLES
  where,    \* what the processor is doing
  app,      \* the app partition, block by block
  dl,       \* the download partition
  bl,       \* the partition bl_data, word by word
  ram,      \* pp_bl_data, the copy of it in RAM
  todo,     \* the words of bl_data still to be programmed
  after,    \* what follows the rewriting of bl_data
  page,     \* SOTA: the block to erase or write next
  expect,   \* expect_pack_id; download_size is this many blocks
  fota,     \* pp_bl_host_fota_state
  flags,    \* _sys.ota_done, _sys.restart4fota_flag
  host,     \* the host: image of its session, number of its next packet
  faults    \* flash operations that have failed

flash == <<app, dl, bl>>
rewrite == <<ram, todo, after>>
vars == <<where, flash, rewrite, page, expect, fota, flags, host, faults>>

\* bl_data in the order it is programmed.  wait stands for the word that holds
\* both comm_cfg_flag and fota_wait_time, tail for dev_type and all after it.
Words == << "sota", "size", "wait", "tail" >>
Erased == [sota |-> "erased", size |-> "erased", wait |-> "erased", tail |-> "erased"]
Defaults == [sota |-> "no", size |-> "erased", wait |-> "none", tail |-> "set"]

\* What may still have to be programmed of it.
Left == {Words, <<"size", "wait", "tail">>, <<"wait", "tail">>, <<"tail">>, <<>>}

Data == [sota : {"erased", "no", "yes"}, size : {"erased", "set"},
         wait : {"erased", "none", "window"}, tail : {"erased", "set"}]

Whole(part, i) == part = [b \in Block |-> i]
Runs(part) == \E i \in Good : Whole(part, i)

Where == {"off", "sota_erase", "sota_write", "loop", "listen", "fota_erase", "fota_write",
          "deinit", "bl_erase", "bl_program", "launch", "dead", "app", "dl_erase", "dl_write",
          "commit", "restart4fota"}

TypeOK ==
  /\ where \in Where
  /\ app \in [Block -> Images \cup {Factory, Empty}]
  /\ dl \in [Block -> Images \cup {Empty}]
  /\ bl \in Data /\ ram \in Data
  /\ todo \in Left
  /\ after \in {"launch", "app", "commit", "restart4fota"}
  /\ page \in Block
  /\ expect \in 0..(Blocks - 1)
  /\ fota \in {"waiting", "fotaing", "done", "timeout"}
  /\ flags \in [ota_done : BOOLEAN, restart4fota : BOOLEAN]
  /\ host \in [image : Images, next : 0..Blocks]
  /\ faults \in 0..MaxFaults

Init ==
  /\ where = "off"
  /\ app = [b \in Block |-> Factory] /\ dl = [b \in Block |-> Empty]
  /\ bl = Erased /\ ram = Erased /\ todo = <<>> /\ after = "app"
  /\ page = 1 /\ expect = 0 /\ fota = "timeout"
  /\ flags = [ota_done |-> FALSE, restart4fota |-> FALSE]
  /\ host \in [image : Images, next : {0}]
  /\ faults = 0

-----------------------------------------------------------------------------
(* The bootloader. *)

\* Mutant: the window of the host comes before the installation.
BootPathWindowFirst(data) ==
  IF data.wait = "erased" THEN "launch"
  ELSE IF data.sota = "no" \/ data.wait = "window" THEN "loop" ELSE "sota_erase"

\* What main does with the bl_data it read.
BootPath(data) ==
  IF data.wait = "erased" THEN "launch"
  ELSE IF data.sota = "yes" THEN "sota_erase" ELSE "loop"

\* The wait for the host is over at the first tick when its time is 0, long
\* before a packet can be complete.
PowerUp ==
  /\ where = "off"
  /\ where' = BootPath(bl)
  /\ ram' = bl
  /\ fota' = IF bl.wait = "window" THEN "waiting" ELSE "timeout"
  /\ expect' = 0 /\ page' = 1
  /\ flags' = [ota_done |-> FALSE, restart4fota |-> FALSE]
  /\ UNCHANGED <<flash, todo, after, host, faults>>

\* A bootloader whose bl_data has no dev_type has opened no port.
PortOpen == ram.tail = "set"

\* One flash operation on a block of the app partition, or its failure.  Not
\* looked at: a failure in the installation after a power failure within the
\* commit, when the bootloader has no port.
Program(b, content, next) ==
  /\ app' = [app EXCEPT ![b] = content]
  /\ where' = next
  /\ UNCHANGED faults

Fail(next) ==
  /\ faults < MaxFaults /\ PortOpen
  /\ faults' = faults + 1
  /\ where' = next
  /\ UNCHANGED app

\* Mutant: the second pass goes on where the first one ended.
NextPageStays == page' = IF page = Blocks THEN page ELSE page + 1

NextPage == page' = IF page = Blocks THEN 1 ELSE page + 1

\* pp_bl_sota gives up at the first failure and main goes on.
SotaErase ==
  /\ where = "sota_erase"
  /\ \/ Program(page, Empty, IF page = Blocks THEN "sota_write" ELSE where)
     \/ Fail("deinit")
  /\ NextPage
  /\ UNCHANGED <<dl, bl, rewrite, expect, fota, flags, host>>

SotaWrite ==
  /\ where = "sota_write"
  /\ \/ Program(page, dl[page], IF page = Blocks THEN "deinit" ELSE where)
     \/ Fail("deinit")
  /\ NextPage
  /\ UNCHANGED <<dl, bl, rewrite, expect, fota, flags, host>>

\* _core_jump_cb: bl_data is rewritten unless it already opens the window.
Deinit ==
  /\ where = "deinit"
  /\ IF ram.sota = "no" /\ ram.wait = "window"
     THEN where' = "launch" /\ UNCHANGED after
     ELSE where' = "bl_erase" /\ after' = "launch"
  /\ UNCHANGED <<flash, ram, todo, page, expect, fota, flags, host, faults>>

\* Mutant: the window is not opened for the next start.
HandedOverShut(data) == [data EXCEPT !.sota = "no"]

\* What the bootloader leaves for the next start: nothing to install, and a
\* window, which an app that runs closes again.
HandedOver(data) == [data EXCEPT !.sota = "no", !.wait = "window"]

\* Erasing and programming bl_data, for the bootloader and for the app.
BlErase ==
  /\ where = "bl_erase"
  /\ bl' = Erased
  /\ ram' = IF after = "launch" THEN HandedOver(ram) ELSE ram
  /\ todo' = Words
  /\ where' = "bl_program"
  /\ UNCHANGED <<app, dl, after, page, expect, fota, flags, host, faults>>

BlProgram ==
  /\ where = "bl_program"
  /\ bl' = [bl EXCEPT ![Head(todo)] = ram[Head(todo)]]
  /\ todo' = Tail(todo)
  /\ where' = IF Tail(todo) = <<>> THEN after ELSE where
  /\ UNCHANGED <<app, dl, ram, after, page, expect, fota, flags, host, faults>>

\* An image that runs starts with fresh statics and writes its default bl_data
\* before it serves the host.
Launch ==
  /\ where = "launch"
  /\ IF Runs(app)
     THEN where' = "bl_erase" /\ after' = "app" /\ ram' = Defaults
     ELSE where' = "dead" /\ UNCHANGED <<after, ram>>
  /\ expect' = 0
  /\ UNCHANGED <<flash, todo, page, fota, flags, host, faults>>

\* The watchdog resets what does not run.
Watchdog ==
  /\ where = "dead"
  /\ where' = "off"
  /\ UNCHANGED <<flash, rewrite, page, expect, fota, flags, host, faults>>

-----------------------------------------------------------------------------
(* Packets, for the bootloader and for the app. *)

\* The host takes the answer, or it is lost and the packet will come again.
Reply(ok) ==
  host' \in {host, [host EXCEPT !.next = IF ok THEN @ + 1 ELSE 0]}

\* Packet 0 starts over; the packet before the expected one is a repetition.
Expected(index) == IF index = 0 THEN 0 ELSE expect

\* Mutants: the expected packet counts as repeated; its number is not checked.
RepeatedTooFar(index) == index # 0 /\ index <= expect
AcceptedInAnyOrder(index) == index = 0 \/ index # expect - 1

Repeated(index) == index # 0 /\ index = expect - 1

Accepted(index) == Expected(index) = index /\ ~Repeated(index)

Packet(listening, done, first, back) ==
  /\ where = listening
  /\ host.next < Blocks
  /\ IF ~done /\ Accepted(host.next)
     THEN where' = first /\ expect' = Expected(host.next) /\ UNCHANGED host
     ELSE /\ Reply(~done /\ Repeated(host.next))
          /\ expect' = IF done THEN expect ELSE Expected(host.next)
          /\ where' = back

\* Mutant: the number keeps growing after the last packet.
StoredForever == expect' = expect + 1

\* What follows a packet that was stored: the next is expected.
Stored == expect' = IF expect = Blocks - 1 THEN 0 ELSE expect + 1

Last == host.next = Blocks - 1

\* The body of the loop of main: the state was tested before the delay, and is
\* not tested again before what has been received is handled ...
Listen ==
  /\ where = "loop" /\ fota \in {"waiting", "fotaing"}
  /\ where' = "listen"
  /\ UNCHANGED <<flash, rewrite, page, expect, fota, flags, host, faults>>

\* ... if anything has.
Nothing ==
  /\ where = "listen"
  /\ where' = "loop"
  /\ UNCHANGED <<flash, rewrite, page, expect, fota, flags, host, faults>>

FotaStart ==
  /\ where = "listen" /\ PortOpen
  /\ where' = "loop"
  /\ fota' = "fotaing"
  /\ UNCHANGED <<flash, rewrite, page, expect, flags, host, faults>>

FotaPacket ==
  /\ PortOpen
  /\ Packet("listen", FALSE, "fota_erase", "loop")
  /\ UNCHANGED <<flash, rewrite, page, fota, flags, faults>>

FotaErase ==
  /\ where = "fota_erase"
  /\ \/ Program(host.next + 1, Empty, "fota_write") /\ UNCHANGED host
     \/ Fail("loop") /\ Reply(FALSE)
  /\ UNCHANGED <<dl, bl, rewrite, page, expect, fota, flags>>

FotaWrite ==
  /\ where = "fota_write"
  /\ \/ /\ Program(host.next + 1, host.image, "loop")
        /\ Stored /\ Reply(TRUE)
        /\ fota' = IF Last THEN "done" ELSE fota
     \/ Fail("loop") /\ Reply(FALSE) /\ UNCHANGED <<expect, fota>>
  /\ UNCHANGED <<dl, bl, rewrite, page, flags>>

\* The timer interrupt, also in the middle of a packet.
FotaTimeout ==
  /\ where \in {"loop", "listen", "fota_erase", "fota_write"} /\ fota = "waiting"
  /\ fota' = "timeout"
  /\ UNCHANGED <<where, flash, rewrite, page, expect, flags, host, faults>>

\* Mutant: only a finished update ends the loop.
LoopOverWhenDone == fota = "done"

LoopOver == fota \in {"timeout", "done"}

LeaveLoop ==
  /\ where = "loop" /\ LoopOver
  /\ where' = "deinit"
  /\ UNCHANGED <<flash, rewrite, page, expect, fota, flags, host, faults>>

-----------------------------------------------------------------------------
(* The app. *)

OtaPacket ==
  /\ Packet("app", flags.ota_done, IF host.next = 0 THEN "dl_erase" ELSE "dl_write", "app")
  /\ UNCHANGED <<flash, rewrite, page, fota, flags, faults>>

DlErase ==
  /\ where = "dl_erase"
  /\ dl' = [b \in Block |-> Empty]
  /\ where' = "dl_write"
  /\ UNCHANGED <<app, bl, rewrite, page, expect, fota, flags, host, faults>>

\* The last packet also commits the image: bl_data now asks for SOTA.
DlWrite ==
  /\ where = "dl_write"
  /\ dl' = [dl EXCEPT ![host.next + 1] = host.image]
  /\ Stored
  /\ IF Last
     THEN /\ ram' = [ram EXCEPT !.sota = "yes", !.size = "set"]
          /\ where' = "bl_erase" /\ after' = "commit"
          /\ UNCHANGED host
     ELSE where' = "app" /\ Reply(TRUE) /\ UNCHANGED <<ram, after>>
  /\ UNCHANGED <<app, bl, todo, page, fota, flags, faults>>

Commit ==
  /\ where = "commit"
  /\ where' = "app"
  /\ flags' = [flags EXCEPT !.ota_done = TRUE]
  /\ Reply(TRUE)
  /\ UNCHANGED <<flash, rewrite, page, expect, fota, faults>>

\* The host command that restarts into the bootloader's window.
CmdRestart4Fota ==
  /\ where = "app"
  /\ ram' = [ram EXCEPT !.wait = "window"]
  /\ where' = "bl_erase" /\ after' = "restart4fota"
  /\ UNCHANGED <<flash, todo, page, expect, fota, flags, host, faults>>

Restart4Fota ==
  /\ where = "restart4fota"
  /\ where' = "app"
  /\ flags' = [flags EXCEPT !.restart4fota = TRUE]
  /\ UNCHANGED <<flash, rewrite, page, expect, fota, host, faults>>

\* _sys_chk_restart, in the pulse thread.
Restart ==
  /\ where = "app" /\ (flags.ota_done \/ flags.restart4fota)
  /\ where' = "off"
  /\ UNCHANGED <<flash, rewrite, page, expect, fota, flags, host, faults>>

-----------------------------------------------------------------------------
\* Not looked at: a power failure while bl_data is rewritten and the app, or the
\* image asked to be installed, does not run.  It leaves no window, or one
\* without a port, and nothing to start.
Survivable == where = "bl_program" => Runs(app) /\ (ram.sota = "yes" => Runs(dl))

\* Power fails, or a restart asked for earlier cuts the step in progress.
Crash ==
  /\ where # "off" /\ Survivable
  /\ where' = "off"
  /\ UNCHANGED <<flash, rewrite, page, expect, fota, flags, host, faults>>

\* Between two packets the host may give up and start again.
NewSession ==
  /\ where \notin {"fota_erase", "fota_write", "dl_erase", "dl_write", "commit"}
  /\ where \in {"bl_erase", "bl_program"} => after # "commit"
  /\ host' \in [image : Images, next : {0}]
  /\ UNCHANGED <<where, flash, rewrite, page, expect, fota, flags, faults>>

Boot ==
  \/ PowerUp \/ SotaErase \/ SotaWrite \/ Deinit \/ Launch \/ Watchdog
  \/ Listen \/ Nothing \/ FotaErase \/ FotaWrite \/ LeaveLoop

Device ==
  \/ Boot \/ BlErase \/ BlProgram
  \/ DlErase \/ DlWrite \/ Commit \/ Restart4Fota \/ Restart

Next ==
  \/ Device \/ FotaTimeout \/ Crash
  \/ FotaStart \/ FotaPacket \/ OtaPacket \/ CmdRestart4Fota \/ NewSession

Spec == Init /\ [][Next]_vars

\* The processor runs and its timer ticks; nothing is asked of the host.
FairSpec == Spec /\ WF_vars(Device) /\ WF_vars(FotaTimeout)
-----------------------------------------------------------------------------
(* Properties. *)

\* Wherever Crash lets power fail, the next start has a way on: an app that runs, a
\* complete image to install, or a window in which the host can send one
\* (main of pp_bl_main.c reads bl_data in this order).
WayOn ==
  CASE BootPath(bl) = "launch"     -> Runs(app)
    [] BootPath(bl) = "sota_erase" -> bl.size = "set" /\ (Runs(dl) \/ bl.tail = "set")
    [] BootPath(bl) = "loop"       -> Runs(app) \/ (bl.wait = "window" /\ bl.tail = "set")

Recoverable == Survivable => WayOn

\* What bl_data asks to be installed is one whole image of the host, however
\* packets were repeated, sessions abandoned and resets placed (_ota_hostopr).
CommitMeansWhole ==
  BootPath(bl) = "sota_erase" => \E i \in Images : Whole(dl, i)

\* A packet the host has been told is stored is in flash, whichever of the two
\* programs took it (_ota_hostopr, _operate of pp_bl_host.c).
AckedMeansStored ==
  \/ \A b \in 1..host.next : dl[b] = host.image
  \/ \A b \in 1..host.next : app[b] = host.image

\* Once the bootloader has begun to install an image, it comes to launch it
\* whole, if power does not fail for ever and no flash operation fails in the
\* meantime (pp_bl_sota, pp_bl_data_deinit).
SotaCompletes ==
  <>[][~Crash]_vars =>
    \A n \in 0..MaxFaults :
      where = "sota_erase" /\ faults = n ~> (where = "launch" /\ app = dl) \/ faults > n

\* The bootloader goes on to launch the app unless the host opened an update
\* (_fota_timeout, pp_bl_main.c:39).
LoopEnds ==
  <>[][~Crash]_vars => (where = "loop" ~> where = "launch" \/ fota = "fotaing")

\* The app is in charge, or rewrites bl_data.
Rewriting == where \in {"bl_erase", "bl_program"}
InApp ==
  \/ where \in {"app", "dl_erase", "dl_write", "commit", "restart4fota"}
  \/ Rewriting /\ after # "launch"

\* bl_data asks for an installation.
Asks(data) == data.sota = "yes" /\ data.wait # "erased"

\* What the app partition holds, and what is asked to be installed in it.
Slot == {i \in Images \cup {Factory} : Whole(app, i)}
Asked == {i \in Images : Asks(bl) /\ Whole(dl, i)}

Installing == INSTANCE Installer WITH
  slot <- Slot, pending <- Asked, running <- InApp, broken <- faults > 0

\* An image that was committed is installed whole before any app starts, through
\* every power failure and restart, unless the app that committed it rewrites
\* bl_data meanwhile; the partition of the app is never written while an app
\* runs or by the host while an image waits for it (main of pp_bl_main.c,
\* pp_bl_sota, pp_bl_data_deinit, _ota_hostopr).
InstallsWhole == Installing!Spec
=============================================================================
