# TLA+ specifications of ppbms-ce

ppbms-ce is the firmware of a battery management system: an application (`app`)
on RT-Thread that watches the cells through an analog front end (AFE), opens and
closes the charge and discharge MOSFETs, talks to a host and updates itself, and
a bootloader (`boot`) that installs an update and launches the application.
This directory holds a model of it in TLA+, the configurations that check the
model with TLC on small instances, and proofs checked by TLAPS that hold for
every value of the constants. Paths below are relative to the repository.

## 1. The system

### Components, their state and their operations

| Component | State | Operations | What makes it correct |
|---|---|---|---|
| Protection pulse: `app/lib/pp_afe` | `_afe` (statuses, `can_dsg`, `can_chg`, `*_mos_ctl`, `sys_mos_lock`, `afe_times`), the statics of the detectors and of the edge tests | thread `pulse_e` (`_syspulse_entry`): flag half, `pp_afe_soft_set4data`, `pp_afe_soft_opr4data`, `pp_afe_mos_ctl` | no path conducts through a standing protection; a trip opens its path; a path comes back when all is clear; locks are respected |
| Debouncing: `app/lib/pp_continued`, `_status_set` | two accumulators per status, one per time-out | `pp_continued`, `_status_set` | never early, never late, no overflow |
| Data and exported models: `app/lib/pp_data` | `_afe`, `_afe_cfg`, `_sys`, `_sox` | host reads and writes, range checks | the host never leaves an unchecked configuration in force |
| System life cycle: `app/lib/pp_sys`, `pp_env` | `_sys` flags (`stop_status`, `running_status`, `ota_done`, ...) | `_sys_chk` in every data pulse, host commands | a command is carried out once; a restart stores first; an abnormal restart is noticed |
| OTA: `app/lib/pp_ota`, `pp_persist`, `pp_bl` | `expect_pack_id`, `download_size`, partitions `download` and `bl_data` | `_ota_hostopr`, `_pp_write_data`, `_bl_data_write`, `_cmd_restart4fota` | only whole images are committed; an acknowledged packet is stored |
| Bootloader: `boot/lib`, `boot/drv` | RAM copy of `bl_data`, `pp_bl_host_fota_state`, the app partition | `main`, `pp_bl_sota`, `_operate`, timers, `pp_core_jump` | after any reset there is a way on; it ends its wait |
| Host link: `app/lib/pp_host`, `pp_serialize`, `pp_export` | receive buffer, `recv_tail`, `processing` | receive interrupt, `host_thread_entry`, dispatch | a packet is handled whole, once |
| Ports: `app/lib/pp_uart`, `pp_uart_can` | handles and their hardware, `_from_id`, `_to_id`; two rings of eight CAN messages | switch, switch back, timed switch back; interrupt, read, write | a port is where its user thinks it is; bytes keep their order |
| State of charge: `app/lib/pp_sox` | `_sox` (kept over restarts), the statics of `pp_sox_cal` | `pp_sox_cal` in every data pulse | no absurd capacity is believed; a measurement counts all that flows; regular cycles teach it the battery |
| Rest of `app/lib`: clock, console, led, log, pin, burn, tools, assert, export | small or none | wrappers | - |

### How they interact

* The thread `pulse_e` runs the protection, `pp_sox_cal` and, through
  `pp_export_f_pulse`, `_sys_chk` one after the other; nothing else writes the
  protection's state, with the exception of the host.
* The host thread has the same priority as `pulse_e` (round robin), so it may run
  between any two steps of a pulse. It writes the exported models (`_sys`,
  `_afe_cfg`, the persistent statuses of `_afe`) and runs the OTA packets and the
  commands. Commands set flags of `_sys` that the next data pulse acts on.
* The application and the bootloader never run together. They speak through the
  flash partition `bl_data`, which both erase and rewrite, and through `download`.
* The AFE chip interrupts the pulse thread through a semaphore; a pulse whose
  interrupt does not come is a time-out. The chip is external.

### What is hard

Edges that are answered once and not repeated; requests for the same MOSFET by
protections, automatic control and locks in one pulse; a host that writes in the
middle of a pulse; accumulators whose step changes; a flash that is erased before
it is written, by two programs, with power failing anywhere; answers lost and
packets repeated; a timer that fires while a packet is being written. The hazards
are listed, each at its line, in `PROJECT.json`.

## 2. The modules

| Module | Models | Extends |
|---|---|---|
| `AfeStatus` | the status groups of `pp_data_afe_status.h` and the table of MOS operations of `pp_afe_soft_o.c` | - |
| `Continued` | `pp_continued`, `_status_set`, the cycles a pulse counts for: pure operators | - |
| `AfeProtect` | the protection pulse with the host beside it, for any table | `Continued` |
| `AfeRecovery` | `AfeProtect` with a history: why a path was last refused | `AfeProtect` |
| `MCAfeProtect`, `MCAfeRecovery` | the program's own table (`AfeStatus`) as constants of the two | `AfeProtect`, `AfeRecovery`, `AfeStatus` |
| `AfeProtectProofs` | theorems about `AfeProtect` and `AfeRecovery` | `AfeRecovery`, `TLAPS` |
| `Debounce` | one status and one time-out sampled pulse by pulse, with the time their conditions really held | `Continued` |
| `DebounceProofs` | theorems about `Debounce` | `Debounce`, `TLAPS` |
| `Installer` | abstract: an image that is asked for is in its slot, whole, before a program starts | - |
| `Update` | OTA, SOTA, FOTA, `bl_data`, crashes; implements `Installer` | an instance of `Installer` |
| `UpdateProofs` | theorems about `Update` | `Update`, `TLAPS` |
| `SysLifecycle` | start, stop, wake-up, restore, restart, commands and the store of the environment, crashes | - |
| `MCSysLifecycle` | sets of locks for `SysLifecycle` | `SysLifecycle` |
| `SysLifecycleProofs` | theorems about `SysLifecycle` | `SysLifecycle`, `TLAPS` |
| `MsgQueue` | abstract: a bounded queue of frames, read byte by byte or frame by frame | - |
| `UartCan` | the serial port over CAN: rings, readers, interrupt, open and close; implements `MsgQueue` twice | instances of `MsgQueue` |
| `CanWrite` | a write cut into frames, by `_uart_can_write` and by `pp_drv_can_tx`, frame by frame | - |
| `MCUartCan` | frames for `UartCan`; the app's writes while the port is open, the bootloader's before | `UartCan`, `CanWrite` |
| `UartCanProofs` | theorems about `UartCan`, both refinements among them, and about `CanWrite` | `UartCan`, `CanWrite`, `TLAPS` |
| `UartSwitch` | two ports exchanged and put back by the host, and put back by a thread | - |
| `UartSwitchProofs` | theorems about `UartSwitch` | `UartSwitch`, `TLAPS` |
| `HostLine` | a host and a faulty line, the receiving interrupt, whole packets: what the app and the bootloader have in common | - |
| `BlHost` | the bootloader's loop, timer and `recv_finish` over that line | `HostLine` |
| `HostLink` | the host thread of the app; the specification of both | `BlHost` |
| `MCHostLink` | short packets for `HostLink` | `HostLink` |
| `HostLinkProofs` | theorems about `HostLink` | `HostLink`, `TLAPS` |
| `Sox` | the gauge (`pp_sox_cal`) and its store against a battery that is used | `Continued` |
| `MCSox` | three batteries for `Sox` | `Sox` |
| `SoxProofs` | theorems about `Sox` | `Sox`, `TLAPS` |

The modules do not share variables: the components meet in flags and flash
contents, and each module has the other side as an environment. The host is an
actor of `AfeProtect`, `SysLifecycle`, `Update`, `UartSwitch` and `HostLink`.

### AfeProtect

State: `status[p]` is `_afe.<p>_status`; `tms`, `rms` the accumulators of its
`_SOFT_DET`; `old` the static of its `_AFE_MOS_OPR4STATUS`; `can`, `ctl`,
`sys_mos_lock`, `afe_times`, `flag`, `chip` the fields of `_afe` named in the
comments of the VARIABLES; `mos_lock`, `smart_off`, `first_cycle` those of `_sys`
and `_afe_cfg`. `pc` and `k` are the position of the thread.

Actions, in the order of a pulse: `Flag` (waiting for the chip, `opr4flag`, the
re-application of the user's locks after a chip reset, the cycle count of a
time-out; a pulse with flags and no data ends here), `Detect` and `Evaluate`
(`pp_afe_soft_set4data` up to and from its last part, which reads the statuses
again), `Operate` (one line of the table: an edge asks `pp_afe_mos_ctl`),
`AutoMos`, `IdleDsg`, `IdleChg`, `ChargerIn`, `LoadOn`, `PdsgOff`, `FirstCycle`
(the automatic control in the separate-port build), `Export` (`_sys_chk` as far as
it concerns the pulse). `HostLock`, `HostSmart` and `HostEnv` are the host's writes
and happen between any two of them.

Readings are abstracted to what the code compares: a detector's reading trips,
holds or releases (its two thresholds exclude each other); `pdsg_scd` alone may see
both, because its release condition is another pin's status. Delays are constants
of the build, in cycles, rounded up: `ms += 256 * afe_times` reaches a delay exactly
when the rounded number of cycles has been counted.

`EnvWritable` are the statuses the host may write; properties about protections
speak of the others (`Guarded`). `uv2` operates the charge MOS without being in
the charge group, so the charge side of `uv2` is outside the properties.

`AfeRecovery` adds two history variables to every step of `AfeProtect`, which no step
depends on. A path is asked for at the edge of an operated status, and the request may
be refused by a status that has no operation of its own (`ov1`, `scd`, `occ1`, ...) or
that the host writes (`pdsg_scd`): no edge of the table follows its release. `stood`
says whether such a status stood at `Evaluate`, `refused` whether one did when the path
was last asked for.

### Debounce

`Sample` is one call of `_status_set` and one of `PP_CONTINUED` in a pulse that was
or was not missed. `trig_for` and `rls_for` are histories: the counted time for
which every sample has had the condition; `real_for` is the real time of the trip
condition. They are not in the code and saturate at `Horizon`.

### Update

The flash is modelled by blocks: an image is `Blocks` equal blocks, one per packet;
`app` and `dl` say what each block holds, `bl` what each word of `bl_data` holds, in
the order in which words are programmed (`wait` is the word that holds both
`comm_cfg_flag` and `fota_wait_time`; `tail` stands for `dev_type` and all after
it). `ram` is the copy `pp_bl_data`. `where` is what the processor is doing.

| Actions | Code |
|---|---|
| `PowerUp` | `pp_bl_data_init`, the decisions of `main` |
| `SotaErase`, `SotaWrite` | `pp_bl_sota`, page by page, with failures |
| `Listen`, `Nothing`, `FotaStart`, `FotaPacket`, `FotaErase`, `FotaWrite`, `LeaveLoop` | the loop of `main`; `_operate`; the state is tested before the delay and not again before what was received is handled |
| `FotaTimeout` | `_fota_timeout`, from the timer interrupt |
| `Deinit`, `BlErase`, `BlProgram` | `pp_bl_data_deinit`, `_pp_write_data` |
| `Launch`, `Watchdog` | `pp_core_jump`; `_bl_data_write` of an app that runs, the reset of one that does not |
| `OtaPacket`, `DlErase`, `DlWrite`, `Commit` | `_ota_hostopr` |
| `CmdRestart4Fota`, `Restart4Fota`, `Restart` | `_cmd_restart4fota`, `_sys_chk_restart` |
| `Crash`, `NewSession` | a loss of power anywhere; a host that gives up and starts again |

The host sends one packet at a time and waits for its answer, which may be lost
(`Reply`).

### SysLifecycle

Three actors share `_sys` without a lock: the pulse thread (`pc` walks `_sys_chk`
in the order of its calls), the host thread (`host`), and the interrupt of the
host's port (`HostBytes`). `mem` and `flash` hold one entry per model of
`_env_models` that has a part of its own: `sys_sh` (the locks), `sox`, `afe_cfg` and
`sys_s` (`stop_status`, `running_status`); `custset` and `afe_sh` are stored, read
and written as `afe_cfg` is and are left out. A model that is not in flash leaves
its defaults in RAM. `flags` are the flags of `_sys` that are 1.

| Actions | Code |
|---|---|
| `Start`, `McuRestart`, `Crash` | `_env_read` after a reset |
| `ChkAbnmrst`, `ChkRestore`, `DelAfe`, `DelSox`, `ChkStop`, `ClearStopReset`, `ChkWkup`, `ChkRestart`, `ChkEnvStore` | the functions of `_sys_chk`, in statements where the host may come between |
| `StoreAndRestart`, `StoreNext` | `_sys_restart` up to its store; `pp_env_store`, one model at a time |
| `HostBytes`, `HostWrite`, `HostPost`, `HostCmd` | `_uart_irq_cb`, `_model_hostopr` before `_env_hostpost`, `_env_hostpost`, the commands of `pp_sys_cmd.c` |

Histories: `last` and `reported` (how the system came to its last start and what it
logged), `stale` (models in flash older than the last orderly restart), `quiet` and
`hasty` (pulses without a byte and with an idle battery; an automatic stop that came
too early).

### UartCan

`mb` are the two rings, `dev` the callback and the read function of the CAN device,
`saved` what they were. Threads are interrupted between any two of their statements:
`Open` and `Close` have one disjunct per statement, a reader is `Copy` and `Advance`.
`Receive` is the whole interrupt, which does not nest on the one processor. `in_irq`
says whether the user of the port reads inside its callback (`IrqRead`), as
`pp_host_uart_irq_deal` does, or in a thread. `MsgQueue` is the abstract
specification; the refinement mapping takes the slots from `tx_idx` to `rx_idx` for
the queue, and lets it forget what waits only while the port is being closed.

### Sox

`sox` is `_sox` without its counters, `ms` the accumulators of the three `PP_CONTINUED`,
`edge` the statics `ov_status` and `uv_status`, `first` is `_sys.first_cycle_flag`,
`stored` what flash holds of `_sox` and `age` the calls since. A call of the model
stands for all calls of the program with one measurement, `Batch` of them; a brief
one is too short for a time-out.

| Operators of `Cal`, in this order | Code |
|---|---|
| `Initialised`, `Started`, `Cycled` | the start, its mark, the end of a cycle (lines 145-179) |
| `Watched` | the three watches over a measurement (207-222) |
| `Full`, `Emptied` (`Corrected`) | corrections at a full and an empty battery (223-284), with `Learned` and `Careful` |
| `Counted`, `Flow` (`Lost`, `Regained`, `Compensation`) | `mah_cmlt` |
| `Calculated`, `Shown` | `mah_calc` |

The end of `Cal` is `_sys_chk` of the same pulse: `first_cycle_flag` is cleared, and the
environment may be stored, as it is with a write of the host, or has to be. `Booted`
is a start. The battery is external: `Discharge`, `Charge` (with the loss of 1.5% that
line 233 expects), `Rest` and `Turn` are its regular use; `Unbalanced`, `TurnEarly`,
`Pause`, `Blip`, `Chill`, `Crash` and `RestoreSox` are the disturbances.

### UartSwitch

Two threads, `host` and `auto`, run the same code: `pc[t]` is a thread's next statement
and `my[t]` its local variables. `from` and `to` are `_from_id` and `_to_id`; `hrd[h]` is
the device of handle `h`; `ref`, `conf` and `cons` what the devices know: how often they
are open, for which handle they are configured, which of them is the console. `overlap`
is a history: both threads have been in the exchange at once. The start (`_comm_init`,
where the board exchanges two handles and puts them back) is over in `Init`.

| Actions | Code |
|---|---|
| `Command`, `OtherPacket`, `Answer` | `_uart_hostcmd`; any other packet; `pp_host_data_send`, whose assertion fails on a closed port |
| `Look`, `FiveMinutes` | `_switch_back` |
| `Test`, `ReadFrom`, `ReadTo`, `ResetFrom`, `ResetTo`, `Check` | `pp_uart_handle_switch_back` up to its assertions, the test of `pp_uart_handle_switch` |
| `Close`, `Closing` | `pp_uart_handle_deinit`, for both handles |
| `Save`, `Take`, `Give` | `_hrd_switch` |
| `SetConsole`, `Configure`, `Open` | `pp_uart_handle_init` for both, the handle of the lower index first; `rt_console_set_device` closes the device of before |
| `SetFrom`, `SetTo` | the end of `pp_uart_handle_switch` |

### HostLink

`program` says whether the app or the bootloader listens. A byte is a packet's number
and its place in it, or `Bad`. `pc` is the host thread of the app: `SemReset`, `SemTake`,
`CheckTail`, `Timeout`, `Expired`, `Route`, `Done`, `Empty` are the statements of
`host_thread_entry` between which the interrupt (`Arrives`) may come. `BlHost` has the
loop of `main` instead: `Poll`, `TestTail`, `Enter`, `BlRoute`, `Leave`, `ResetTail` and
`ResetFinish` are the statements of `pp_bl_host_process`, the interrupt starts the timer
(`RecvData`), and `BlTimer` and `RecvTimeout` are `_timer_process`, which the uart
interrupt may interrupt in turn. `Route` and `BlRoute` execute a whole packet, answer an
error to bytes that have the code and the length of a packet, and are silent to others.

The host sends packet after packet (`Send`), takes the answer (`Answered`) or gives up
waiting (`HostTimeout`) and repeats; the line loses or breaks bytes, invents some (`Noise`)
and loses answers (`AnswerLost`), `MaxFaults` times in all. A first byte that comes when
a time-out is over and what waits not yet tested is taken for the end of a packet or
wiped with it: it counts as one of the faults. `executed` and `attempts` are histories.

## 3. What is checked

| Run | Question | Answer |
|---|---|---|
| `afe_table` | Can overlapping trips and releases leave a path closed through a standing protection? | No (`NoConductWhileTripped`) |
| | Is a path closed again when its protections have released, in whatever order they overlapped? | Yes, unless it was last refused because of a status without operation or one the host writes; then it stays open (`RecoversWhenClear`) |
| `afe_auto` | Can the automatic control win over a protection, or hold its lock with nothing open? | No (`NoConductWhileTripped`, `SysLockMeansOpen`) |
| | Does a trip open its path although the host keeps writing locks, the automatic switch and another status of the path? | Yes, or it is released first (`TripOpensPath`) |
| `afe_pdsg` | Is precharge refused while a protection forbids discharging? | **No**: `pdsg_mos_ctl` stays 1 from an earlier grant and is sent again (`pp_afe.c:137`) |
| `debounce` | Is a status or a time-out ever early or late in counted time? | No (`Debounced`, `Prompt`) |
| `debounce_time` | ... in real time? | **Yes, early**: `afe_times` stays 4 after one missed pulse (`pp_afe.c:41`) |
| `update` | With power failing, an image that does not run, a failing flash operation and lost answers, is there always a way on, and is only a whole image installed? | Yes (`Recoverable`, `CommitMeansWhole`, `AckedMeansStored`), but for the coincidences below |
| | Is an image that was committed in place before an app starts, and is no app ever written while it runs? | Yes (`InstallsWhole`), unless a flash operation has failed or the app rewrites `bl_data` again |
| | Does an installation complete, and does the wait of the bootloader end? | Yes (`SotaCompletes`, `LoopEnds`) |
| `uart_can` | Are the two ports bounded queues, whatever the interrupt comes between, and does the exchange of callbacks hold at every statement? | Yes (`UartIsQueue`, `CanIsQueue`, `ExchangeHolds`) |
| | Are the frames of a write what was written? | Yes, up to 255 bytes (`WritesWhole`); 256 and more are cut |
| `uart_can_assert` | Does the receive callback always succeed, as the assertion says? | **No**: a frame during opening or closing is read from a device with no reference (`pp_uart_can.c:59`) |
| `uart_switch` | Are ports and ids always in agreement, and does an exchange end, with a host and a thread that put back? | Yes (`InPlace`, `Undone`), as long as the two never meet |
| `sys` | Are abnormal ends noticed, is an environment that says it is whole really whole, is every write still going to be stored? | Yes (`ReportedExactly`, `CleanMeansWhole`, `DirtyMeansPending`) |
| | Does the system never stop too early, and is every command served? | Yes (`NeverHasty`, `RequestsServed`); a stop waits while a lock is set |
| `host_link` | Does the buffer hold, is no packet executed more often than sent, is each one answered in the end, at what price, by the app and by the bootloader? | Yes; two repetitions at most for each fault and one without (`InBounds`, `OncePerSend`, `FewTorn`, `Delivered`) |
| `sox` | Does the gauge ever believe in a capacity out of bounds, or count a measurement wrongly? | No (`CapacityBelieved`, `MarkHonest`); a power failure costs what was counted since the last store |
| | Does the percentage follow the current between full and empty? | Yes, but for one point when `fmah` fades (`FollowsCurrent`) |
| | Do regular cycles teach it the battery, from whatever one disturbance made of it? | Yes, `fmah` within 0.5% and `rmah` within 2% of the design (`Learns`) |

The three violations are the findings of `PROJECT.json`. Two sentences of the
repository that the code does not follow either, too small for a run:
`pp_continued.c:7` says that `pp_continued` keeps returning 1 while its condition
holds, but it restarts when it fires; `GEMINI.md:80` says that `bl_data` is written by
the app and read by the bootloader, which rewrites it before every launch.

### Bounds, and why they are enough

* `afe_table` takes six statuses of the program's table: two that operate both paths
  (`vdif`, `uv2`), one with members (`otc` and its cell), one the host writes
  (`pdsg_scd`), one of the chip without operation (`ov1`). Requests of a pulse interact
  only through the two paths, the lock and the two permissions, so every kind of pair is
  there; the theorems cover every table. Neither locks nor automatic control open a path
  in it (`OnlyProtections`).
* `afe_auto` is the other way round: the host writes locks, `smart_mos_off_flag` and
  `pdsg_scd` at any step, and only two statuses operate the discharge path, one of the
  program (`oht`) before which the one of the host (`pdsg_scd`) is walked.
* `afe_auto` takes an idle time of one cycle: whether the battery is used is chosen at
  every pulse, so the automatic control may open a path at any of them, as with
  every longer time.
* Delays are 0, 1 or 2 cycles: none, reached at once, interrupted. A time-out
  makes a pulse count for 4, beyond every delay. `Debounce` has delays up to 6,
  with 1 and 4 cycles to a pulse, and histories that saturate at 8.
* `Update` has images of three blocks: a first, a middle and a last packet; a good
  image and one that does not run, so that a mixture can be told apart;
  `MaxFaults` is 1.
* `SysLifecycle`: two contents of a model (old and new), one lock, a stop time of two
  pulses, so that the time can be interrupted. The host writes one model (`Written`) and
  asks for one restore besides stop, wake-up, restart and store (`Asked`): the others
  have the same code. The theorems cover all of them.
* `UartCan` has rings of three slots: empty, one and two waiting, full and wrapped;
  frames of one and two bytes. The code has eight slots; the theorems cover all.
  Writes have every length up to `MaxWrite`, 256. A write shares no variable with the
  rings: it is made while they are empty, which stands for every interleaving with
  them (`MCNext`).
* `UartSwitch` has two handles, the console and the host's, which is what the board
  has. The threads' steps are single statements, 434 thousand states; the theorems
  cover any number of handles.
* `HostLink` has three packets of a head with and without data, in a buffer that
  holds one of them, five faults, and two bytes to a turn of the thread.
* `Sox` counts in thousandths of the design capacity and moves 5% of it in a call;
  the three batteries hold two thirds of, four fifths of and a little more than the
  design, the second in a room too cool for a measurement to be trusted. One
  disturbance, of any kind, may come at any moment, and the regular cycles before and
  after it go on until nothing new happens (500 steps deep). With steps of 5% and a
  bound of 25% the low end of a discharge is five calls long. `Learns` allows 0.5%
  of the capacity, less than what a charge loses, so that a gauge that forgets the loss
  is caught, and 2% of what is left, for the error that a discharge adds up to.

### Fairness

`AfeProtect!FairSpec` has weak fairness of the pulse thread: it is started at
power-up, never leaves its loop and shares its priority round robin with the host
thread. The host gets none. `Update!FairSpec` has weak fairness of the
processor's own steps and of the timer tick, none of the host's; the liveness
properties suppose that resets stop (`<>[][~Crash]_vars`): no device that is
switched off for ever gets on. `SysLifecycle!FairSpec` has weak fairness of the
pulse thread, which waits for the chip with a time-out only. `HostLink!FairSpec` has
weak fairness of the host thread, for the same reason, of the bootloader's loop and of
its timer interrupt, and strong fairness of the
external host, which goes on sending and repeating and does not fall
into the end of a time-out for ever. `UartSwitch!FairSpec` has weak fairness of each thread: they have one priority and get
their turns; nothing is asked of the host. `Sox!FairSpec` has weak fairness of
`Discharge \/ Charge \/ Turn`: the battery is used, as the learning supposes; each of
its steps is a call of `pp_sox_cal`, which the pulse thread makes in every data pulse. `LoopEnds` exempts `fotaing`: after opr 002 the code waits for
the host without a time-out.

### Limits of Update

* The download is not protected by a checksum over the image; packets have a CRC,
  and the model takes a stored packet to be the packet sent.
* Two coincidences leave no way on, and `Survivable` and `Fail` exclude them. Power
  fails while `bl_data` is rewritten and the app in flash does not run (a failed
  installation), or the image being committed does not: the next start finds
  `comm_cfg_flag` erased and launches the broken app, or has no `dev_type` and
  therefore no port after having installed it. And a flash operation
  fails in an installation whose commit was cut before `dev_type` was written.
* Power that fails while the app rewrites `bl_data` between a commit and the restart (a
  `restart4fota` in between) withdraws the commit, which the host has been told of:
  `Withdraw` of `Installer`. The host has to send the image again.
* An image that reaches its APP2 initialisation and hangs later has already closed
  the window; `Good` means "keeps running".

### What the product build contains

The repository has one product (`app/prd/000`), and its project
(`app/prd/000/eide/.eide/eide.json`) excludes `pp_ota.c` and the CAN drivers
(`mcu/n32/drivers/drv_can.c`, `rt-thread/components/drivers/can`). What the models say of the
OTA handler in `Update` and of `UartCan` is therefore about code that is in the tree and
that the build 000 does not link or use: there an update comes through the bootloader
(`Restart4Fota` and the FOTA actions), nothing in the build asks for the installation of
`download`, and the ports are serial lines. The bootloader (whose
CAN port `CanWrite` covers), all the other modules and the parts of `Update`
that are not `OtaPacket`, `DlErase`, `DlWrite` and `Commit` are about code that is built.

### Hazards no property covers

`PROJECT.json` gives the reason at each: the bootloader waits without a time-out once the
host has opened an update; a discharge lock does not wake a stopped system; the five
minutes of a switch that follows another are short. Of these no document of the repository
promises better, and the models contain them as they are. Others are covered in part: two
exchanges of ports that meet and a write of 256 bytes are exempt from the properties named
there; the shared lock of the automatic control may be held against the path it was not
taken for; a trip that the host hides by writing its status twice leaves no trace.

### Limits of SysLifecycle

* A write of the host between the store of its model for a restart and the reset
  is acknowledged and lost; `DirtyMeansPending` says only that its store is pending.
* A byte between the test and the reset of `stop_reset_flag` does not restart the
  quiet time: `NeverHasty` promises nothing until the time starts anew.
* `_sys_chk_wkup` tests `mos_lock_chg` twice and `mos_lock_dsg` never; modelled as it
  is. A stop commanded and then locked stays pending until the lock is gone, and
  stops the system then: `RequestsServed` says "served or locked".
* Not modelled: shutdown (no board defines it), the host's writes of whole environment
  models by opr 05, the device's own changes of `sox` and of the time stamp. The three
  restart flags are one.

### Limits of UartCan

* Frames of length 0 are excluded (`RingAssumption`): the reader would never get past
  one. Closing the port under a reader is excluded (guard of `Close`): the reader
  would move the index of a cleared ring.
* Whether a frame follows the DLC of the hardware, and how long a send waits for a
  mailbox, are not modelled. `remain` and `msg_cnt` of `_uart_can_write` are `uint8_t`: a
  write of 256 bytes or more is cut, outside `WritesWhole`. The board of the repository
  does not call `pp_uart_can_init`, and its product build leaves out the CAN drivers.

### Limits of UartSwitch

* Nothing keeps the two threads apart. When the host's command comes in the middle of the
  thread's exchange, TLC finds the ways on from there that the code allows: the assertion
  on the handles fails (`pp_uart.c:144`: one thread read the ids after the other
  had reset one of them), a port is answered while it is closed (`pp_host.c:37`), two
  handles end up with one device. A thread whose assertion fails stops, so the run has
  no deadlock check; in a build with `RT_DEBUG` it spins instead. `InPlace` and `Undone`
  say what holds until then, and `overlap` is exactly the condition.
* The five minutes are not counted from the last switch but from when the thread saw
  the first: `FiveMinutes` may come at any time, also at once after a new switch.

### Limits of HostLink

* `Slack` bounds the bytes that come before the thread has had its turn, and
  `2 * Slack < Extra` is assumed: two turns' bytes fit into the reserve of 128 bytes
  behind `RECV_MAX_NUM`. The board's host port
  runs at 19200 baud (`pp_pcb_comm.c:50`), where 63 bytes take 33 ms; a thread that is kept off
  for longer in the middle of an endless stream is outside the model. The bootloader
  tests the bound itself, in the interrupt.
* The bootloader's time-out of 255 ms does not pass within the few instructions between
  its reset of `recv_tail` and of `recv_finish` (`Due`).
* The code word of a packet is taken to occur at its head only (`Framed`), and the
  CRC to tell a whole packet from all other bytes.
* What an operation does is left to the other modules; here it is executed or not.

### Limits of Sox

* The floats of the gauge are rounded to a thousandth of the design (the charge of the
  battery is kept exactly, in thousandths of those, so that the loss of charging does not
  add a rounding to every call). Line 312 divides by 4 where its
  neighbours take the cycle time of 256 ms: the compensation of a cold discharge is
  counted 2% short, which the model leaves out.
* `soh` and `cyc_cnt` are counters nothing depends on; the OCV sheet, and with it
  `ff_x_100_type` 1, is compiled in no board. The host may change `_afe_cfg.fmah` at run
  time; `Design` is constant.
* The first measurement from full to empty is believed even in the cold
  (`fmah_lrn_flag`). A battery that holds less than 75% of `fmah` and is never at 30 to
  55 degrees when it is empty shows 25% or more there, so that line 262 corrects
  nothing; only the fading of the cycles brings `fmah` down.
* Current of the wrong sign and cells that stay unbalanced for ever are not among the
  disturbances: nothing could be learned from them.

## 4. What is proved

All proofs are checked by TLAPS with Z3, Zenon and LS4.

`AfeProtectProofs`, from the assumptions `TableAssumption` (a table without
repetitions over the declared statuses) and `DataAssumption` (types of the
constants), for every table, every delay, every host and every reading:

* `TypeCorrect`: `Spec => []TypeOK`.
* `NoConductSafe`: `Spec => []NoConductWhileTripped`. It is not inductive. `PulseInv`
  strengthens it: the position in the table is tied to the step; behind the
  position every edge is consumed (`old = status`); the permissions speak of the
  statuses as they are except between `Detect` and `Evaluate`; and a status whose
  trip is consumed keeps its paths open. The last part survives `Operate` because a
  request to switch on is granted only under a permission, which the standing
  status denies; at the end of a pulse every edge is consumed and the property
  follows. One lemma per action shows that it is kept.
* `SysLockSafe`: `Spec => []SysLockMeansOpen`, by cases on the two requests of
  `MosCtl`.
* `RecoversSafe`: `HSpec => []RecoversWhenClear`, for every table and every host: of the
  program's own table too, in which most statuses have no operation. The invariant is
  `RecoverInv`: a path that is open waits for an edge that is still to come (`Owed`), or
  was refused because of a status that no edge follows; a permission that is missing has
  such a status (`stood`) or an operated one that stands (`Standing`) for its reason, since
  the detectors let an operated status see its members at once (`DetectSeen`). `Operate`
  consumes an edge only to grant the path, because of a protection that stands, whose own
  release is then the edge waited for, or with a refusal the history records.
  `HistoryOnly`: the history changes no behaviour, so all theorems about `Spec` hold with
  it. `HTypeCorrect` gives its type.

`DebounceProofs`, for every set of delays and every pattern of missed pulses:

* `InvHolds`: `Spec => [](TypeOK /\ Synchronized)`: the running accumulator of the
  status equals the history of the condition it waits for. `TypeCorrect` is its half.
* `DebouncedAlways` and `PromptAlways`: the two action properties, from `InvHolds`
  and what one sample does (`SampleStep`), which rests on `Counting`.

`UpdateProofs`, for all images, numbers of blocks and faults, from `ImageAssumption`:

* `TypeCorrect`; `CommitSafe` (`CommitMeansWhole`); `AckSafe` (`AckedMeansStored`);
  `RecoverableAlways` (`Recoverable`). The inductive invariant `IInv` has these parts:
  the packet being stored is the expected one (`PacketInv`); flash and RAM hold one
  `bl_data`, except while it is rewritten, when the words programmed so far agree
  (`CopyInv`); the app asks for an installation only after the last packet (`AppInv`);
  the blocks before the expected packet are of the host's image (`StoreInv`), so that
  the last packet completes a whole image; while an installation is pending the
  acknowledged packets are its own, in `download` (`AckInv`), so that overwriting the
  app loses none; and each phase of installation keeps what the next start would
  need (`RecoverInv`).
* `UpdateRefines`: `Spec => InstallsWhole`. The slot of `Installer` is the set of the (at
  most one) image that is whole in the app partition, `pending` what `bl_data` asks to be
  installed, `running` whether the app is in charge. Erasing and writing a block tear
  the slot or complete it, the word that holds `comm_cfg_flag` is what asks for an
  image, erasing `bl_data` is what drops it, and for that the bootloader must have
  finished or failed (`DoneInv`). All else is a stutter.

`UartCanProofs`, for rings of every size and all sets of frames:

* `TypeCorrect`, `ReadersSafeAlways`, `ExchangeSafe`: by the invariant `Inv`, which ties
  the callbacks and their saved copies to the statement of open and close (`HookInv`),
  the slots between the indices to frames (`RingInv`), what a reader holds to
  the oldest slot (`ReadInv`), and the bytes the interrupt has still to read to the
  frames that wait (`IrqInv`).
* `UartRefines`: `Spec => UartIsQueue`, and `CanRefines`: `Spec => CanIsQueue`. Each action
  of `UartCan` is a step of the queue or a stutter; the lemmas say what storing,
  reading and clearing do to the sequence of waiting frames, around the end of
  the ring.
* `WritesAlwaysWhole`: `WriteSpec => []WritesWhole`, for every `MaxWrite` that 16 bits can
  tell. The loop invariant (`Cut`): after each turn of eight bytes, what is on the bus and
  what remains are the buffer, and the app has not yet sent the frames it counted
  (`Counted`: eight bits count them without loss below 256 bytes). `WriteSpec` is the
  write of either program alone, in the run it is made beside `UartCan`.

`SysLifecycleProofs`, for all contents, locks and times:

* `TypeCorrect`; `ReportSafe` (`ReportedExactly`); `CleanSafe` (`CleanMeansWhole`): as long
  as `running_status` in flash is set, nothing is claimed, and the store that clears
  it is the last of its four; `PendingSafe` (`DirtyMeansPending`).
* `HasteSafe` (`NeverHasty`): no more time is counted than it was quiet (`Calm`), except
  while a byte waits in `stop_reset_flag` or the MOS are locked: then `idle` stands still
  although the battery may be used. The lock can only be taken back by a packet, whose
  bytes set the flag, and nothing clears it as long as the lock is held (`QuietInv`).

`UartSwitchProofs`, for every number of handles, from `SwitchAssumption`:

* `TypeCorrect`; `InPlaceSafe` (`InPlace`). As long as the two threads have not met, at
  most one of them is in an exchange, and the invariant (`Alone`) says for each of its
  statements (`Phase`) which handle has which device, which devices are closed (`Shut`),
  which are configured for their handle (`Configured`) and which is the console. The
  heart is `AloneSetConsole`: the handle of the lower index is initialised first, so when
  the console takes its new device and closes the one of before, that one is closed already.

`HostLinkProofs`, for all packets, lengths and numbers of faults, with the app and with
the bootloader listening:

* `TypeCorrect`; `BoundsSafe` (`InBounds`): at most two turns' bytes come between two
  tests of the tail (`BoundInv`), and `2 * Slack < Extra`; in the bootloader the
  interrupt's own test suffices.
* `OncePerSendSafe` (`OncePerSend`): a first byte in the buffer, unless the packet has
  just been executed, is of the sending in progress, which is not yet counted as
  executed (`BufferInv`); emptying the buffer after an execution keeps it so.
* `FewTornSafe` (`FewTorn`). `attempts` counts the sendings of the packet in hand, and
  `TornInv` bounds it by what is sure of the one in progress (`Within`): it is the last and
  may use the whole `Budget` if the receiver is sure to execute it (`Heard`), it must leave
  one sending if it is sure to leave an empty buffer behind (`Torn`), two if it may leave
  itself in the buffer (`Broken`), three otherwise; and likewise between two sendings, by
  what is left in the buffer (`Between`). A fault falls back by two levels at most, and adds
  two to the budget. Without a fault the bootloader has one thing to do at a time
  (`AloneInv`): its time-out, its interrupt and its main loop do not meet.

`SoxProofs`, for every design capacity, battery, time and number of disturbances,
from `SoxAssumption` (types; 100 mAh is at most 60% of the design; a cold battery gives
more than half of what it holds, as every rate of `PP_BAT_TF_CURVE_FMAH` does):

* `TypeCorrect`, and `CapacityAlwaysBelieved` (`CapacityBelieved`). The inductive invariant
  `Inv` says that both records, in RAM and stored, are either those of a new program
  or have a capacity between the bounds. `LearnedBelieved` is the heart: an update
  below 60% is refused, and a careful one moves by 1% towards a value that is not
  below, so it cannot end below either. One lemma for each part of the call shows
  that the part keeps it; a restart exchanges one record for the other.

* `FollowsAlways` (`FollowsCurrent`), for a design whose cycle costs it less than 0.6% of
  its capacity (`SlowFade`; the code takes a fifth in `max_cyc` cycles, so 34 are enough):
  what is shown is always the percentage of what is left, or the 99 that waits for the
  charger (`AgreeInv`), and between full and empty a call moves what is left only with
  the current (`CalFollows`); a fading of less than a percent then costs a point at most
  (`RoundedFades`).
* `MarkAlwaysHonest` (`MarkHonest`). The inductive invariant `MarkInv` bounds the difference
  between what was counted and what is in the battery by the disturbances so far
  (`Budget`), with a `Room` for each situation: a unit more from the last charge, which
  is rounded up, until the full battery ends the measurement, and a unit less while
  the battery is emptied, for without a disturbance no measurement is under way
  then; the record in flash may be behind by what its age allows. `CalMeasuring` says
  what a whole call does to a measurement: it counts the flow, or it begins anew, which
  only an empty battery makes it do.

Only model-checked: the liveness properties (fairness and leads-to are beyond the
prover). Every invariant that a run checks is proved.

## 5. Plan

In the order of importance:

1. Done: `Continued`, `Debounce`, `AfeStatus`, `AfeProtect`, `AfeRecovery`; `SysLifecycle`; `UartCan`
   over `MsgQueue`; `HostLink` with both receivers; `Sox`; `Update`; all with their proofs.
   `UartSwitch` and `CanWrite` with theirs.
2. Done: `Installer`, which `Update` implements.
3. The composition of `HostLink` with the OTA handler of `Update`.
4. `AfeCfgCheck` (`pp_data_check`, `pp_host_model`): validated before it is in force.
5. `Serialize`: the round trip on small models.

## 6. What is not modelled

* Cell balancing, the fuse (undefined in the only board), logging, the current
  calibration, LED, console, pins, clock, burn data: no state the properties
  depend on.
* The AFE driver: the repository holds a stub (`pp_fakeafe`). Its readings are
  arbitrary.
* The other compile-time variants of the automatic control (common port).
* RT-Thread, fal, flashdb, cson and the MCU libraries: vendored. Flash is erased
  by page and programmed by word, threads of equal priority interleave.
* Floating-point arithmetic of `pp_sox`, which is rounded, and its OCV sheet.
