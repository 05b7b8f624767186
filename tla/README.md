# Verification of the SHRD100 processing-system software

TLA+ models of the Linux application of the SHRD100 drone detector
(`src/linux_app`), the configurations that check them with TLC and the theorems
about them that TLAPS proves. The reference is always the C and C++ code; paths
below are relative to `src/linux_app/src/` unless they start with `src/`.

Contents: [the system](#the-system) · [what is hard](#what-is-hard) ·
[the modules](#the-modules) · [the runs](#the-runs) · [fairness](#fairness) ·
[what the code does otherwise](#findings) · [the proofs](#the-proofs) ·
[what is only model-checked](#only-model-checked) ·
[what is not modelled](#not-modelled) · [the plan](#the-plan) ·
[how to run it](#how-to-run-it)

## The system

The device listens to the radio spectrum, recognises drones and their remote
controls, finds their direction from the levels received while the device is turned, warns its operator with
LED, buzzer and motor, and reports to one or more hosts ("C2") over Ethernet,
Wi-Fi or USB Type-C. One process holds all of it. It is built of threads that
own a message queue each (the `eap` framework), and of C threads of the device
layer (`tracer/hal`) that call back into it.

| Component | State it keeps | Operations |
|---|---|---|
| Message core: `eap/base/thread`, `eap/base/cmdproc`, queues of `eap/os_adapter/linux` | a POSIX queue, `_state`, `_health`, one response slot (`_respMsg`, `_isResponsed`) per thread; the commands to ignore | send with or without waiting for the answer, one retry of a refused send, dispatch, answer, pause, idling, resume, ignore |
| Health detection and timers: `HealthDetectThread`, `TimerThread` | one health word per thread, a vector of timers (valid, one-shot, ticks left) | begin and end a round, probe, sweep the timers every tick, start a delayed timer |
| Firmware upgrade: `tracer/hal/c2_alink/upgrade` | state of the transfer, header, offset, running CRC, cache file, the unpacked file | request, download, check, write, write status, run (a thread that unpacks and reboots) |
| Spectrum detection: `eap/spectrum` | table of drones, step and scans of direction finding, report timer | one frame per DMA interrupt, exit, report, clear |
| SYS: `eap/base/sys` | work mode, system status, serial number | set work mode, hit switch, configuration |
| C2 links: `tracer/hal/eth_link`, `TracerCommonHal` | list of TCP clients, table of links `_tcps` with its lock, UDP and Type-C links | announce, connect, receive, send to one or all, time out, take down |
| USB Type-C: `tracer/hal/eth_link/usb_typec`, `TracerCommonHal` | the port, one copy of its client in `_typeC` | open, close, reopen, receive, send |
| ALINK: `tracer/hal/c2_network`, `tracer/hal/c2_alink`, `eap/alink` | one receive buffer per link, a table of commands | cut messages out of a stream, check, dispatch, answer |
| HEARTBEAT: `eap/heartbeat` | last heartbeat per kind of link, state of target, warning levels, LED, buzzer, motor | timer tick, heartbeat, warning, work status, time-out |
| Whitelist: `WhitelistManager`, the detectors' alarms | the list in memory, a table in SQLite, one connection | read at the start, replace, compare |
| FREQUENCY: `eap/frequency` | detector in use and its position | change mode, next frequency |
| Sniffers: `eap/drone_sniffer`, `eap/airborne_sniffer` | results of the signal processing, gain and switch control | detect (called synchronously by SPECTRUM) |
| Drone ID, Remote ID, vehicle mode, Bluetooth | tables of decoded identities, capture buffer | report, decode, forward |
| Device access: gyro, ADC, battery, GPIO, DMA, I2C, power button | registers, one DMA buffer, state of the long press | read, write, interrupt |
| Recorder, logs, console | files with indices, message record | write, rotate, print |

**How they interact.** Nearly everything is a message: a request to the queue of
the thread that registered its command (asynchronous), or a synchronous call, in
which the caller blocks until its response slot is filled. Synchronous calls from
inside handlers are ALINK → SYS (`eap/base/sys/SysAlinkFunc.cpp:52`), CLI → SYS
(`eap/base/cmdproc/SysCmdproc.cpp:23`), SPECTRUM → DRONE_SNIFFER
(`eap/spectrum/SpectrumCmdproc.cpp:111`) and SPECTRUM → AIRBORNE_SNIFFER (`:167`).
SPECTRUM posts target warnings and work states to HEARTBEAT and frequency modes
to FREQUENCY. Besides, threads share words without a lock: the work mode, the
operator's wish to enter direction finding, the system status, the health words
and the flags of the table of links. The C layer calls back: a connection that
comes up or goes down enters or leaves `_tcps`, a received ALINK frame goes to the
handler of its command. The table of links is protected by `_tcpMtx`, the list of
clients is not protected.

## What is hard

- *One response slot per thread.* A call that is given up leaves a late answer
  that the next call may find. Matching is by source, command and sequence number.
- *Timed sends to small queues*, one retry, and a result of the retry that is
  reported the wrong way round.
- *Unlocked words*: health is compared and assigned in two steps; pause takes
  effect one message late; a timer is invalidated after its job.
- *Protocols whose commands come in any order*: upgrade commands, fragments
  repeated, skipped or left over, two run commands, a request during the copy.
- *Direction finding ends in many ways* (full scan, exit, change of mode, hit),
  in each of six steps, and two other threads have to be told each time.
- *Tables that age*, with an iterator into them kept over frames.
- *Descriptor numbers that are used again* while a table and several threads know
  them; a send that never gives up under the lock of everybody.
- *Two calls on a shared descriptor*: a fragment is written with `lseek` and `write`,
  while a reboot task seeks and reads the same descriptor.
- *A clock that is set while it is compared*: the first heartbeat asks the host for its
  time, and the answer sets the clock that the age of heartbeats is taken from.
- *Time-outs against late messages*: the checks of a timer overtake the heartbeats
  that wait in the same queue, and the time of a heartbeat is the one of its handling.
- *A port that is closed, opened and copied without the lock* its senders hold.
- *Streams*: a read ends anywhere, links fail in the middle of a message, and what is
  left of it stays in the buffer.
- *A database connection shared by the start and the first request*, statements that
  fail, and the power that fails between two of them.

`PROJECT.json` lists the hazards with the properties that watch them. Further
places where the code is delicate, found while reading, that no property watches:

- `ThreadMgr.cpp:23`: `ReCreateThread` starts a second thread on a queue and a response
  slot whose first thread is only paused.
- `CmdprocBase.cpp:125`: `s_isStoreCmd` is one variable for all threads and is read
  twice in one dispatch. `ThreadBase.cpp:187`: a refused send leaves `*respLen` as it was.
- `TimerThread.cpp:65`: a tick during a sweep is reset with the one before.
  `TimerThread.cpp:91`: a timer is appended to the vector during its sweep.
  `eap_os_linux.cpp:430`: a signal handler locks the mutex of an event.
- `SysBase.cpp:297`: the hit status may be overwritten by the frame in progress.
  `SpectrumCmdproc.cpp:120`: a reply of length 0 is not looked at, so that an error
  returns the answer of an earlier call.
- `RemoteIdModule.cpp:914`, `RemoteIdCmdproc.cpp:235`: a table too large for one report
  is neither reported nor aged.
- `firmware.c:50`: a header with length 0 reaches a division by it.
- `FrequencyModule.cpp:76`: the defined frequency is the one of the moment of the
  message, after the hop the same frame asked for. `OrientationProc.cpp:149`: a full
  scan clears the bearing and computes it again, and reports show it afterwards.
  `SpectrumModule.cpp:53`: an exit is queued and an enter is not, so that an exit
  followed by an enter ends direction finding. `OrientationProc.cpp:79`: after a return
  to the mode for all directions HEARTBEAT keeps the state "aimed".
- `TracerCommonHal.cpp:1159`: a time-out turns off the link a host opened since.
  `TracerCommonHal.cpp:342`: an answer goes to a socket number that may be another's by
  then. `eth_link.c:486`: at the end of the list a host is refused that shares the
  address *or* the port of the last one. `tcp_client.c:185`: the
  send time-out is not set on the socket made after a failed connect.
- `nvram_cust.c:111`: the serial number is truncated and written.
  `WarningBase.cpp:64`: three values index a table unchecked. `SysAlinkFunc.cpp:325`: in
  another mode the answer holds what its buffer held. `eap_os_linux.cpp:518`: registering
  fills all free entries of the shared table. `TracerDataPath.cpp:215`: the DMA callback
  fills the buffer that may be read. `FileOutputStream.cpp:73`: which file comes next
  after a restart.

### What makes each component correct

| Component | Properties |
|---|---|
| Message core | a caller gets its own answer or an error; a request runs at most once; a blocked caller's request still exists; pausing works; calls return; queues drain |
| Health detection | a round ends with a verdict for everybody; nobody is accused who had answered; a round ends |
| Firmware upgrade | the CRC speaks of the cached cells, unless a task got between `lseek` and `write`; a checked image stays complete; the switch goes to the received file, unless a read of the cache failed; a run command decides |
| Spectrum detection | warnings and reports follow the table; a drone unseen for three rounds goes; direction finding ends, with a bearing of its own, and FREQUENCY follows |
| C2 links | entries are open sockets; no close under a sender; dead links go; sending ends |
| HEARTBEAT, Type-C | a host that beats is kept, but for a step of the clock, and served; lamp and reports only for a host heard lately; no write to a closed port |
| ALINK framing | messages are handed over in order and once; none is held back; none is lost without a fault |
| Whitelist | a confirmed list survives; never part of a list; the connection is given back; the alarm is right in the end |
| Serial number, recorder (planned) | what a loss of power leaves is the old or the new value |

## The modules

Written in the order of importance of the behaviour.

### `EapSyncCall` (with `EapRpc`, `MCEapSyncCall`, `EapSyncCall_proofs`)

The message core: `ThreadBase.cpp`, `ThreadMgr.cpp`, `ThreadQueue.cpp`,
`CmdprocBase.cpp` and the queues of `eap_os_linux.cpp`.

| State | In the code |
|---|---|
| `inbox[t]`, `ticks[t]` | the POSIX queue of a thread, which uses priority 0 for requests and 10 for timer messages |
| `resend` | asynchronous sends between the first attempt and the retry |
| `pc`, `cur` | where `ThreadBase::Run` is, and the message it handles |
| `call`, `slot`, `responded` | the request inside `SendAndWaitResp`, `_respMsg`, `_isResponsed` |
| `state`, `ignored` | `_state`, `s_ignoreCmds` |
| `executed`, `swallowed`, `failed`, `outcome`, `lag` | history only: no guard reads them |

`Post`, `Tick` and `Resend` are the asynchronous sends and timers with the retry;
`Enter`, `ConsumeTimer`, `ConsumeRequest` are the loop of `Run` with its test of
`_state`; `Handle`, `Call`, `SendInTime`, `Retry`, `Return` are a handler and the
synchronous call it may make, with the mutex of the response slot; `Finish` is the answer; `Pause`, `Idling`, `Resume`, `AddIgnoreCmd`,
`DelIgnoreCmd` the operator's commands. A timed send that waits is a send that is
tried now or later; that it expires is a choice. `CallReturns` names the one way to wait for ever,
`WaitsInVain`: the request was thrown away by an idling thread, an ignored command or a
handler without an answer. `EapRpc` is what a caller may
rely on: a request is served at most once and a call returns its own result or an
error. `ImplementsRpc` says that the framework implements it.

### `EapHealth` (with `EapHealth_proofs`)

`HealthDetectThread`, `HealthDetectCmdproc`, `TimerThread` with the one-shot timer
of a round, and the health words of the workers. `HMark`, `HProbe`, `HArm`,
`HEndRead` and `HEndWrite` are the steps of a round, the last two apart because
`EndDetectRunHealth` compares and assigns without a lock; `TSweep`, `TJob`,
`TClear`, `TReload` are the sweep of the timer thread, with the job before the
flag is cleared; `WEnter`, `WConsume`, `WWell` are the worker. `lost` records the
two ways the code loses the message that ends a round.

### `FirmwareUpgrade` (with `MCFirmwareUpgrade`, `FirmwareUpgrade_proofs`)

`alink_upgrade.c` and `firmware.c`. An image is a sequence of cells, the header and the
cells of its file, each with its image and position, so that a fragment of another transfer
shows; the CRC is the sequence of cells it was computed over. The cache file and the unpacked
file are sequences of cells and holes.

| State | In the code |
|---|---|
| `updateState`, `saveOk` | the state of the transfer, `firmware_save_ok` |
| `header`, `offset`, `crc`, `cacheFd` | `firmware_info_t`: announced image, `uOffset`, `crc`, whether the cache file is open |
| `fdPos`, `cache`, `unpacked` | the position of the one descriptor, the cache file, the file in `FIRMWARE_DIR` |
| `frag` | the fragment of the ALINK thread between its `lseek` and its `write` |
| `task` | the threads of `auto_reboot_task`: where each is, `file_offset`, `file_len`, what is left to copy, the position in the unpacked file, `cnt` |
| `verified`, `disturbed`, `slipped`, `unread` | history: the last accepted transfer passed the check; a request or another run command came while a task worked; a task moved the position under a fragment; a read of a chunk failed or was short |

`RequestUpgrade`, `CheckImage`, `WriteImage` and `GotoApp` are the commands, with their
failures. A fragment takes two steps, `DownloadSeek` and `DownloadWrite` (or `DownloadFails`),
and every step of a task may come between them. `Save…` are the steps of `auto_reboot_task`
through the descriptor it shares with every other task: `SaveSeek`, `SaveHead` (with a
head that is wrong or cannot be read), `SaveChunk` for a chunk, `SaveChunkShort` where the
cache has no more to read, `SaveReadFails`, `SaveWriteFails`, `SaveClose`. `SwitchAndReboot`
is the reboot, after which the state starts over and the files stay. `update.flag` is
written by the script of the reboot and read by no code of the repository: it is left out.

Three things the model made plain, which no line of the repository speaks against, and
which the properties leave out by name:

- Run, check, request, download is a legal order of commands. The task of the run command
  still reads through the descriptor while the fragments of the new transfer arrive. A
  read between `lseek` and `write` (`firmware.c:292-293`) puts the fragment elsewhere, while
  `uOffset` and the CRC count it: the check then passes on a CRC that does not speak of
  the file. `CrcCoversCache` leaves such a transfer out (`slipped`).
- A chunk whose read fails or is short counts as copied (`firmware.c:158-171`): only a failed
  write ends the copy. The device then switches to a file with a hole, or without its end.
  `SwitchesToReceivedFile` leaves such a task out (`unread`).
- A run command when nothing was received finds `file_offset` equal to `uOffset`, both 0, so
  that it succeeds and the device switches to whatever is in `FIRMWARE_DIR`. The property is
  about tasks with something received (`offset # 0`).

### `SpectrumOrient` (with `SpectrumOrient_proofs`)

`SpectrumModule`, `SpectrumCmdproc`, `OrientationProc`, `RptController` and the
work mode and status of `SysAlinkFunc`, `SysCmdproc` and `SysBase`. `infos` is the
table with its remaining times; `ori` the step, state and scan; `orient` the
iterator of the oriented drone, `Dangling` when its entry is erased. `Sensing` is a
frame in two steps, because the work mode is read at the start and used at the
end, while ALINK and SYS write it; `SenseSpectrum` is all the rest of a frame:
merge, age, choose the loudest drone, step the direction finding, send the
warnings. `OnClearOrientateCmd`, `ReportSpectrumDroneInfo` are the other handlers of
SPECTRUM, `EnterOrientate`, `ExitOrientate`, `SetOrientationMode` and
`WriteOrientationMode` the ALINK commands, `OnSetWorkModeCmd` the handler of SYS,
`OnSetFrequencyModeCmd`, `OnTargetWarning`, `OnRefreshWorkStatus` those of FREQUENCY
and HEARTBEAT, `SetRFEnable` the hit switch.

Angles, levels and their estimation are reduced to the outcome of their tests. One
scene (SPECTRUM). The response buffer before the first answer holds any result, as
it is not initialised. Queues are bounded by `MaxQueue` in the guards: an overflow
is the subject of `EapSyncCall`. The status `"detect"` and the state
`ORI_STATE_DETECT` share the value 1 in the code and are one value here.

### `C2Link` (with `MCC2Link`, `C2Link_proofs`)

The TCP part of `eth_link.c`, `tcp_client.c`, `TracerCommonHal.cpp` and the time-out
of HEARTBEAT. A client is its list entry, its thread and its socket; its name is
its socket number, and the lowest free number is used next. `Announce` and `Link`
are the UDP thread (the thread of the new client runs in between); `Connect`,
`ConnectFails`, `Register`, `PeerGone`, `TurnedOff`, `Closed`, `Disconnect`, `Delete`
are the thread of a client; `Send`, `Enter`, `Sent` are a sending thread, which
takes `_tcpMtx`, visits the entries and stays in `tcp_client_send` while its peer
takes nothing; `TimeOut` writes `bFlagConnect` of all entries without the lock;
`Stall`, `Resume`, `Break` are the network.

Assumptions: a descriptor keeps its number across the reconnects of one client;
the UDP thread has created a client before that client's thread is deleted;
HEARTBEAT sends to all links only and may find its host overdue at any check made
while it does not send. The senders are those of `_SendMsgToLinkChannel`: the ones of the remote
controller, `_LoginToRemoteControlUnit`, `_SendHeartBeatToRemoteControlUnit` and
`_SendDroneInfoToRemoteControlUnit` (`TracerCommonHal.cpp:405-413`, `433-440`, `452-459`), go over
`_tcps` without `_tcpMtx`; they belong to that protocol, which is not modelled, and
`SendOnOpenSocket` says nothing of them: a socket may be closed under them. A client that is chained to an entry that has been freed
is on no list (the write goes to freed memory). `Unlink` loses the entries between
the first and the one taken out, as `psLast` never advances (`eth_link.c:354`).

### `HeartBeat` (with `HeartBeat_proofs`)

`HeartBeatCmdproc.cpp` as far as it supervises the hosts, the Type-C part of
`TracerCommonHal.cpp` and the thread of `usb_typec.c`. Time is discrete: `Tick` lets a
unit pass, and every time of the code is kept as an age, cut off where no comparison
tells two values apart, so that the model runs for ever and is finite.

| State | In the code |
|---|---|
| `beats`, `checks` | the queue of HEARTBEAT: heartbeats and checks of `TIMER_2`, by the time they wait |
| `age`, `flag`, `sync`, `status`, `lamp` | `m_c2_heartbeat_tick`, `m_c2_heartbeat_flag`, `hearbeat_sync_typec_flag`, `_c2HeartBeatStatus`, the lamp of the link |
| `connect`, `rev`, `sock` | `_typeC`, the copy of the client under `_tcpMtx` |
| `port`, `upc`, `uncopied` | the descriptor and thread `usb_typec`, and what `_typeC = tcp` has still to copy |
| `lock`, `spc` | `_tcpMtx` and the threads in `_SendMsgToLinkChannel` |
| `asked`, `dated` | the two variables `time`: the host was asked for its time, the clock was set |
| `quiet`, `late`, `silence`, `stepped` | history: pauses of the host, the time since it was heard, and whether the clock was set since |

*The clock* is `system_clock` (`eap_os_linux.cpp:198-201`). The first heartbeat makes HEARTBEAT
send a request for the time of the host (`HeartBeatCmdproc.cpp:313-318`, `SendRequest`), and the
first answer runs `date -s` (`SysAlinkFunc.cpp:345-368`, `SetClock`): every age jumps up or down
by the same amount, once in the life of the program. An age below 0 is a time in the future;
the difference is unsigned (`:336`, `:358`), so such a link is over at its next check. Apart
from that step the clock is taken to run evenly. The timers and the queue do not use
it: `TimerThread` counts periods.

A host that keeps beating can therefore be turned off once, by a check between
the step and its next heartbeat, when the step goes forward by more than what is left of
the time-out or back past its last heartbeat. `BeatingHostKept` leaves exactly these
links out (`stepped`, which the next heartbeat that is taken ends). After a step back that is
shorter a silent host may count as connected for one time-out and one gap longer:
`LampBound` has both bounds, and the longer one is reached in the run.

`Beat` is a host's heartbeat; `_OnUpdateC2HeartBeatTime` takes one from the queue;
`CheckTimeOut` is `_OnTimer` with the time-out, what it turns off and the lamp. Checks
have the priority of timers and overtake heartbeats. `PortClose`, `PortOpen`,
`TypeCConnectCopy`, `TypeCConnect` are the thread of the port: the copy is not under
the lock and its fields are written in any order. `SendReport`, `SendHeartBeat`,
`SendRequest` and `SendWrite` are the senders. The TCP side ends at the time-out: what it does to the
links is `TimeOut` of `C2Link`. A host on Type-C can beat only while the port is open.

### `Whitelist` (with `Whitelist_proofs`)

`WhitelistManager.cpp`, its callers (`SysBase::Init`, the thread of the ALINK
requests), the alarms of `DroneIdModule` and `RemoteIdModule` and `TargetAppear` of
HEARTBEAT. A list is a set of serial numbers. `stored` is the committed table, `db` the
connection with the rows of its transaction, `stuck` a lost connection that holds the
write lock; `pc`, `want`, `todo` are the two callers. `InitOpen`, `InitSelect`,
`InsertWhitelist`, `InitClose`, `InitEmpty` read the table, row by row;
`SetSame` … `SetClose` are the statements of `SetWhitelist`, each of which may fail
(`SetFails`); `PowerLoss` starts everything again with `stored`. Both callers use the
one handle, as in the code, so that the transaction of one may hold the rows of the
other. `Detect` changes a detector's table in any way, `TargetWarningProcWhitelist`
sends the edges, `TargetAppear` joins the scenes.

SQLite is modelled from its use: autocommit, one transaction per connection, a lock
between connections. A `SELECT` of one caller is taken to be in the way of the other's
statements even on the same connection, which allows more failures than SQLite does. A
connection that is closed under a running statement is undefined behaviour and left out.

Two things the model made plain, which no line of the repository speaks against: the
list in memory stays when a write failed after the old rows were deleted, so a host that
sends its old list again is answered "same" (`:185`) and the table stays empty until
the next start, which puts the list for tests there (`:131`); and a request for the
empty list while `Init` reads closes the connection under it, so that `Init` finds no
rows and replaces what was stored by the list for tests. `ConfirmedIsKept` leaves these
cases out by `unread` and by the empty list, and says so.

### `AlinkStream` (with `AlinkStream_proofs`)

`c2_network_cbk_data` of `tracer/hal/c2_network/c2_network.c`: how the bytes of a link
become messages for EAP. A byte is a cell that knows its message and position, so that a
head is right exactly when its cells are those of one message in their places; a
checksum is taken to find every damage. `buf`, `msgLen` and `start` are
the buffer with its length, `msg_len` and `msg_rcv_start_tick`; `at` is `msg_head`.
`Receive` reads any number of bytes that fits, with the test of the time-out before it and
the tests for a head or a whole message after it; `AwaitHead`, `AwaitData`, `BadHead`,
`BadData` and `Deliver` are the ways through the loop. `Damage` and `Reopened` are the
link, `ReceiveNothing` a read of 0; a read that fails is 0 as well
(`tcp_client_recv`, `usb_typec_data_recv`), so the branch for negative lengths is never
taken. `delivered` and `clean` are history.

The time-out discards nothing: `_c2_network_reset_buf` clears `psNetwork->buf_len`, but
the callback goes on with the copy it made in line 218 and stores that again. The
comment in line 224 says that the buffer should be cleared. What a host left unfinished,
or what was read before the link was reopened, therefore stands before the next
message, however late it comes; the checksum of the two fails, and what was read with
them is lost. The properties show what is right all the same: nothing wrong, nothing twice and nothing in
another order is handed over, and without a fault nothing is lost, however long a host pauses.

## The runs

All with two workers of TLC; the longest takes about three and a half minutes.

| Run | Instance | What it shows |
|---|---|---|
| `EapSyncCall` | ALINK calls SYS; queues of one message; 3 sends, 2 operator commands | `OwnAnswer`, `MismatchOnlyAfterFailure`, `AtMostOnce`, `PauseLag`, `ImplementsRpc`, `CallReturns` |
| `EapSyncCall_failed` | ALINK calls SYS; 4 sends; no operator | violated: `FailedMeansUnsent` |
| `EapHealth` | 2 workers, 2 operator commands (rounds among them), period of 2 ticks | `VerdictIsFair`, `OpenRoundEnds` |
| `FirmwareUpgrade` | images of 4 and 2 cells, buffer of 4, fragments and chunks of 2, 2 retries, 2 requests, 2 tasks, 1 file fault | `CrcCoversCache`, `VerifiedStaysComplete`, `SwitchesToReceivedFile`, `RunEnds` |
| `SpectrumOrient_table` | 2 drones, remaining time 2, scans of 2, 1 unanswered frame, 1 command, 1 hit | `WarningFollowsTable`, `EmptyReportedAtOnce`, `GoneAfterThreeRounds` |
| `SpectrumOrient_orient` | 1 drone, scans of 3, 3 commands | `FreqFollowsOrientation`, `OrientationEnds` |
| `SpectrumOrient_gone` | 1 drone, 2 commands | violated: `OrientedDroneKnown` |
| `AlinkStream` | 4 messages of 3 or 4 bytes with heads of 2, a buffer of 8, 2 faults | `NoneHeldBack`, `InOrderOnce`, `CleanLosesNothing` |
| `HeartBeat` | a host on either link; time-out 2, check every unit, pauses and delays of 1, a step of the clock of up to 3 | `HeardLately`, `NoStrayWrite`, `BeatingHostKept`, `TypeCServed` |
| `C2Link` | 2 hosts, 2 clients, 2 entries, 2 attempts, 2 senders | `SlotIsLive`, `SendOnOpenSocket`, `UnusableIsDropped`, `SendReturns` |
| `C2Link_stall` | the same, without `PeersRecover` | violated: `SendReturns` |
| `Whitelist` | lists of no and one drone, 2 drones for tests, 2 detectors, 1 request, 1 loss of power, 1 fault | `ConfirmedIsKept`, `WholeListStored`, `ConnectionGivenBack`, `AlarmIsRight` |

Every passing run also checks the type invariant of its module (the two of
`SpectrumOrient` share it).

**Why the bounds are enough.** `EapSyncCall`: with queues of one message the second
send already expires, and three sends give two calls and one message between them,
so that a late answer finds the next call of its thread; two operator commands
pause or idle and resume. `EapHealth`: two rounds let a probe of the first reach the
second; two workers let one be answered while the other is compared. Fewer ticks
only remove stuttering. `FirmwareUpgrade`: the two lengths differ, so a fragment of
the long image exceeds the short one, and two fragments of it fit the buffer
exactly; the file of the long image takes two chunks, the second one shorter; with two rounds
the loop goes on once after a copy that failed; the second request meets the first task. `SpectrumOrient`: a scan of three
has a first, a middle and a last sample; a remaining time of two separates "seen
now", "aged" and "gone"; three commands are one to enter and two that race. Bounds
on queues, commands, hits and failures are named constants in the guards.
`C2Link`: a socket number is used again, hosts announce themselves twice, and both
senders meet the lock. Two clients do not fill a list of three, so the loss of
middle entries in `Unlink` and a full table do not occur in the run; the theorems
about the table and about sending cover them.
`AlinkStream`: a read may end in a head, in the data, behind a message or in the next
one; the buffer holds exactly two of the longest messages, as `ALINK_MSG_BUF_MAX` is
meant to; one of the two lengths is too long for EAP; and after two faults two
messages are left for the stream to start afresh.
`HeartBeat`: the time-out is the shortest that allows for a pause and a delay, so that
one unit more in any place shows; a step of 3 takes any age past the time-out or into the
future. One host is in the run; the theorems allow hosts on
both links at once and any times. `Whitelist`: the list for tests has two rows, so that
a write can end between them; the list that is sent can be the stored one, another one or
the empty one; one loss of power or one fault falls in any place of a request or of the
start. More requests are left to the theorems, which hold for any number.

`CHECK_DEADLOCK FALSE` is set where the bounds on commands, sends and rounds stop the
model, and where a call that was thrown away blocks its thread for good, which the code does.

Every property of a passing run has a mutant in `PROJECT.json`: a definition of the
module changed the way a slip in the code would change it, for which TLC reports
that property violated. The operators of the mutants stand next to what they change,
under a comment that starts with "Mutant".

## Fairness

- `EapSyncCall`: weak fairness of each thread's steps and of the pending retries;
  they are live pthreads in loops. No fairness of senders, timers and operators.
- `EapHealth`: the same for HEALTH_DETECT, each worker and the timer thread, whose
  10 ms tick recurs.
- `FirmwareUpgrade`: each started task goes on. Nothing is assumed of the host.
- `SpectrumOrient`: the threads go on with their messages and frames keep coming;
  strong fairness of a frame whose angles can be read. Without the latter direction
  finding need not end: no sample is counted (`OrientationProc.cpp:41`).
- `C2Link`: `Scheduled` is weak fairness of the threads and strong fairness where a
  thread waits for `_tcpMtx` or for room in its socket: the holder wakes waiters, a
  socket with room wakes its sender. `PeersRecover` is an assumption about hosts, not about this
  program: one that stops reading reads again or goes away. It is dropped in
  `C2Link_stall`, where it turns out to be needed.
- `HeartBeat`: time passes, HEARTBEAT goes on with its queue and is late by `MaxDelay` at
  most; a sender that holds `_tcpMtx` goes on, since the port is opened with
  `O_NONBLOCK`; the thread of the port, and HEARTBEAT with its request, get the lock sooner or
  later (strong fairness of `PortClose` and `SendRequest`); the port can be opened again. Hosts beat when they like.
- `Whitelist`: both callers, the detectors and HEARTBEAT go on. A detector goes over its
  table again and again; the properties about storage need no fairness.
- `AlinkStream`: none; its properties are about what is left at any moment.

## Findings

- **A stored message is reported as not sent** (`eap_os_linux.cpp:273`, run
  `EapSyncCall_failed`). The result of the retry is tested with `> 0`, but success
  is 0. The caller gives the call up while its handler runs; the late answer then
  meets the next call of the thread, which ends as "not matched"
  (`MismatchOnlyAfterFailure` shows that this is the only way).
- **Direction finding goes on with an erased drone** (`SpectrumModule.cpp:363`, run
  `SpectrumOrient_gone`). The iterator outlives the entry of a drone that counts as
  gone.
- **A send has no end** (`tcp_client.c:281`, run `C2Link_stall`). The time-out of
  300 ms of the socket leads to another attempt, under the lock of the table.

That the time-out of a message clears nothing (`c2_network.c:227`) is told at `AlinkStream`.

## The proofs

Each theorem holds for every value of the constants that satisfies the assumptions
named in its module; TLC evaluates these in the runs.

| Module | Theorem | Inductive invariant |
|---|---|---|
| `EapSyncCall_proofs` | `TypeInvariant` | `TypeOK /\ CallPending`: a thread inside `SendAndWaitResp` has a request, not a timer message, in `call`; without it the answer has no type |
| | `OwnAnswerTheorem` | with `SlotHonest`: a slot holds the sequence number of a request that ran |
| | `PauseTheorem` | `PauseBudget`: a paused thread that still waits for a message has not handled one yet |
| | `OnceTheorem` | `OnceInv`: a number is in one place, and outside the queues (executed, handled, held for a retry, being sent) only the last two lead into one |
| | `MismatchTheorem` | `EchoInv`: a request under way for a caller is its present one, or has a reported failure behind it |
| | `Implementation` | none of its own: with the invariants above every step is a step of `EapRpc` or a stutter (`RpcStep`) |
| | `UnderWayTheorem` | `CallUnderWay` itself, with `OnceInv` |
| | `GoesOnTheorem` | `RankInv`: requests are with the owner of their command, calls go down in rank |
| `EapHealth_proofs` | `HealthTypeTheorem` | `TypeOK` |
| | `VerdictTheorem` | `VerdictInv`: behind the loop nobody is under test, and whoever is about to be called bad is accused |
| | `RoundTheorem` | `RoundInv`: between the message of the timer and the end of the sweep, `isValid` does not count |
| `FirmwareUpgrade_proofs` | `TypeInvariant` | `TypeOK`, with `FragInv`: a fragment that waits for its write still fits |
| | `CrcTheorem` | with `CrcCoversCache` and the position of the fragment that waits, unless a task has moved it |
| | `VerifiedTheorem` | `VerifiedIsClosed`: a checked image is complete *and* the state refuses fragments |
| | `SwitchTheorem` | `SavingInv`: one undisturbed task at work, the transfer closed, and what it has unpacked, unless a read failed, is the front of the file in the cache |
| `SpectrumOrient_proofs` | `FreqTheorem`, `AimTheorem` | `OriInv == OriType /\ FreqFollowsOrientation /\ AimedMeansFound` |
| | `ModeTheorem` | `OriInv /\ OnlyOrieOrients` (both properties are defined beside their proofs) |
| | `ReportTheorem` | `ReportInv` |
| | `SpectrumTypeTheorem`, `WarningTheorem` | `SpectrumInv == TypeOK /\ OriInv /\ WarningInv`: the last warning in the queue, else the one HEARTBEAT has, is what the table calls for |
| | `GoneTheorem` | `AgeInv`: frames unseen and remaining time together stay below `RemainTimes` |
| | `ErasedTheorem` | `KnownInv`: state and step agree, and a direction finding on its way has a drone of the table or an erased one |
| `C2Link_proofs` | `TypeTheorem` | `TypeInv == TypeOK /\ TriesLeft`: an attempt is left wherever a client tries to connect |
| | `SlotTheorem`, `SendTheorem` | `IInv == TypeInv /\ SlotIsLive /\ SendOnOpenSocket /\ NewIsNotInTable` |
| | `LockTheorem` | `LockInv`: the lock is with a sender, with `IInv` |
| | `OffTheorem` | none: a property of every step from a typed state |
| `HeartBeat_proofs` | `TypeCorrect` | `TypeOK` |
| | `HostKept` | `FreshInv`: while the clock was not set, the age of a host that is not late is not below 0 and bounded by its pause and the wait of the oldest heartbeat in the queue |
| | `LampTells` | `LampInv == FlagInv /\ SilenceInv`: flags and status go together; how long a link in the status has been silent, counted in checks still to come, and what its age tells of that (`AgeTells`), before and after the step of the clock |
| | `NothingStray` | `PortInv`: port, entry and lock belong together, but for the copy |
| `Whitelist_proofs` | `TypeCorrect` | `StoreType`, `WantInv` and the types of the warnings |
| | `ListKept`, `ListWhole`, `HandleGivenBack` | `SafeInv == WantInv /\ AloneInv /\ OpenInv /\ StageInv /\ KeptInv`: who may be at work together, and how far a caller that is alone has come |
| | `AlarmTheorem` | `AlarmInv`: the alarm is on when a scene is, and the last warning of a detector tells its state |
| `AlinkStream_proofs` | `TypeCorrect` | `TypeInv == TypeOK /\ PlaceInv /\ CellInv`: where the loop is, and that every cell is a byte of a message of the host or damaged |
| | `NothingHeldBack` | `NoneHeldBack` itself, with `TypeInv` |
| | `OrderTheorem` | `OrderInv`: what the loop has not looked at and what is on the link are one stream, in the order of sending and behind all that was handed over |
| | `CleanTheorem` | `CleanInv`: for some `f` the messages up to `f` were handed over and the stream is the others, whole and in a row (`Cuts` gives their places) |

Assumptions: finite sets of clients, disjoint names, positive sizes, images of
positive length, and `AcyclicAssumption`: no handler calls synchronously into a
thread that may be waiting for it, which holds of the four calls listed above. `HostKept`
assumes `BeatPeriod + MaxDelay <= Timeout`, in the code 5 s for
the pause of a host and the delay of HEARTBEAT together; of the step of the clock nothing is assumed. `RoundTheorem` assumes that the
operator does not idle HEALTH_DETECT, which then throws the message of its timer away.

The arguments, by module:

- *Message core.* An answer is put into a slot only by `Finish`, after its handler ran, and
  `Return` compares sequence numbers. A number enters a queue from its first send or its
  retry and leaves it for good. A response that is not matched is an older one, so a
  call before it was given up, and that happens after a reported failure only. A request that
  leaves the queue of a blocked caller's owner is handled or recorded as thrown away. If some call had
  nobody to go on behind it, one of least rank would have none, and the owner of its
  request, when it waits itself, has a lower rank: the only place where
  `AcyclicAssumption` is used.
- *Health detection.* An open round rests on the timer until its message is sent, then on the
  message; setting the timer in between is what `lost` records.
- *Upgrade.* The CRC and the offset change in the step that
  writes the file or not at all, and the write goes where the `lseek` of its fragment put the
  position, as long as no task moved it. A task that is not disturbed is alone with the position of
  the shared descriptor. When a write ends its copy, what is behind the header it has read is no
  entry, so that it gives up.
- *Direction finding.* Its steps send a frequency mode
  exactly when they enter or leave `"enter"`, and the queue of FREQUENCY is first in,
  first out. Warnings are sent when the table becomes empty or stops being so, and messages behind
  the last one are none. A table that is not empty has a loudest drone (by a
  smallest counterexample), so that the choice of one has a type.
- *Links.* A client's socket enters the table under the lock, with the entry cleared
  before it is closed, and a sender holds that lock from the test of an entry until its send
  returns. `NewIsNotInTable` is needed because the number of a new client may be one
  the table knew. The theorems hold with more clients than entries, and
  with clients that are lost from the list.
- *Supervision.* A check finds a host late only if its heartbeats
  were: those that wait are not older than `MaxDelay`, and the pause before them not longer
  than `BeatPeriod`. A step of the clock takes that away until the next heartbeat is
  taken. It happens once, and the silence of a link is then bounded as before: the first check after it
  either finds the link over or starts the bound anew, one time-out longer.
- *Whitelist.* A list that is written is whole because the rows of a transaction
  and those still to insert make up the wanted list at every statement, as long as the other caller
  is not at work. A warning changes one detector's entry, and the last one of each is never overtaken.
- *Framing.* Every step of the parser leaves the stream as it is, damages or leaves out cells of
  it, takes some off its front or adds a new message behind it, which keeps its order; the
  last byte of a message that is handed over is in it, so that what follows belongs
  to later messages. Without damage the places of the messages in the stream only move
  forward by the bytes taken off, and a whole message is never taken for a bad one.

Six theorems are the part of a liveness property that needs no fairness: `UnderWayTheorem` and
`GoesOnTheorem` of `CallReturns`, `RoundTheorem` of `OpenRoundEnds`, `LockTheorem`
(with `OffTheorem`) of `SendReturns` and `UnusableIsDropped`, `AlarmTheorem` of `AlarmIsRight`. Their
formulas stand beside their proofs.

## Only model-checked

The eight liveness properties (`CallReturns`, `OpenRoundEnds`, `RunEnds`, `OrientationEnds`,
`UnusableIsDropped`, `SendReturns`, `TypeCServed`, `AlarmIsRight`): liveness under fairness, and the
`ENABLED` it rests on, are outside what the prover does. Every type invariant, safety invariant and action
property that a passing run checks, and the refinement of `EapRpc`, is a theorem. The three properties that runs
find violated have none, but `MismatchTheorem` and `ErasedTheorem` say how far the damage of
two of them goes.

The theorems speak of the modules, with the abstractions named above; that a
definition says what its lines do is read, not proved.

## Not modelled

- Messages to another process, statistics and the message recorder of the core;
  creating and deleting threads; the version and time-out queries of the upgrade; the
  UDP link; the protocol of a remote controller (`remote_control_network_cbk_data` and its senders, named at `C2Link`).
- `alink_recv.c` and `alink_socket.c`: not reached, as `alink_socket_connect` is commented
  out (`c2_alink.c:47`).
- The tables of `WarningBase`, the contents of reports, answers and heartbeats.
- Signal processing, drivers and registers, formats, displays and logs: floating
  point, device access or output. Their results are free inputs of the models.
- Vendored and generated code (Open Drone ID, radiotap, LZMA, protobuf, FreeRTOS CLI).
- The components marked "planned" below.

These are most of the lines of the repository: headers of protocol buffers, SSE
emulation, turbo decoder, Wi-Fi tools, register tables of the AD9361, the sniffers' signal
processing. They hold no protocol between parts of the program and no state that two
handlers share, so that a model of them would be a transcription. The share of the lines that the
modules stand for is small for that reason; of the code that decides
what threads, links, hosts and stores do to each other most of the important parts are there.

`PROJECT.json` has a line for each component with its status and the reason.

## The plan

The order is by importance; the first seven rows exist.

| Module | Models | Composes with |
|---|---|---|
| `EapSyncCall`, `EapRpc` | message core, abstract calls | `EapSyncCall` implements `EapRpc` |
| `EapHealth` | rounds of health detection | |
| `FirmwareUpgrade` | upgrade | |
| `SpectrumOrient` | detection, direction finding, work mode | |
| `C2Link` | TCP links | |
| `HeartBeat`, `AlinkStream` | supervision of the hosts, Type-C, framing | the time-out is `TimeOut` of `C2Link`; the port is reopened under the parser |
| `Whitelist` | whitelist, its store and its alarms | the warnings of HEARTBEAT |
| `EapTimer` | the vector of timers during a sweep, with start, stop and creation | the timer of `EapHealth` |
| `RemoteTable` | threads and queues in shared memory, two processes | the missing part of `EapSyncCall` |
| `DataRecorder` | rotation of files after restart | |
| `Frequency`, `AirBorne` | detectors and their hops; gain and switch control | the free choices of `SpectrumOrient` |
| `PowerButton` | long press, release, shutdown | |

A new module gets one run on an instance small enough to show its invariants and its
liveness together. Theorems to come: what `RunEnds`, `OrientationEnds` and `TypeCServed` need besides
fairness, in the way of `GoesOnTheorem`; an abstract link table that `C2Link` implements; the types and the
safety properties of each new module.

## How to run it

    tlc -workers 2 -config C2Link.cfg MCC2Link.tla
    tlapm C2Link_proofs.tla

with the module and configuration of any run in `PROJECT.json`.
