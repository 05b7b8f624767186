----------------------------- MODULE HeartBeat -----------------------------
(***************************************************************************)
(* The supervision of the hosts (eap/heartbeat/HeartBeatCmdproc.cpp): the  *)
(* HEARTBEAT thread takes the time of every heartbeat of a host, TIMER_2   *)
(* compares it with EAP_C2_HEARTBEAT_TIMEOUT and turns the link of a       *)
(* silent host off, the lamp of the link and, for USB Type-C, the state of *)
(* the port (tracer/hal/eth_link/usb_typec) follow.                        *)
(*                                                                         *)
(* Time is discrete: Tick lets one unit pass everywhere.  The times of     *)
(* the code are kept as ages (now - time), cut off where no comparison     *)
(* tells them apart any more.  A message waits in the queue of HEARTBEAT   *)
(* as the age of its arrival.                                              *)
(*                                                                         *)
(* The clock is system_clock (eap_get_cur_time_ms).  Between two settings  *)
(* it runs evenly, as Tick does; it is set by `date -s` once in the life   *)
(* of the program, to the time of the host (SetClock).  Then an age may    *)
(* jump up or down by up to MaxStep; one that falls below 0 is a time in   *)
(* the future, which the unsigned difference of the code takes for a very  *)
(* old one.  The queue of HEARTBEAT and the timers do not use that clock:  *)
(* TimerThread counts its own periods.  A handler reads the clock once in  *)
(* the model: a setting between two readings of one handler counts as      *)
(* before it or after it.                                                  *)
(*                                                                         *)
(* Left out: with NET_PROTO_TYPE_TRACER_UAVCONTROLLER a time-out of TCP    *)
(* ends _C2HeartBeatTimeOutProc before the bit of Type-C is looked at.     *)
(*                                                                         *)
(* Bounds: MaxDelay, the longest time a message waits in the queue         *)
(* (HEARTBEAT keeps up: Tick is held back); MaxLinks; one heartbeat of a   *)
(* host per unit; MaxStep, the longest step of the clock.  No bound cuts a *)
(* behaviour short: the model runs for ever.                               *)
(***************************************************************************)
EXTENDS Integers, FiniteSets

CONSTANTS MaxLinks,      \* the links that have a host in one behaviour
          Timeout,       \* EAP_C2_HEARTBEAT_TIMEOUT
          CheckTimer,    \* EAP_C2_HEARTBEAT_CHECK_TIMER
          BeatPeriod,    \* the longest pause between heartbeats of a link with a host
          MaxDelay,      \* the longest time a message waits for HEARTBEAT
          MaxStep        \* how far the clock may be set back or forward

Link == {"TCP", "TYPEC"}    \* link_c2_t

ASSUME HeartBeatAssumption ==
    /\ {MaxLinks, Timeout, CheckTimer, BeatPeriod} \subseteq Nat \ {0}
    /\ {MaxDelay, MaxStep} \subseteq Nat

VARIABLES
    on,        \* the links with a host, which beats when it likes (never changes)
    beats,     \* queue: the UPDATE_C2_HEARTBEAT_TIME of a link, as the set of their ages
    checks,    \* queue: the messages of TIMER_2, as the set of their ages
    phase,     \* the time since TIMER_2 expired
    age,       \* now - m_c2_heartbeat_tick[l], up to Timeout + 1, below 0 in the future
    flag,      \* m_c2_heartbeat_flag
    sync,      \* hearbeat_sync_typec_flag
    status,    \* _c2HeartBeatStatus: the links with a host
    lamp,      \* LED_STATUS_LINK
    connect,   \* _typeC.bFlagConnect
    rev,       \* _typeC.bFlagRevHeartBeat
    sock,      \* _typeC.iSocket
    port,      \* psClient->iSocket of Type-C, NoFd when it is closed
    upc,       \* where the thread usb_typec is, "none" when there is no such thread
    uncopied,  \* the fields _typeC = tcp has still to copy
    lock,      \* _tcpMtx: the thread that holds it, or "free"
    spc,       \* where a sending thread is
    asked,     \* the time of the host was asked for (time of _OnUpdateC2HeartBeatTime)
    dated,     \* the clock was set (time of Alink_GetC2TimeInfo_Func)
    quiet,     \* history: the time since a heartbeat came in over a link
    late,      \* history: there was too long a pause since the last heartbeat taken
    silence,   \* history: the time since HEARTBEAT took a heartbeat of a link in status
    stepped    \* history: the clock was set since HEARTBEAT took a heartbeat of a link

queue == <<on, beats, checks, phase>>
monitor == <<age, flag, sync, status, lamp>>
entry == <<connect, rev, sock>>
usb == <<port, upc, uncopied>>
sending == <<lock, spc>>
clock == <<asked, dated>>
history == <<quiet, late, silence, stepped>>
vars == <<queue, monitor, entry, usb, sending, clock, history>>

NoFd == 0
Fd == {1, 2}                        \* numbers the system gives to an opened port
Sender == {"HEARTBEAT", "OTHER"}    \* threads in _SendMsgToLinkChannel
Field == {"connect", "rev", "sock"} \* the fields of tcp_client_t that are used

Capped(n, max) == IF n > max THEN max ELSE n
Older(waits) == {w + 1 : w \in waits}
Oldest(w, waits) == w \in waits /\ \A v \in waits : v <= w

(* The longest time from one check to the next.                            *)
Gap == CheckTimer + MaxDelay

(* The longest silence after which a link still counts as connected: the   *)
(* time-out starts at the first check after the heartbeat for Type-C, and  *)
(* the check that finds it over comes a period and a delay later.  When    *)
(* the clock was set, the time-out may start anew after all that.          *)
MaxSilence == 2 * Timeout + 3 * Gap
LampBound(l) == IF stepped[l] THEN MaxSilence ELSE Timeout + 2 * Gap

Init ==
    /\ on \in {ls \in SUBSET Link : Cardinality(ls) <= MaxLinks}
    /\ beats = [l \in Link |-> {}]
    /\ checks = {}
    /\ phase = 0
    /\ age = [l \in Link |-> Timeout + 1]
    /\ flag = [l \in Link |-> l = "TYPEC"]
    /\ sync = FALSE
    /\ status = {}
    /\ lamp = FALSE
    /\ \/ upc = "select" /\ port = 1 /\ sock = 1 /\ connect = TRUE
       \/ upc = "none" /\ port = NoFd /\ sock = NoFd /\ connect \in BOOLEAN
    /\ rev = FALSE
    /\ uncopied = {}
    /\ lock = "free"
    /\ spc = [s \in Sender |-> "idle"]
    /\ quiet = [l \in Link |-> BeatPeriod + 1]
    /\ late = [l \in Link |-> TRUE]
    /\ silence = [l \in Link |-> MaxSilence + 1]
    /\ stepped = [l \in Link |-> FALSE]
    /\ asked = FALSE /\ dated = FALSE

---------------------------------------------------------------------------
(* Time and the hosts.                                                     *)

Waiting == checks \cup UNION {beats[l] : l \in Link}

(* One unit of time.  TIMER_2 expires once in CheckTimer units.            *)
Tick ==
    /\ \A w \in Waiting : w < MaxDelay
    /\ phase' = IF phase + 1 = CheckTimer THEN 0 ELSE phase + 1
    /\ checks' = Older(checks) \cup (IF phase' = 0 THEN {0} ELSE {})
    /\ beats' = [l \in Link |-> Older(beats[l])]
    /\ age' = [l \in Link |-> Capped(age[l] + 1, Timeout + 1)]
    /\ quiet' = [l \in Link |-> Capped(quiet[l] + 1, BeatPeriod + 1)]
    /\ late' = [l \in Link |-> late[l] \/ quiet[l] >= BeatPeriod]
    /\ silence' = [l \in Link |-> Capped(silence[l] + 1, MaxSilence + 1)]
    /\ UNCHANGED <<on, flag, sync, status, lamp, entry, usb, sending, clock, stepped>>

(* A heartbeat of a host comes in: the receiving thread posts              *)
(* UPDATE_C2_HEARTBEAT_TIME.  Over Type-C it takes an open port.           *)
Beat(l) ==
    /\ l \in on /\ quiet[l] > 0
    /\ l = "TYPEC" => port # NoFd
    /\ beats' = [beats EXCEPT ![l] = @ \cup {0}]
    /\ quiet' = [quiet EXCEPT ![l] = 0]
    /\ UNCHANGED <<on, checks, phase, monitor, entry, usb, sending, clock>>
    /\ UNCHANGED <<late, silence, stepped>>

\* Mutant: every message with the time of a host sets the clock.
SetClockAgain ==
    /\ asked
    /\ dated' = TRUE
    /\ \E step \in -MaxStep .. MaxStep, over \in [Link -> 0 .. MaxStep] :
          /\ \A l \in Link : over[l] # 0 => age[l] > Timeout
          /\ age' = [l \in Link |-> IF flag[l] THEN Capped(age[l] + over[l] + step, Timeout + 1)
                                             ELSE age[l]]
    /\ stepped' = [l \in Link |-> TRUE]
    /\ UNCHANGED <<queue, flag, sync, status, lamp, entry, usb, sending, asked>>
    /\ UNCHANGED <<quiet, late, silence>>

(* Alink_GetC2TimeInfo_Func, on the thread that received it: the first     *)
(* answer of a host with its time sets the clock.  An age that was cut off *)
(* may be any higher one (over); one that nobody compares any more stays.  *)
SetClock ==
    /\ asked /\ ~dated
    /\ dated' = TRUE
    /\ \E step \in -MaxStep .. MaxStep, over \in [Link -> 0 .. MaxStep] :
          /\ \A l \in Link : over[l] # 0 => age[l] > Timeout
          /\ age' = [l \in Link |-> IF flag[l] THEN Capped(age[l] + over[l] + step, Timeout + 1)
                                             ELSE age[l]]
    /\ stepped' = [l \in Link |-> TRUE]
    /\ UNCHANGED <<queue, flag, sync, status, lamp, entry, usb, sending, asked>>
    /\ UNCHANGED <<quiet, late, silence>>

---------------------------------------------------------------------------
(* HEARTBEAT.  Messages of timers have the higher priority.                *)

Goto(s, l) == spc' = [spc EXCEPT ![s] = l]
Unlock(s) == lock' = "free" /\ Goto(s, "idle")

\* Mutant: the flag of the HAL is set by the first heartbeat only.
UpdateHeartBeatTimeOnce(l) ==
    /\ spc["HEARTBEAT"] = "idle"
    /\ checks = {}
    /\ \E w \in beats[l] :
          /\ Oldest(w, UNION {beats[k] : k \in Link})
          /\ beats' = [beats EXCEPT ![l] = @ \ {w}]
    /\ age' = [age EXCEPT ![l] = 0]
    /\ flag' = [flag EXCEPT ![l] = TRUE]
    /\ status' = status \cup {l}
    /\ rev' = (rev \/ (l = "TYPEC" /\ l \notin status))
    /\ late' = [late EXCEPT ![l] = quiet[l] > BeatPeriod]
    /\ silence' = [silence EXCEPT ![l] = 0]
    /\ stepped' = [stepped EXCEPT ![l] = FALSE]
    /\ asked' = TRUE
    /\ IF asked THEN UNCHANGED spc ELSE Goto("HEARTBEAT", "ask")
    /\ UNCHANGED <<on, checks, phase, sync, lamp, connect, sock, usb, lock, dated, quiet>>

(* HeartBeatCmdproc::_OnUpdateC2HeartBeatTime: the time taken is the one   *)
(* of the handling.  The first heartbeat makes HEARTBEAT ask for the time  *)
(* of the host.                                                            *)
_OnUpdateC2HeartBeatTime(l) ==
    /\ spc["HEARTBEAT"] = "idle"
    /\ checks = {}
    /\ \E w \in beats[l] :
          /\ Oldest(w, UNION {beats[k] : k \in Link})
          /\ beats' = [beats EXCEPT ![l] = @ \ {w}]
    /\ age' = [age EXCEPT ![l] = 0]
    /\ flag' = [flag EXCEPT ![l] = TRUE]
    /\ status' = status \cup {l}
    /\ rev' = (rev \/ l = "TYPEC")
    /\ late' = [late EXCEPT ![l] = quiet[l] > BeatPeriod]
    /\ silence' = [silence EXCEPT ![l] = 0]
    /\ stepped' = [stepped EXCEPT ![l] = FALSE]
    /\ asked' = TRUE
    /\ IF asked THEN UNCHANGED spc ELSE Goto("HEARTBEAT", "ask")
    /\ UNCHANGED <<on, checks, phase, sync, lamp, connect, sock, usb, lock, dated, quiet>>

\* Mutant: every check sets it.
SyncTypeCAlways == flag["TYPEC"]

(* The first check after a time-out of Type-C sets its time to now.        *)
SyncTypeC == flag["TYPEC"] /\ ~sync

(* The age _TCPC2TimeOutCheck compares.                                    *)
CheckedAge(l) == IF l = "TYPEC" /\ SyncTypeC THEN 0 ELSE age[l]

\* Mutant: a link is over a unit early.
TimedOutEarly(l) == flag[l] /\ (CheckedAge(l) >= Timeout \/ CheckedAge(l) < 0)

(* The difference is unsigned: a time in the future is over, too.          *)
TimedOut(l) == flag[l] /\ (CheckedAge(l) > Timeout \/ CheckedAge(l) < 0)

(* HeartBeatCmdproc::_OnTimer, TIMER_2, with _TCPC2TimeOutCheck,           *)
(* _SetTcpState and the lamp.  The clients of TCP are those of C2Link.     *)
CheckTimeOut ==
    /\ spc["HEARTBEAT"] = "idle"
    /\ \E w \in checks : Oldest(w, checks) /\ checks' = checks \ {w}
    /\ age' = [l \in Link |-> CheckedAge(l)]
    /\ flag' = [flag EXCEPT !["TCP"] = @ /\ ~TimedOut("TCP")]
    /\ sync' = ((sync \/ flag["TYPEC"]) /\ ~TimedOut("TYPEC"))
    /\ status' = {l \in status : ~TimedOut(l)}
    /\ lamp' = (status' # {})
    /\ connect' = (connect /\ ~TimedOut("TYPEC"))
    /\ rev' = (rev /\ ~TimedOut("TYPEC"))
    /\ silence' = [l \in Link |-> IF l \in status' THEN silence[l] ELSE MaxSilence + 1]
    /\ UNCHANGED <<on, beats, phase, sock, usb, sending, clock, quiet, late, stepped>>

---------------------------------------------------------------------------
(* Sending over Type-C: TracerCommonHal::_SendMsgToLinkChannel, under      *)
(* _tcpMtx.  HEARTBEAT sends heartbeats (TIMER_1), others send reports.    *)

(* The first test: every message goes to a host that was heard.            *)
SendReport(s) ==
    /\ lock = "free" /\ spc[s] = "idle"
    /\ rev /\ connect /\ sock # NoFd
    /\ lock' = s
    /\ Goto(s, "write")
    /\ UNCHANGED <<queue, monitor, entry, usb, clock, history>>

(* The second: a heartbeat goes out before that, too, and again when the   *)
(* flag has just been taken back.  usb_typec_client_send looks at          *)
(* bFlagConnect.                                                           *)
SendHeartBeat ==
    /\ \/ lock = "free" /\ spc["HEARTBEAT"] = "idle" /\ ~rev /\ connect
          /\ lock' = "HEARTBEAT" /\ Goto("HEARTBEAT", "again")
       \/ /\ spc["HEARTBEAT"] = "test"
          /\ IF ~rev /\ connect THEN Goto("HEARTBEAT", "again") /\ UNCHANGED lock
                               ELSE Unlock("HEARTBEAT")
    /\ UNCHANGED <<queue, monitor, entry, usb, clock, history>>

(* _RequestC2TimeInfo: like a report, and the last write of its send.      *)
SendRequest ==
    /\ spc["HEARTBEAT"] = "ask" /\ lock = "free"
    /\ IF rev /\ connect /\ sock # NoFd
          THEN lock' = "HEARTBEAT" /\ Goto("HEARTBEAT", "again")
          ELSE Unlock("HEARTBEAT")
    /\ UNCHANGED <<queue, monitor, entry, usb, clock, history>>

(* usb_typec_write_data, to the descriptor of the table.                   *)
SendWrite(s) ==
    /\ \/ /\ spc[s] = "write"
          /\ IF s = "HEARTBEAT" THEN Goto(s, "test") /\ UNCHANGED lock ELSE Unlock(s)
       \/ spc[s] = "again" /\ Unlock(s)
    /\ UNCHANGED <<queue, monitor, entry, usb, clock, history>>

---------------------------------------------------------------------------
(* The thread usb_typec: usb_typec_readdata_task.                          *)

\* Mutant: the link is looked at without _tcpMtx.
PortCloseUnlocked ==
    /\ upc = "select" /\ ~connect
    /\ port' = NoFd
    /\ upc' = "open"
    /\ UNCHANGED <<queue, monitor, entry, uncopied, sending, clock, history>>

(* bFlagClose = !TcpOk, which takes _tcpMtx; the port is closed.           *)
PortClose ==
    /\ upc = "select" /\ lock = "free" /\ ~connect
    /\ port' = NoFd
    /\ upc' = "open"
    /\ UNCHANGED <<queue, monitor, entry, uncopied, sending, clock, history>>

(* A second later the port is opened again, under the number of before or  *)
(* another one.  An attempt that fails is repeated.                        *)
PortOpen ==
    /\ upc = "open"
    /\ port' \in Fd
    /\ upc' = "copy"
    /\ uncopied' = Field
    /\ UNCHANGED <<queue, monitor, entry, sending, clock, history>>

(* TypeCConnect: _typeC = tcp without _tcpMtx.  The fields are written one *)
(* by one in an order the compiler chooses.                                *)
TypeCConnectCopy(f) ==
    /\ f \in uncopied
    /\ uncopied' = uncopied \ {f}
    /\ CASE f = "connect" -> connect' = TRUE /\ UNCHANGED <<rev, sock>>
         [] f = "rev" -> rev' = FALSE /\ UNCHANGED <<connect, sock>>
         [] f = "sock" -> sock' = port /\ UNCHANGED <<connect, rev>>
    /\ UNCHANGED <<queue, monitor, port, upc, sending, clock, history>>

TypeCConnect ==
    /\ upc = "copy" /\ uncopied = {}
    /\ connect' = TRUE
    /\ upc' = "select"
    /\ UNCHANGED <<queue, monitor, rev, sock, port, uncopied, sending, clock, history>>

---------------------------------------------------------------------------
Heartbeat == CheckTimeOut \/ \E l \in Link : _OnUpdateC2HeartBeatTime(l)

SendMsgToLinkChannel(s) ==
    SendReport(s) \/ SendWrite(s) \/ (s = "HEARTBEAT" /\ (SendHeartBeat \/ SendRequest))

UsbTypecTask ==
    \/ PortClose
    \/ PortOpen
    \/ \E f \in Field : TypeCConnectCopy(f)
    \/ TypeCConnect

Next ==
    \/ Tick
    \/ \E l \in Link : Beat(l)
    \/ SetClock
    \/ Heartbeat
    \/ \E s \in Sender : SendMsgToLinkChannel(s)
    \/ UsbTypecTask

Spec == Init /\ [][Next]_vars

(* Time passes, HEARTBEAT runs (ThreadBase::Run never ends), a thread that *)
(* holds _tcpMtx goes on (the write does not block, O_NONBLOCK), and the   *)
(* thread usb_typec looks at the link after every select of two seconds;   *)
(* HEARTBEAT and usb_typec, when they wait for _tcpMtx, get it sooner or   *)
(* later; the port can be opened again.                                    *)
FairSpec ==
    /\ Spec
    /\ WF_vars(Tick) /\ WF_vars(Heartbeat)
    /\ \A s \in Sender : WF_vars(lock = s /\ SendMsgToLinkChannel(s))
    /\ SF_vars(SendRequest) /\ SF_vars(PortClose) /\ WF_vars(UsbTypecTask)

---------------------------------------------------------------------------
(* Types.  The clock is set once, so that no time lies further in the      *)
(* future than that step, and none before it (Alink_GetC2TimeInfo_Func).   *)
TypeOK ==
    /\ on \in SUBSET Link
    /\ beats \in [Link -> SUBSET (0 .. MaxDelay)]
    /\ checks \in SUBSET (0 .. MaxDelay)
    /\ phase \in 0 .. CheckTimer - 1
    /\ age \in [Link -> -MaxStep .. Timeout + 1]
    /\ flag \in [Link -> BOOLEAN]
    /\ sync \in BOOLEAN
    /\ status \in SUBSET Link
    /\ lamp \in BOOLEAN
    /\ connect \in BOOLEAN
    /\ rev \in BOOLEAN
    /\ port \in Fd \cup {NoFd}
    /\ sock \in Fd \cup {NoFd}
    /\ upc \in {"select", "open", "copy", "none"}
    /\ uncopied \in SUBSET Field
    /\ lock \in Sender \cup {"free"}
    /\ spc \in [Sender -> {"idle", "ask", "write", "test", "again"}]
    /\ quiet \in [Link -> 0 .. BeatPeriod + 1]
    /\ late \in [Link -> BOOLEAN]
    /\ silence \in [Link -> 0 .. MaxSilence + 1]
    /\ stepped \in [Link -> BOOLEAN]
    /\ asked \in BOOLEAN /\ dated \in BOOLEAN
    /\ dated \/ \A l \in Link : age[l] >= 0 /\ ~stepped[l]

(* A host that keeps beating is never timed out, however long HEARTBEAT is *)
(* busy within its bound, and whichever of the checks and the heartbeats   *)
(* is taken first: a step that turns a link off, or takes it from the      *)
(* status, finds every host of the link late (_TCPC2TimeOutCheck), or the  *)
(* clock was set since its last heartbeat was taken: then the code cannot  *)
(* tell, and such a host is turned off until it is heard again.  With      *)
(* BeatPeriod + MaxDelay > Timeout this fails.                             *)
Dropped(l) == (l \in status /\ l \notin status') \/ (l = "TYPEC" /\ connect /\ ~connect')

BeatingHostKept ==
    [][\A l \in Link : Dropped(l) => late[l] \/ stepped[l]]_vars

(* What the host sees is true.  While the lamp is lit some link was heard  *)
(* within LampBound, although the time of Type-C starts anew at the first  *)
(* check; and reports go out over Type-C (bFlagRevHeartBeat) only to a     *)
(* host that was heard lately, whatever the order of time-outs, late       *)
(* heartbeats, the opening of the port and a step of the clock, which puts *)
(* the end off by one more time-out and Gap at most, however far it goes.  *)
HeardLately ==
    /\ lamp => \E l \in Link : silence[l] <= LampBound(l)
    /\ rev => silence["TYPEC"] <= LampBound("TYPEC")

(* A message is written to the port that is open, never to a descriptor    *)
(* that was closed and may belong to another file by now: bFlagConnect and *)
(* _tcpMtx see to it, but for the copy of _typeC, made without _tcpMtx.    *)
NoStrayWrite ==
    \A s \in Sender : spc[s] \in {"write", "again"} => sock = port \/ upc = "copy"

(* A Type-C link that was turned off is usable again, whatever HEARTBEAT   *)
(* does meanwhile, once the port can be opened; and a Type-C host that     *)
(* beats for ever is sent its reports again and again.                     *)
TypeCServed ==
    /\ (upc # "none" /\ ~connect) ~> connect
    /\ []<>(silence["TYPEC"] = 0) /\ <>[]~late["TYPEC"] => []<>(rev /\ connect)
=============================================================================
