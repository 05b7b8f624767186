-------------------------- MODULE HeartBeat_proofs --------------------------
(***************************************************************************)
(* The supervision of the hosts for any periods, any time-out and any      *)
(* delay of HEARTBEAT, with hosts on both links at once: the types, who is *)
(* turned off, what the lamp and the reports stand for, and what a message *)
(* over Type-C is written to.                                              *)
(***************************************************************************)
EXTENDS HeartBeat, TLAPS

\* x is at most bound plus the time since the last check: since TIMER_2
\* expired when no check waits, a period more than a waiting check is old
\* otherwise.
SinceCheck(x, bound) ==
    \/ checks = {} /\ x <= bound + phase
    \/ \E w \in checks : x <= bound + CheckTimer + w

\* While no pause was too long and the clock was not set, the time taken of a
\* link is at most as old as the last heartbeat, or as the one that waits the
\* longest and the pause before it, and not in the future.
Fresh(l) ==
    ~late[l] /\ ~stepped[l] =>
        /\ quiet[l] <= BeatPeriod
        /\ age[l] >= 0
        /\ beats[l] = {} => age[l] <= quiet[l]
        /\ beats[l] # {} => \E b \in beats[l] : age[l] <= BeatPeriod + b

\* Flags and the status of a link go together.
FlagInv ==
    /\ flag["TYPEC"] /\ ("TCP" \in status => flag["TCP"])
    /\ lamp => status # {}
    /\ rev => "TYPEC" \in status

\* How much longer a link may be silent than its age says.
Slack(l) == IF stepped[l] THEN Timeout + Gap + Gap ELSE Gap

\* The silence of a link is bounded by its age, unless the next check finds it
\* over, or the clock was set since the last one.
AgeTells(l) ==
    \/ silence[l] <= age[l] + Slack(l)
    \/ age[l] > Timeout
    \/ stepped[l] /\ SinceCheck(silence[l], Timeout + Gap)

\* How long a link with a host has been silent, at most.
SilenceInv ==
    /\ "TCP" \in status => AgeTells("TCP")
    /\ "TYPEC" \in status /\ sync => AgeTells("TYPEC")
    /\ "TYPEC" \in status /\ ~sync => SinceCheck(silence["TYPEC"], 0)
    /\ \A l \in status : SinceCheck(silence[l], Timeout + Slack(l))

\* Where the port, the entry and _tcpMtx belong together.
PortInv ==
    /\ upc \in {"select", "none"} => sock = port
    /\ upc = "copy" /\ "sock" \notin uncopied => sock = port
    /\ upc = "open" => ~connect /\ lock = "free"
    /\ uncopied # {} => upc = "copy"
    /\ \A s \in Sender : spc[s] \notin {"idle", "ask"} => lock = s

FreshInv == \A l \in Link : Fresh(l)
LampInv == FlagInv /\ SilenceInv

-----------------------------------------------------------------------------
(* Types.                                                                  *)

LEMMA Numbers ==
  /\ MaxLinks \in Nat /\ Timeout \in Nat /\ CheckTimer \in Nat \ {0}
  /\ BeatPeriod \in Nat /\ MaxDelay \in Nat /\ MaxStep \in Nat
  /\ MaxSilence \in Nat /\ Gap \in Nat
  /\ MaxSilence = Timeout + Timeout + Gap + Gap + Gap
BY HeartBeatAssumption DEF MaxSilence, Gap

LEMMA CappedBound ==
  ASSUME NEW n \in Nat, NEW max \in Nat
  PROVE  Capped(n, max) \in 0 .. max /\ Capped(n, max) <= n
BY DEF Capped

\* A time in the future stays one, or is reached.
LEMMA CappedFuture ==
  ASSUME NEW min \in Nat, NEW max \in Nat, NEW n \in Int, n >= -min
  PROVE  /\ Capped(n, max) \in -min .. max /\ Capped(n, max) <= n
         /\ n >= 0 => Capped(n, max) >= 0
BY DEF Capped

LEMMA TypeInit == Init => TypeOK
<1> SUFFICES ASSUME Init PROVE TypeOK
  OBVIOUS
<1>1. on \in SUBSET Link
  BY DEF Init
<1>2. 0 \in 0 .. CheckTimer - 1 /\ Timeout + 1 \in 0 .. Timeout + 1
      /\ BeatPeriod + 1 \in 0 .. BeatPeriod + 1 /\ MaxSilence + 1 \in 0 .. MaxSilence + 1
      /\ Timeout + 1 \in -MaxStep .. Timeout + 1 /\ Timeout + 1 >= 0
  BY Numbers
<1>3. /\ beats \in [Link -> SUBSET (0 .. MaxDelay)] /\ checks \in SUBSET (0 .. MaxDelay)
      /\ phase \in 0 .. CheckTimer - 1
  BY <1>2 DEF Init
<1>4. /\ age \in [Link -> -MaxStep .. Timeout + 1] /\ flag \in [Link -> BOOLEAN] /\ sync \in BOOLEAN
      /\ status \in SUBSET Link /\ lamp \in BOOLEAN
  BY <1>2 DEF Init
<1>5. /\ connect \in BOOLEAN /\ rev \in BOOLEAN /\ port \in Fd \cup {NoFd} /\ sock \in Fd \cup {NoFd}
      /\ upc \in {"select", "open", "copy", "none"} /\ uncopied \in SUBSET Field
  BY DEF Init, Fd, NoFd
<1>6. lock \in Sender \cup {"free"} /\ spc \in [Sender -> {"idle", "ask", "write", "test", "again"}]
  BY DEF Init
<1>7. /\ quiet \in [Link -> 0 .. BeatPeriod + 1] /\ late \in [Link -> BOOLEAN]
      /\ silence \in [Link -> 0 .. MaxSilence + 1]
      /\ stepped \in [Link -> BOOLEAN] /\ asked \in BOOLEAN /\ dated \in BOOLEAN
  BY <1>2 DEF Init
<1>8. \A l \in Link : age[l] >= 0 /\ ~stepped[l]
  BY <1>2 DEF Init
<1> QED BY <1>1, <1>3, <1>4, <1>5, <1>6, <1>7, <1>8 DEF TypeOK

\* The messages that wait grow older by one and stay within the bound.
LEMMA OlderType ==
  ASSUME NEW S \in SUBSET (0 .. MaxDelay), \A w \in S : w < MaxDelay
  PROVE  Older(S) \in SUBSET (0 .. MaxDelay)
BY Numbers DEF Older

LEMMA TickType == ASSUME TypeOK, Tick PROVE TypeOK'
<1>1. checks' \in SUBSET (0 .. MaxDelay)
  <2>1. \A w \in checks : w < MaxDelay
    BY DEF Tick, Waiting
  <2>2. Older(checks) \in SUBSET (0 .. MaxDelay)
    BY <2>1, OlderType DEF TypeOK
  <2> QED BY <2>2, Numbers DEF Tick
<1>2. beats' \in [Link -> SUBSET (0 .. MaxDelay)]
  <2>1. ASSUME NEW l \in Link PROVE Older(beats[l]) \in SUBSET (0 .. MaxDelay)
    <3>1. \A w \in beats[l] : w < MaxDelay
      BY DEF Tick, Waiting
    <3>2. beats[l] \in SUBSET (0 .. MaxDelay)
      BY DEF TypeOK
    <3> QED BY <3>1, <3>2, OlderType
  <2> QED BY <2>1 DEF Tick
<1>3. phase' \in 0 .. CheckTimer - 1
  BY Numbers DEF Tick, TypeOK
<1>4. /\ age' \in [Link -> -MaxStep .. Timeout + 1]
      /\ \A l \in Link : age[l] >= 0 => age'[l] >= 0
  <2>1. \A l \in Link : age[l] + 1 \in Int /\ age[l] + 1 >= -MaxStep
    BY Numbers DEF TypeOK
  <2>2. \A l \in Link : Capped(age[l] + 1, Timeout + 1) \in -MaxStep .. Timeout + 1
    BY <2>1, Numbers, CappedFuture
  <2>3. \A l \in Link : age[l] >= 0 => Capped(age[l] + 1, Timeout + 1) >= 0
    BY <2>1, Numbers, CappedFuture DEF TypeOK
  <2> QED BY <2>2, <2>3 DEF Tick
<1>5. quiet' \in [Link -> 0 .. BeatPeriod + 1]
  <2>1. \A l \in Link : quiet[l] + 1 \in Nat
    BY DEF TypeOK
  <2>2. \A l \in Link : Capped(quiet[l] + 1, BeatPeriod + 1) \in 0 .. BeatPeriod + 1
    BY <2>1, Numbers, CappedBound
  <2> QED BY <2>2 DEF Tick
<1>6. silence' \in [Link -> 0 .. MaxSilence + 1]
  <2>1. \A l \in Link : silence[l] + 1 \in Nat
    BY DEF TypeOK
  <2>2. \A l \in Link : Capped(silence[l] + 1, MaxSilence + 1) \in 0 .. MaxSilence + 1
    BY <2>1, Numbers, CappedBound
  <2> QED BY <2>2 DEF Tick
<1>7. late' \in [Link -> BOOLEAN]
  BY DEF Tick, TypeOK
<1> QED BY <1>1, <1>2, <1>3, <1>4, <1>5, <1>6, <1>7
        DEF Tick, TypeOK, monitor, entry, usb, sending, clock

LEMMA BeatType == ASSUME TypeOK, NEW l \in Link, Beat(l) PROVE TypeOK'
<1>1. beats' \in [Link -> SUBSET (0 .. MaxDelay)]
  BY Numbers DEF Beat, TypeOK
<1>2. quiet' \in [Link -> 0 .. BeatPeriod + 1]
  BY Numbers DEF Beat, TypeOK
<1> QED BY <1>1, <1>2 DEF Beat, TypeOK, monitor, entry, usb, sending, clock

LEMMA SetClockType == ASSUME TypeOK, SetClock PROVE TypeOK'
<1>1. age' \in [Link -> -MaxStep .. Timeout + 1]
  <2>1. PICK step \in -MaxStep .. MaxStep, over \in [Link -> 0 .. MaxStep] :
            age' = [l \in Link |-> IF flag[l] THEN Capped(age[l] + over[l] + step, Timeout + 1)
                                              ELSE age[l]]
    BY DEF SetClock
  <2>2. \A l \in Link : age[l] \in -MaxStep .. Timeout + 1 /\ age[l] >= 0
    BY DEF TypeOK, SetClock
  <2>3. ASSUME NEW l \in Link
        PROVE  Capped(age[l] + over[l] + step, Timeout + 1) \in -MaxStep .. Timeout + 1
    <3>1. PICK n \in Int : n = age[l] + over[l] + step /\ n >= -MaxStep
      BY <2>2, Numbers
    <3> QED BY <3>1, Numbers, CappedFuture
  <2> QED BY <2>1, <2>2, <2>3
<1>2. stepped' \in [Link -> BOOLEAN] /\ dated'
  BY DEF SetClock
<1>3. UNCHANGED <<queue, flag, sync, status, lamp, entry, usb, sending, asked, quiet, late, silence>>
  BY DEF SetClock
<1> QED BY <1>1, <1>2, <1>3 DEF TypeOK, queue, entry, usb, sending

LEMMA UpdateType ==
  ASSUME TypeOK, NEW l \in Link, _OnUpdateC2HeartBeatTime(l)
  PROVE  TypeOK'
<1>1. beats' \in [Link -> SUBSET (0 .. MaxDelay)]
  BY DEF _OnUpdateC2HeartBeatTime, TypeOK
<1>2. age' \in [Link -> -MaxStep .. Timeout + 1] /\ silence' \in [Link -> 0 .. MaxSilence + 1]
  BY Numbers DEF _OnUpdateC2HeartBeatTime, TypeOK
<1>3. /\ flag' \in [Link -> BOOLEAN] /\ late' \in [Link -> BOOLEAN]
      /\ status' \in SUBSET Link /\ stepped' \in [Link -> BOOLEAN]
  BY DEF _OnUpdateC2HeartBeatTime, TypeOK
<1>4. rev' \in BOOLEAN
  BY DEF _OnUpdateC2HeartBeatTime, TypeOK
<1>5. spc' \in [Sender -> {"idle", "ask", "write", "test", "again"}]
  BY DEF _OnUpdateC2HeartBeatTime, TypeOK, Goto
<1>6. dated \/ \A k \in Link : age'[k] >= 0 /\ ~stepped'[k]
  BY DEF _OnUpdateC2HeartBeatTime, TypeOK
<1> QED BY <1>1, <1>2, <1>3, <1>4, <1>5, <1>6 DEF _OnUpdateC2HeartBeatTime, TypeOK, usb

LEMMA CheckedAgeType ==
  ASSUME TypeOK, NEW l \in Link
  PROVE  /\ CheckedAge(l) \in -MaxStep .. Timeout + 1
         /\ age[l] >= 0 => CheckedAge(l) >= 0 /\ CheckedAge(l) <= age[l]
BY Numbers DEF TypeOK, CheckedAge

LEMMA CheckType == ASSUME TypeOK, CheckTimeOut PROVE TypeOK'
<1>1. checks' \in SUBSET (0 .. MaxDelay)
  BY DEF CheckTimeOut, TypeOK
<1>2. age' \in [Link -> -MaxStep .. Timeout + 1]
  BY CheckedAgeType DEF CheckTimeOut
<1>3. flag' \in [Link -> BOOLEAN]
  BY DEF CheckTimeOut, TypeOK
<1>4. sync' \in BOOLEAN /\ lamp' \in BOOLEAN /\ connect' \in BOOLEAN /\ rev' \in BOOLEAN
  BY DEF CheckTimeOut, TypeOK
<1>5. status' \in SUBSET Link
  BY DEF CheckTimeOut, TypeOK
<1>6. silence' \in [Link -> 0 .. MaxSilence + 1]
  BY Numbers DEF CheckTimeOut, TypeOK
<1>7. dated \/ \A l \in Link : age'[l] >= 0 /\ ~stepped[l]
  BY CheckedAgeType DEF CheckTimeOut, TypeOK
<1> QED BY <1>1, <1>2, <1>3, <1>4, <1>5, <1>6, <1>7
        DEF CheckTimeOut, TypeOK, usb, sending, clock

LEMMA SendType ==
  ASSUME TypeOK, NEW s \in Sender, SendMsgToLinkChannel(s)
  PROVE  TypeOK'
<1>1. /\ lock' \in Sender \cup {"free"}
      /\ spc' \in [Sender -> {"idle", "ask", "write", "test", "again"}]
  BY DEF SendMsgToLinkChannel, SendReport, SendWrite, SendHeartBeat, SendRequest, Unlock, Goto,
         TypeOK, Sender
<1>2. UNCHANGED <<queue, monitor, entry, usb, clock, history>>
  BY DEF SendMsgToLinkChannel, SendReport, SendWrite, SendHeartBeat, SendRequest
<1> QED BY <1>1, <1>2 DEF TypeOK, queue, monitor, entry, usb, clock, history

LEMMA UsbType == ASSUME TypeOK, UsbTypecTask PROVE TypeOK'
<1>1. UNCHANGED <<queue, monitor, sending, clock, history>>
  BY DEF UsbTypecTask, PortClose, PortOpen, TypeCConnectCopy, TypeCConnect
<1>2. /\ port' \in Fd \cup {NoFd} /\ upc' \in {"select", "open", "copy", "none"}
      /\ uncopied' \in SUBSET Field
  BY DEF UsbTypecTask, PortClose, PortOpen, TypeCConnectCopy, TypeCConnect, TypeOK, usb, entry
<1>3. connect' \in BOOLEAN /\ rev' \in BOOLEAN /\ sock' \in Fd \cup {NoFd}
  BY DEF UsbTypecTask, PortClose, PortOpen, TypeCConnectCopy, TypeCConnect, TypeOK, entry, Field
<1> QED BY <1>1, <1>2, <1>3 DEF TypeOK, queue, monitor, sending, clock, history

LEMMA TypeNext == ASSUME TypeOK, [Next]_vars PROVE TypeOK'
<1>1. CASE Tick
  BY <1>1, TickType
<1>2. ASSUME NEW l \in Link, Beat(l) PROVE TypeOK'
  BY <1>2, BeatType
<1>3. CASE CheckTimeOut
  BY <1>3, CheckType
<1>4. ASSUME NEW l \in Link, _OnUpdateC2HeartBeatTime(l) PROVE TypeOK'
  BY <1>4, UpdateType
<1>5. ASSUME NEW s \in Sender, SendMsgToLinkChannel(s) PROVE TypeOK'
  BY <1>5, SendType
<1>6. CASE UsbTypecTask
  BY <1>6, UsbType
<1>7. CASE UNCHANGED vars
  BY <1>7 DEF vars, queue, monitor, entry, usb, sending, clock, history, TypeOK
<1>8. CASE SetClock
  BY <1>8, SetClockType
<1> QED BY <1>1, <1>2, <1>3, <1>4, <1>5, <1>6, <1>7, <1>8 DEF Next, Heartbeat

(* Types hold for any periods, time-out and delay.                         *)
THEOREM TypeCorrect == Spec => []TypeOK
<1>1. Init => TypeOK
  BY TypeInit
<1>2. TypeOK /\ [Next]_vars => TypeOK'
  BY TypeNext
<1> QED BY <1>1, <1>2, PTL DEF Spec

-----------------------------------------------------------------------------
(* Who is turned off.                                                      *)

LEMMA FreshInit == Init => FreshInv
BY DEF Init, FreshInv, Fresh

LEMMA FreshTick ==
  ASSUME TypeOK, FreshInv, Tick, NEW l \in Link
  PROVE  Fresh(l)'
<1>0. stepped' = stepped
  BY DEF Tick
<1> SUFFICES ASSUME ~late'[l], ~stepped[l] PROVE Fresh(l)'
  BY <1>0 DEF Fresh
<1>1. ~late[l] /\ quiet[l] < BeatPeriod
  <2>1. late'[l] = (late[l] \/ quiet[l] >= BeatPeriod) /\ quiet[l] \in Nat
    BY DEF Tick, TypeOK
  <2>2. ~late[l] /\ ~(quiet[l] >= BeatPeriod)
    BY <2>1
  <2> QED BY <2>1, <2>2, Numbers
<1>2. quiet'[l] = quiet[l] + 1 /\ quiet[l] \in Nat
  BY <1>1, Numbers DEF Tick, TypeOK, Capped
<1>4. Fresh(l) /\ age[l] >= 0
  BY <1>1 DEF FreshInv, Fresh
<1>3. age'[l] <= age[l] + 1 /\ age[l] \in Nat /\ age'[l] \in Nat
  <2>1. age[l] \in Nat /\ age'[l] = Capped(age[l] + 1, Timeout + 1)
    BY <1>4, Numbers DEF Tick, TypeOK
  <2> QED BY <2>1, Numbers, CappedBound
<1>5. beats'[l] = Older(beats[l])
  BY DEF Tick
<1>6. CASE beats[l] = {}
  <2>1. beats'[l] = {}
    BY <1>5, <1>6 DEF Older
  <2>2. age'[l] <= quiet'[l] /\ quiet'[l] <= BeatPeriod
    BY <1>1, <1>2, <1>3, <1>4, <1>6, Numbers DEF Fresh
  <2> QED BY <1>3, <2>1, <2>2 DEF Fresh
<1>7. CASE beats[l] # {}
  <2>1. PICK b \in beats[l] : age[l] <= BeatPeriod + b
    BY <1>1, <1>4, <1>7 DEF Fresh
  <2>2. b + 1 \in beats'[l] /\ b \in Nat
    BY <1>5 DEF Older, TypeOK
  <2>3. age'[l] <= BeatPeriod + (b + 1)
    BY <1>3, <2>1, <2>2, Numbers
  <2>4. quiet'[l] <= BeatPeriod /\ age'[l] >= 0
    BY <1>1, <1>2, <1>3, Numbers
  <2> QED BY <2>2, <2>3, <2>4 DEF Fresh
<1> QED BY <1>6, <1>7

LEMMA FreshBeat ==
  ASSUME TypeOK, FreshInv, NEW k \in Link, Beat(k), NEW l \in Link
  PROVE  Fresh(l)'
<1>1. Fresh(l) /\ age[l] \in Int /\ quiet[l] \in Nat
  BY Numbers DEF FreshInv, TypeOK
<1>2. age' = age /\ late' = late /\ stepped' = stepped
  BY DEF Beat, monitor
<1>3. CASE k # l
  <2>1. beats'[l] = beats[l] /\ quiet'[l] = quiet[l]
    BY <1>3 DEF Beat, TypeOK
  <2> QED BY <1>1, <1>2, <2>1 DEF Fresh
<1>4. CASE k = l
  <2>1. beats'[l] = beats[l] \cup {0} /\ quiet'[l] = 0
    BY <1>4 DEF Beat, TypeOK
  <2>2. ASSUME ~late[l], ~stepped[l]
        PROVE  age[l] >= 0 /\ \E b \in beats'[l] : age[l] <= BeatPeriod + b
    <3>1. CASE beats[l] = {}
      BY <1>1, <2>1, <2>2, <3>1, Numbers DEF Fresh
    <3>2. CASE beats[l] # {}
      BY <1>1, <2>1, <2>2, <3>2 DEF Fresh
    <3> QED BY <3>1, <3>2
  <2> QED BY <1>2, <2>1, <2>2, Numbers DEF Fresh
<1> QED BY <1>3, <1>4

LEMMA FreshUpdate ==
  ASSUME TypeOK, FreshInv, NEW k \in Link, _OnUpdateC2HeartBeatTime(k), NEW l \in Link
  PROVE  Fresh(l)'
<1>1. Fresh(l)
  BY DEF FreshInv
<1>2. quiet' = quiet /\ quiet[l] \in Nat
  BY DEF _OnUpdateC2HeartBeatTime, TypeOK
<1>3. CASE k # l
  <2>1. beats'[l] = beats[l] /\ age'[l] = age[l] /\ late'[l] = late[l] /\ stepped'[l] = stepped[l]
    BY <1>3 DEF _OnUpdateC2HeartBeatTime, TypeOK
  <2> QED BY <1>1, <1>2, <2>1 DEF Fresh
<1>4. CASE k = l
  <2>1. age'[l] = 0 /\ late'[l] = (quiet[l] > BeatPeriod)
    BY <1>4 DEF _OnUpdateC2HeartBeatTime, TypeOK
  <2>2. beats'[l] \in SUBSET Nat
    BY <1>4 DEF _OnUpdateC2HeartBeatTime, TypeOK
  <2>3. ASSUME NEW b \in beats'[l] PROVE age'[l] <= BeatPeriod + b
    BY <2>1, <2>2, Numbers
  <2>4. ASSUME ~late'[l] PROVE quiet'[l] <= BeatPeriod /\ age'[l] <= quiet'[l]
    <3>1. ~(quiet[l] > BeatPeriod)
      BY <2>1, <2>4
    <3> QED BY <1>2, <2>1, <3>1, Numbers
  <2> QED BY <2>1, <2>3, <2>4 DEF Fresh
<1> QED BY <1>3, <1>4

LEMMA FreshCheck ==
  ASSUME TypeOK, FreshInv, CheckTimeOut, NEW l \in Link
  PROVE  Fresh(l)'
<1>1. UNCHANGED <<beats, quiet, late, stepped>>
  BY DEF CheckTimeOut
<1> SUFFICES ASSUME ~late[l], ~stepped[l] PROVE Fresh(l)'
  BY <1>1 DEF Fresh
<1>2. Fresh(l) /\ age[l] \in Nat /\ beats[l] \in SUBSET Nat /\ quiet[l] \in Nat
  BY Numbers DEF FreshInv, Fresh, TypeOK
<1>3. age'[l] >= 0 /\ age'[l] <= age[l] /\ age'[l] \in Int
  BY <1>2, CheckedAgeType, Numbers DEF CheckTimeOut
<1>4. ASSUME NEW b \in beats[l], age[l] <= BeatPeriod + b
      PROVE  age'[l] <= BeatPeriod + b
  BY <1>2, <1>3, <1>4, Numbers
<1>5. beats[l] = {} => age'[l] <= quiet[l]
  BY <1>2, <1>3 DEF Fresh
<1> QED BY <1>1, <1>2, <1>3, <1>4, <1>5 DEF Fresh

LEMMA FreshNext == ASSUME TypeOK, FreshInv, [Next]_vars PROVE FreshInv'
<1> SUFFICES ASSUME NEW l \in Link PROVE Fresh(l)'
  BY DEF FreshInv
<1>1. CASE Tick
  BY <1>1, FreshTick
<1>2. ASSUME NEW k \in Link, Beat(k) PROVE Fresh(l)'
  BY <1>2, FreshBeat
<1>3. CASE CheckTimeOut
  BY <1>3, FreshCheck
<1>4. ASSUME NEW k \in Link, _OnUpdateC2HeartBeatTime(k) PROVE Fresh(l)'
  BY <1>4, FreshUpdate
<1>5. ASSUME UNCHANGED <<queue, monitor, history>> PROVE Fresh(l)'
  BY <1>5 DEF Fresh, FreshInv, queue, monitor, history
<1>6. ASSUME NEW s \in Sender, SendMsgToLinkChannel(s) PROVE Fresh(l)'
  BY <1>5, <1>6 DEF SendMsgToLinkChannel, SendReport, SendWrite, SendHeartBeat, SendRequest
<1>7. CASE UsbTypecTask
  BY <1>5, <1>7 DEF UsbTypecTask, PortClose, PortOpen, TypeCConnectCopy, TypeCConnect
<1>8. CASE UNCHANGED vars
  BY <1>5, <1>8 DEF vars
<1>9. CASE SetClock
  BY <1>9 DEF SetClock, Fresh
<1> QED BY <1>1, <1>2, <1>3, <1>4, <1>6, <1>7, <1>8, <1>9 DEF Next, Heartbeat

\* A link that is fresh is not timed out.
LEMMA FreshKept ==
  ASSUME TypeOK, FreshInv, BeatPeriod + MaxDelay <= Timeout,
         NEW l \in Link, ~late[l], ~stepped[l]
  PROVE  ~TimedOut(l)
<1>1. age[l] \in Nat /\ beats[l] \in SUBSET (0 .. MaxDelay) /\ Fresh(l) /\ quiet[l] \in Nat
  BY Numbers DEF FreshInv, Fresh, TypeOK
<1>2. age[l] <= BeatPeriod + MaxDelay
  <2>1. CASE beats[l] = {}
    BY <1>1, <2>1, Numbers DEF Fresh
  <2>2. CASE beats[l] # {}
    <3>1. PICK b \in beats[l] : age[l] <= BeatPeriod + b
      BY <1>1, <2>2 DEF Fresh
    <3> QED BY <1>1, <3>1, Numbers
  <2> QED BY <2>1, <2>2
<1>3. CheckedAge(l) \in Int /\ CheckedAge(l) >= 0 /\ CheckedAge(l) <= Timeout
  BY <1>1, <1>2, CheckedAgeType, Numbers
<1> QED BY <1>3, Numbers DEF TimedOut

LEMMA OnlyTimeOutDrops ==
  ASSUME TypeOK, [Next]_vars, NEW l \in Link, Dropped(l)
  PROVE  CheckTimeOut /\ TimedOut(l)
<1>1. (status \subseteq status' /\ (connect => connect')) \/ CheckTimeOut
  <2>1. CASE Tick
    BY <2>1 DEF Tick, entry
  <2>2. ASSUME NEW k \in Link, Beat(k) PROVE UNCHANGED <<status, connect>>
    BY <2>2 DEF Beat, monitor, entry
  <2>3. ASSUME NEW k \in Link, _OnUpdateC2HeartBeatTime(k)
        PROVE  status \subseteq status' /\ connect' = connect
    BY <2>3 DEF _OnUpdateC2HeartBeatTime
  <2>4. ASSUME NEW s \in Sender, SendMsgToLinkChannel(s) PROVE UNCHANGED <<status, connect>>
    BY <2>4 DEF SendMsgToLinkChannel, SendReport, SendWrite, SendHeartBeat, SendRequest,
                monitor, entry
  <2>5. CASE UsbTypecTask
    <3>1. UNCHANGED status
      BY <2>5 DEF UsbTypecTask, PortClose, PortOpen, TypeCConnectCopy, TypeCConnect, monitor
    <3>2. connect => connect'
      <4>1. CASE PortClose \/ PortOpen
        BY <4>1 DEF PortClose, PortOpen, entry
      <4>2. ASSUME NEW f \in Field, TypeCConnectCopy(f) PROVE connect => connect'
        BY <4>2 DEF TypeCConnectCopy, Field
      <4>3. CASE TypeCConnect
        BY <4>3 DEF TypeCConnect
      <4> QED BY <2>5, <4>1, <4>2, <4>3 DEF UsbTypecTask
    <3> QED BY <3>1, <3>2
  <2>6. CASE UNCHANGED vars
    BY <2>6 DEF vars, monitor, entry
  <2>7. CASE SetClock
    BY <2>7 DEF SetClock, entry
  <2> QED BY <2>1, <2>2, <2>3, <2>4, <2>5, <2>6, <2>7 DEF Next, Heartbeat
<1>2. CheckTimeOut
  BY <1>1 DEF Dropped
<1>3. TimedOut(l)
  BY <1>2 DEF Dropped, CheckTimeOut
<1> QED BY <1>2, <1>3

(* A host that keeps beating is kept, for any time-out that is not shorter *)
(* than its pauses and the delay of HEARTBEAT together, unless the clock   *)
(* was set since its last heartbeat was taken.                             *)
THEOREM HostKept ==
  ASSUME BeatPeriod + MaxDelay <= Timeout
  PROVE  Spec => BeatingHostKept
<1>1. Init => TypeOK /\ FreshInv
  BY TypeInit, FreshInit
<1>2. TypeOK /\ FreshInv /\ [Next]_vars => TypeOK' /\ FreshInv'
  BY TypeNext, FreshNext
<1>3. TypeOK /\ FreshInv /\ [Next]_vars => [\A l \in Link : Dropped(l) => late[l] \/ stepped[l]]_vars
  BY OnlyTimeOutDrops, FreshKept
<1> QED BY <1>1, <1>2, <1>3, PTL DEF Spec, BeatingHostKept

-----------------------------------------------------------------------------
(* What the lamp and the reports stand for.                                *)

\* Since the last check there was at most a Gap.
LEMMA SinceCheckBound ==
  ASSUME TypeOK, NEW x \in Nat, NEW bound \in Nat, SinceCheck(x, bound)
  PROVE  x <= bound + Gap
<1>1. phase \in Nat /\ phase < CheckTimer /\ checks \in SUBSET (0 .. MaxDelay)
  BY Numbers DEF TypeOK
<1> QED BY <1>1, Numbers DEF SinceCheck, Gap

LEMMA BoundPlus ==
  ASSUME NEW x \in Nat, NEW bound \in Nat, x <= bound, NEW n \in Nat
  PROVE  x <= bound + n
OBVIOUS

\* What is within its bound is so after a step, whatever checks wait.
LEMMA SinceCheckAfter ==
  ASSUME TypeOK', NEW x \in Nat, NEW bound \in Nat, x <= bound
  PROVE  SinceCheck(x, bound)'
<1>1. phase' \in Nat /\ checks' \in SUBSET Nat
  BY Numbers DEF TypeOK
<1>2. CASE checks' = {}
  <2>1. x <= bound + phase'
    BY <1>1, BoundPlus
  <2> QED BY <1>2, <2>1 DEF SinceCheck
<1>3. CASE checks' # {}
  <2>1. PICK w \in checks' : TRUE
    BY <1>3
  <2>2. x <= bound + CheckTimer + w
    BY <1>1, <2>1, Numbers
  <2> QED BY <2>1, <2>2 DEF SinceCheck
<1> QED BY <1>2, <1>3

\* Time passes: what may be one unit longer stays within its bound.
LEMMA SinceCheckTick ==
  ASSUME TypeOK, Tick, NEW x \in Nat, NEW y \in Nat, NEW bound \in Nat,
         SinceCheck(x, bound), y <= x + 1
  PROVE  SinceCheck(y, bound)'
<1>1. phase \in Nat /\ phase < CheckTimer /\ checks \in SUBSET Nat
  BY Numbers DEF TypeOK
<1>2. CASE checks = {} /\ x <= bound + phase
  <2>1. CASE phase + 1 = CheckTimer
    <3>1. 0 \in checks'
      BY <2>1 DEF Tick
    <3>2. y <= bound + CheckTimer + 0
      BY <1>1, <1>2, <2>1, Numbers
    <3> QED BY <3>1, <3>2 DEF SinceCheck
  <2>2. CASE phase + 1 # CheckTimer
    <3>1. phase' = phase + 1 /\ phase' # 0
      BY <1>1, <2>2 DEF Tick
    <3>2. checks' = {}
      BY <1>2, <3>1 DEF Tick, Older
    <3> QED BY <1>1, <1>2, <3>1, <3>2, Numbers DEF SinceCheck
  <2> QED BY <2>1, <2>2
<1>3. ASSUME NEW w \in checks, x <= bound + CheckTimer + w
      PROVE  SinceCheck(y, bound)'
  <2>1. w + 1 \in checks'
    BY DEF Tick, Older
  <2>2. y <= bound + CheckTimer + (w + 1)
    BY <1>1, <1>3, Numbers
  <2> QED BY <2>1, <2>2 DEF SinceCheck
<1> QED BY <1>2, <1>3 DEF SinceCheck

LEMMA LampInit == Init => LampInv
<1> SUFFICES ASSUME Init PROVE LampInv
  OBVIOUS
<1>1. status = {} /\ lamp = FALSE /\ rev = FALSE /\ flag["TYPEC"]
  BY DEF Init, Link
<1> QED BY <1>1 DEF LampInv, FlagInv, SilenceInv

\* The bounds of the lamp are numbers, and a step of the clock raises them.
LEMMA SlackType ==
  ASSUME TypeOK, NEW l \in Link
  PROVE  /\ Slack(l) \in Nat /\ Gap <= Slack(l) /\ Timeout + Slack(l) \in Nat
         /\ LampBound(l) = Timeout + Slack(l) + Gap
BY Numbers DEF Slack, LampBound, MaxSilence, Gap

\* A longer bound holds, too.
LEMMA SinceCheckMore ==
  ASSUME TypeOK, NEW x \in Nat, NEW low \in Nat, NEW high \in Nat, low <= high,
         SinceCheck(x, low)
  PROVE  SinceCheck(x, high)
<1>1. phase \in Nat /\ checks \in SUBSET Nat
  BY Numbers DEF TypeOK
<1> QED BY <1>1, Numbers DEF SinceCheck

LEMMA LampTick == ASSUME TypeOK, LampInv, Tick PROVE LampInv'
<1>1. UNCHANGED <<flag, status, lamp, rev, sync, stepped>>
  BY DEF Tick, entry
<1>2. FlagInv'
  BY <1>1 DEF LampInv, FlagInv
<1>3. \A l \in Link : /\ silence[l] \in Nat /\ silence'[l] \in Nat
                      /\ silence'[l] <= silence[l] + 1
  <2>1. \A l \in Link : silence[l] \in Nat
    BY DEF TypeOK
  <2>2. \A l \in Link : silence'[l] = Capped(silence[l] + 1, MaxSilence + 1)
    BY DEF Tick
  <2>3. \A l \in Link : /\ Capped(silence[l] + 1, MaxSilence + 1) \in Nat
                         /\ Capped(silence[l] + 1, MaxSilence + 1) <= silence[l] + 1
    BY <2>1, CappedBound, Numbers
  <2> QED BY <2>1, <2>2, <2>3
<1>4. \A l \in Link : /\ age[l] \in Int /\ age'[l] \in Int
                      /\ age'[l] = age[l] + 1 \/ age'[l] > Timeout
                      /\ age[l] > Timeout => age'[l] > Timeout
  <2>1. \A l \in Link : age[l] \in Int
    BY Numbers DEF TypeOK
  <2>2. \A l \in Link : age'[l] = Capped(age[l] + 1, Timeout + 1)
    BY DEF Tick
  <2> QED BY <2>1, <2>2, Numbers DEF Capped
<1>5. ASSUME NEW l \in Link, NEW n \in Nat, SinceCheck(silence[l], n)
      PROVE  SinceCheck(silence[l], n)'
  <2>1. PICK x \in Nat, y \in Nat : x = silence[l] /\ y = silence'[l]
    BY <1>3
  <2>2. SinceCheck(x, n) /\ y <= x + 1
    BY <1>3, <1>5, <2>1
  <2>3. SinceCheck(y, n)'
    BY <2>2, SinceCheckTick
  <2> QED BY <2>1, <2>3 DEF SinceCheck
<1>6. ASSUME NEW l \in Link PROVE Slack(l)' = Slack(l)
  BY <1>1 DEF Slack, Gap
<1>7. ASSUME NEW l \in Link, AgeTells(l) PROVE AgeTells(l)'
  <2>1. CASE silence[l] <= age[l] + Slack(l) \/ age[l] > Timeout
    <3>1. silence'[l] <= age'[l] + Slack(l) \/ age'[l] > Timeout
      BY <1>3, <1>4, <2>1, SlackType, Numbers
    <3> QED BY <1>6, <3>1 DEF AgeTells
  <2>2. CASE stepped[l] /\ SinceCheck(silence[l], Timeout + Gap)
    <3>1. PICK n \in Nat : n = Timeout + Gap
      BY Numbers
    <3>2. SinceCheck(silence[l], n)'
      BY <1>5, <2>2, <3>1
    <3>3. (Timeout + Gap)' = n
      BY <3>1 DEF Gap
    <3> QED BY <1>1, <2>2, <3>2, <3>3 DEF AgeTells
  <2> QED BY <1>7, <2>1, <2>2 DEF AgeTells
<1>8. ASSUME NEW l \in Link, SinceCheck(silence[l], Timeout + Slack(l))
      PROVE  SinceCheck(silence[l], Timeout + Slack(l))'
  <2>1. PICK n \in Nat : n = Timeout + Slack(l)
    BY SlackType
  <2>2. SinceCheck(silence[l], n)'
    BY <1>5, <1>8, <2>1
  <2>3. (Timeout + Slack(l))' = n
    BY <1>6, <2>1
  <2> QED BY <2>2, <2>3
<1>9. SinceCheck(silence["TYPEC"], 0) => SinceCheck(silence["TYPEC"], 0)'
  BY <1>5 DEF Link
<1>10. "TCP" \in Link /\ "TYPEC" \in Link /\ status \subseteq Link
  BY DEF Link, TypeOK
<1>11. SilenceInv'
  BY <1>1, <1>7, <1>8, <1>9, <1>10 DEF LampInv, SilenceInv
<1> QED BY <1>2, <1>11 DEF LampInv

\* A link of which neither the times nor the checks change.
LEMMA LinkSame ==
  ASSUME NEW l \in Link, UNCHANGED <<checks, phase>>,
         age'[l] = age[l], silence'[l] = silence[l], stepped'[l] = stepped[l]
  PROVE  /\ AgeTells(l) => AgeTells(l)'
         /\ SinceCheck(silence[l], 0) => SinceCheck(silence[l], 0)'
         /\ SinceCheck(silence[l], Timeout + Slack(l)) => SinceCheck(silence[l], Timeout + Slack(l))'
BY DEF AgeTells, SinceCheck, Slack, Gap

LEMMA LampUpdate ==
  ASSUME TypeOK, LampInv, NEW l \in Link, _OnUpdateC2HeartBeatTime(l)
  PROVE  LampInv'
<1>1. /\ status' = status \cup {l} /\ UNCHANGED <<sync, lamp, checks, phase>>
      /\ rev' = (rev \/ l = "TYPEC")
  BY DEF _OnUpdateC2HeartBeatTime
<1>2. flag'[l] = TRUE /\ age'[l] = 0 /\ silence'[l] = 0 /\ stepped'[l] = FALSE
  BY DEF _OnUpdateC2HeartBeatTime, TypeOK
<1>3. \A k \in Link \ {l} : /\ flag'[k] = flag[k] /\ age'[k] = age[k]
                             /\ silence'[k] = silence[k] /\ stepped'[k] = stepped[k]
  BY DEF _OnUpdateC2HeartBeatTime, TypeOK
<1>4. FlagInv'
  BY <1>1, <1>2, <1>3 DEF LampInv, FlagInv, Link
<1>5. TypeOK'
  BY UpdateType
<1>6. AgeTells(l)'
  <2>1. Slack(l)' = Gap
    BY <1>2 DEF Slack, Gap
  <2>2. silence'[l] <= age'[l] + Slack(l)'
    BY <1>2, <2>1, Numbers
  <2> QED BY <2>2 DEF AgeTells
<1>7. SinceCheck(silence[l], 0)' /\ SinceCheck(silence[l], Timeout + Slack(l))'
  <2>1. PICK n \in Nat : n = (Timeout + Slack(l))'
    BY <1>2, Numbers DEF Slack, Gap
  <2>2. SinceCheck(0, 0)' /\ SinceCheck(0, n)'
    BY <1>5, SinceCheckAfter
  <2>3. SinceCheck(silence[l], 0)'
    BY <1>2, <2>2 DEF SinceCheck
  <2>4. SinceCheck(silence[l], n)'
    BY <1>2, <2>2 DEF SinceCheck
  <2> QED BY <2>1, <2>3, <2>4
<1>8. \A k \in Link \ {l} :
          /\ AgeTells(k) => AgeTells(k)'
          /\ SinceCheck(silence[k], 0) => SinceCheck(silence[k], 0)'
          /\ SinceCheck(silence[k], Timeout + Slack(k)) => SinceCheck(silence[k], Timeout + Slack(k))'
  BY <1>1, <1>3, LinkSame
<1>9. "TCP" \in status' => AgeTells("TCP")'
  BY <1>1, <1>6, <1>8 DEF LampInv, SilenceInv, Link
<1>10. "TYPEC" \in status' /\ sync' => AgeTells("TYPEC")'
  BY <1>1, <1>6, <1>8 DEF LampInv, SilenceInv, Link
<1>11. "TYPEC" \in status' /\ ~sync' => SinceCheck(silence["TYPEC"], 0)'
  BY <1>1, <1>7, <1>8 DEF LampInv, SilenceInv, Link
<1>12. \A k \in status' : SinceCheck(silence[k], Timeout + Slack(k))'
  <2>1. status \subseteq Link
    BY DEF TypeOK
  <2> QED BY <1>1, <1>7, <1>8, <2>1 DEF LampInv, SilenceInv
<1>13. SilenceInv'
  BY <1>9, <1>10, <1>11, <1>12 DEF SilenceInv
<1> QED BY <1>4, <1>13 DEF LampInv

\* The clock is set: no link was silent for longer than without a step so far.
LEMMA LampSetClock == ASSUME TypeOK, LampInv, SetClock PROVE LampInv'
<1>1. /\ UNCHANGED <<flag, status, lamp, rev, sync, silence, checks, phase>>
      /\ \A l \in Link : ~stepped[l] /\ stepped'[l]
  BY DEF SetClock, queue, entry, TypeOK
<1>2. FlagInv'
  BY <1>1 DEF LampInv, FlagInv
<1>3. ASSUME NEW l \in status
      PROVE  /\ (SinceCheck(silence[l], Timeout + Gap))'
             /\ SinceCheck(silence[l], Timeout + Slack(l))'
  <2>1. l \in Link /\ SinceCheck(silence[l], Timeout + Slack(l))
    BY DEF TypeOK, LampInv, SilenceInv
  <2>2. PICK x \in Nat, n \in Nat, m \in Nat :
            x = silence[l] /\ n = Timeout + Gap /\ m = Timeout + (Timeout + Gap + Gap)
    BY <2>1, Numbers DEF TypeOK
  <2>3. SinceCheck(x, n)
    BY <1>1, <2>1, <2>2 DEF Slack
  <2>4. SinceCheck(x, m)
    BY <2>2, <2>3, SinceCheckMore, Numbers
  <2>5. (Timeout + Gap)' = n /\ (Timeout + Slack(l))' = m
    BY <1>1, <2>1, <2>2 DEF Slack, Gap
  <2>6. SinceCheck(silence[l], n)' /\ SinceCheck(silence[l], m)'
    BY <1>1, <2>2, <2>3, <2>4 DEF SinceCheck
  <2> QED BY <2>5, <2>6
<1>4. \A l \in status : AgeTells(l)'
  BY <1>1, <1>3 DEF AgeTells, TypeOK
<1>5. SinceCheck(silence["TYPEC"], 0) => SinceCheck(silence["TYPEC"], 0)'
  BY <1>1 DEF SinceCheck
<1>6. SilenceInv'
  BY <1>1, <1>3, <1>4, <1>5 DEF LampInv, SilenceInv
<1> QED BY <1>2, <1>6 DEF LampInv

LEMMA LampCheck == ASSUME TypeOK, LampInv, CheckTimeOut PROVE LampInv'
<1>1. /\ status' = {l \in status : ~TimedOut(l)} /\ lamp' = (status' # {})
      /\ flag' = [flag EXCEPT !["TCP"] = @ /\ ~TimedOut("TCP")]
      /\ rev' = (rev /\ ~TimedOut("TYPEC")) /\ stepped' = stepped
      /\ sync' = ((sync \/ flag["TYPEC"]) /\ ~TimedOut("TYPEC"))
      /\ \A l \in Link : age'[l] = CheckedAge(l)
      /\ \A l \in Link : l \in status' => silence'[l] = silence[l]
  BY DEF CheckTimeOut
<1>2. flag \in [Link -> BOOLEAN] /\ status \subseteq Link
      /\ \A l \in Link : silence[l] \in Nat /\ age[l] \in Int
  BY Numbers DEF TypeOK
<1>3. flag["TYPEC"]
  BY DEF LampInv, FlagInv
<1>4. FlagInv'
  <2>1. flag'["TYPEC"]
    BY <1>1, <1>2, <1>3 DEF Link
  <2>2. "TCP" \in status' => flag'["TCP"]
    BY <1>1, <1>2 DEF LampInv, FlagInv, Link
  <2> QED BY <1>1, <2>1, <2>2 DEF LampInv, FlagInv
<1>5. \A l \in status : flag[l]
  BY <1>2 DEF LampInv, FlagInv, Link
<1>6. \A l \in status' : /\ l \in Link /\ l \in status
                         /\ age'[l] \in Int /\ age'[l] >= 0 /\ age'[l] <= Timeout
  <2> SUFFICES ASSUME NEW l \in status'
               PROVE  /\ l \in Link /\ l \in status /\ CheckedAge(l) \in Int
                      /\ ~(CheckedAge(l) > Timeout \/ CheckedAge(l) < 0)
    BY <1>1, Numbers
  <2>1. l \in Link /\ l \in status /\ ~TimedOut(l) /\ flag[l]
    BY <1>1, <1>2, <1>5
  <2>2. CheckedAge(l) \in Int
    BY <2>1, CheckedAgeType, Numbers
  <2> QED BY <2>1, <2>2 DEF TimedOut
\* What a check that does not find a link over leaves of its silence.
<1>7. ASSUME NEW l \in status' PROVE silence[l] <= age'[l] + Slack(l)
  <2>1. l \in Link /\ l \in status /\ age'[l] = CheckedAge(l)
    BY <1>1, <1>6
  <2>2. CASE l = "TYPEC" /\ ~sync
    <3>1. SinceCheck(silence[l], 0)
      BY <2>1, <2>2 DEF LampInv, SilenceInv
    <3>2. silence[l] <= 0 + Gap
      BY <1>2, <2>1, <3>1, SinceCheckBound
    <3> QED BY <1>2, <1>6, <2>1, <3>2, SlackType, Numbers
  <2>3. CASE l = "TCP" \/ sync
    <3>1. age'[l] = age[l]
      BY <2>1, <2>3 DEF CheckedAge, SyncTypeC
    <3>2. AgeTells(l)
      BY <2>1, <2>3 DEF LampInv, SilenceInv, Link
    <3>3. CASE silence[l] <= age[l] + Slack(l)
      BY <3>1, <3>3
    <3>4. CASE stepped[l] /\ SinceCheck(silence[l], Timeout + Gap)
      <4>1. silence[l] <= Timeout + Gap + Gap
        BY <1>2, <2>1, <3>4, SinceCheckBound, Numbers
      <4>2. Slack(l) = Timeout + Gap + Gap
        BY <3>4 DEF Slack
      <4> QED BY <1>2, <1>6, <2>1, <4>1, <4>2, Numbers
    <3>5. ~(age[l] > Timeout)
      BY <1>2, <1>6, <2>1, <3>1, Numbers
    <3> QED BY <3>2, <3>3, <3>4, <3>5 DEF AgeTells
  <2> QED BY <2>1, <2>2, <2>3 DEF Link
<1>8. ASSUME NEW l \in status'
      PROVE  AgeTells(l)' /\ SinceCheck(silence[l], Timeout + Slack(l))'
  <2>1. l \in Link /\ silence'[l] = silence[l] /\ Slack(l)' = Slack(l)
    BY <1>1, <1>6 DEF Slack, Gap
  <2>2. AgeTells(l)'
    BY <1>7, <2>1 DEF AgeTells
  <2>3. PICK x \in Nat, n \in Nat : x = silence'[l] /\ n = (Timeout + Slack(l))' /\ x <= n
    <3>1. Timeout + Slack(l) \in Nat /\ silence[l] \in Nat
      BY <1>2, <2>1, SlackType
    <3>2. silence[l] <= Timeout + Slack(l)
      BY <1>2, <1>6, <1>7, <2>1, SlackType, Numbers
    <3> QED BY <2>1, <3>1, <3>2
  <2>4. SinceCheck(x, n)'
    BY <2>3, CheckType, SinceCheckAfter
  <2>5. SinceCheck(silence[l], n)'
    BY <2>3, <2>4 DEF SinceCheck
  <2> QED BY <2>2, <2>3, <2>5
<1>9. "TYPEC" \in status' => sync'
  BY <1>1, <1>3
<1>10. SilenceInv'
  BY <1>8, <1>9 DEF SilenceInv
<1> QED BY <1>4, <1>10 DEF LampInv

\* Steps of other threads leave the supervision alone.
LEMMA LampSame ==
  ASSUME LampInv, UNCHANGED <<checks, phase, age, flag, sync, status, lamp, silence, stepped>>, rev' => rev
  PROVE  LampInv'
BY DEF LampInv, FlagInv, SilenceInv, AgeTells, Slack, SinceCheck, Gap

LEMMA LampNext == ASSUME TypeOK, LampInv, [Next]_vars PROVE LampInv'
<1>1. CASE Tick
  BY <1>1, LampTick
<1>2. ASSUME NEW l \in Link, Beat(l) PROVE LampInv'
  BY <1>2, LampSame DEF Beat, monitor, entry
<1>3. CASE CheckTimeOut
  BY <1>3, LampCheck
<1>4. ASSUME NEW l \in Link, _OnUpdateC2HeartBeatTime(l) PROVE LampInv'
  BY <1>4, LampUpdate
<1>5. ASSUME NEW s \in Sender, SendMsgToLinkChannel(s) PROVE LampInv'
  BY <1>5, LampSame DEF SendMsgToLinkChannel, SendReport, SendWrite, SendHeartBeat, SendRequest,
                        queue, monitor, entry, history
<1>6. CASE UsbTypecTask
  <2>1. UNCHANGED <<queue, monitor, history>> /\ (rev' => rev)
    BY <1>6 DEF UsbTypecTask, PortClose, PortOpen, TypeCConnectCopy, TypeCConnect, entry, Field
  <2> QED BY <2>1, LampSame DEF queue, monitor, history
<1>7. CASE UNCHANGED vars
  BY <1>7, LampSame DEF vars, queue, monitor, entry, history
<1>8. CASE SetClock
  BY <1>8, LampSetClock
<1> QED BY <1>1, <1>2, <1>3, <1>4, <1>5, <1>6, <1>7, <1>8 DEF Next, Heartbeat

LEMMA LampHolds == TypeOK /\ LampInv => HeardLately
<1> SUFFICES ASSUME TypeOK, LampInv PROVE HeardLately
  OBVIOUS
<1>1. status \subseteq Link
  BY DEF TypeOK
<1>2. ASSUME NEW l \in status PROVE silence[l] <= LampBound(l)
  <2>1. l \in Link /\ silence[l] \in Nat /\ SinceCheck(silence[l], Timeout + Slack(l))
    BY <1>1 DEF TypeOK, LampInv, SilenceInv
  <2>2. silence[l] <= (Timeout + Slack(l)) + Gap
    BY <2>1, SlackType, SinceCheckBound
  <2> QED BY <2>1, <2>2, SlackType
<1> QED BY <1>1, <1>2 DEF HeardLately, LampInv, FlagInv

(* The lamp is lit for a host that was heard within LampBound, and reports *)
(* go out over Type-C for such a host only, whatever the periods are and   *)
(* however far the clock is set.                                           *)
THEOREM LampTells == Spec => []HeardLately
<1>1. Init => TypeOK /\ LampInv
  BY TypeInit, LampInit
<1>2. TypeOK /\ LampInv /\ [Next]_vars => TypeOK' /\ LampInv'
  BY TypeNext, LampNext
<1> QED BY <1>1, <1>2, LampHolds, PTL DEF Spec

-----------------------------------------------------------------------------
(* What a message over Type-C is written to.                               *)

LEMMA PortInit == Init => PortInv
BY DEF Init, PortInv

LEMMA PortSend ==
  ASSUME TypeOK, PortInv, NEW s \in Sender, SendMsgToLinkChannel(s)
  PROVE  PortInv'
<1>1. UNCHANGED <<sock, port, upc, uncopied, connect>>
  BY DEF SendMsgToLinkChannel, SendReport, SendWrite, SendHeartBeat, SendRequest, entry, usb
<1>2. /\ \A t \in Sender \ {s} : spc'[t] = spc[t]
      /\ lock \in {s, "free"} /\ lock' \in {s, "free"}
      /\ lock' = "free" => spc'[s] \in {"idle", "ask"}
  BY DEF SendMsgToLinkChannel, SendReport, SendWrite, SendHeartBeat, SendRequest, Unlock, Goto,
         TypeOK, PortInv, Sender
<1>3. upc = "open" => lock' = "free"
  <2>1. lock = s \/ connect \/ lock' = "free"
    BY DEF SendMsgToLinkChannel, SendReport, SendWrite, SendHeartBeat, SendRequest, Unlock,
           TypeOK, PortInv, Sender
  <2> QED BY <2>1 DEF PortInv, Sender
<1>4. \A t \in Sender : spc'[t] \notin {"idle", "ask"} => lock' = t
  <2>1. \A t \in Sender \ {s} : spc'[t] \in {"idle", "ask"}
    BY <1>2 DEF PortInv, Sender
  <2> QED BY <1>2, <2>1
<1> QED BY <1>1, <1>3, <1>4 DEF PortInv

LEMMA PortUsb == ASSUME TypeOK, PortInv, UsbTypecTask PROVE PortInv'
<1>1. lock' = lock /\ spc' = spc
  BY DEF UsbTypecTask, PortClose, PortOpen, TypeCConnectCopy, TypeCConnect, sending
<1>2. CASE PortClose
  BY <1>1, <1>2 DEF PortClose, PortInv, entry
<1>3. CASE PortOpen
  BY <1>1, <1>3 DEF PortOpen, PortInv, entry, Field
<1>4. ASSUME NEW f \in Field, TypeCConnectCopy(f), upc = "copy" PROVE PortInv'
  <2>1. upc' = "copy" /\ port' = port /\ uncopied' = uncopied \ {f}
    BY <1>4 DEF TypeCConnectCopy
  <2>2. CASE f = "sock"
    <3>1. sock' = port
      BY <1>4, <2>2 DEF TypeCConnectCopy
    <3> QED BY <1>1, <2>1, <3>1 DEF PortInv
  <2>3. CASE f # "sock"
    <3>1. sock' = sock
      BY <1>4, <2>3 DEF TypeCConnectCopy, Field
    <3> QED BY <1>1, <1>4, <2>1, <2>3, <3>1 DEF PortInv
  <2> QED BY <2>2, <2>3
<1>5. CASE TypeCConnect
  BY <1>1, <1>5 DEF TypeCConnect, PortInv
<1>6. ASSUME NEW f \in Field, TypeCConnectCopy(f) PROVE upc = "copy"
  BY <1>6 DEF PortInv, TypeCConnectCopy
<1> QED BY <1>2, <1>3, <1>4, <1>5, <1>6 DEF UsbTypecTask

\* The supervision turns connect off, never on, and asks for the time.
LEMMA PortSame ==
  ASSUME PortInv, UNCHANGED <<sock, usb, lock>>, connect' => connect,
         \A s \in Sender : spc'[s] = spc[s] \/ spc'[s] = "ask"
  PROVE  PortInv'
BY DEF PortInv, usb

LEMMA PortNext == ASSUME TypeOK, PortInv, [Next]_vars PROVE PortInv'
<1>1. CASE Tick
  BY <1>1, PortSame DEF Tick, entry, sending
<1>2. ASSUME NEW l \in Link, Beat(l) PROVE PortInv'
  BY <1>2, PortSame DEF Beat, entry, sending
<1>3. CASE CheckTimeOut
  BY <1>3, PortSame DEF CheckTimeOut, sending
<1>4. ASSUME NEW l \in Link, _OnUpdateC2HeartBeatTime(l) PROVE PortInv'
  <2>1. UNCHANGED <<sock, usb, lock, connect>>
    BY <1>4 DEF _OnUpdateC2HeartBeatTime
  <2>2. \A s \in Sender : spc'[s] = spc[s] \/ spc'[s] = "ask"
    BY <1>4 DEF _OnUpdateC2HeartBeatTime, Goto, TypeOK
  <2> QED BY <2>1, <2>2, PortSame
<1>5. ASSUME NEW s \in Sender, SendMsgToLinkChannel(s) PROVE PortInv'
  BY <1>5, PortSend
<1>6. CASE UsbTypecTask
  BY <1>6, PortUsb
<1>7. CASE UNCHANGED vars
  BY <1>7, PortSame DEF vars, entry, sending
<1>8. CASE SetClock
  BY <1>8, PortSame DEF SetClock, entry, sending
<1> QED BY <1>1, <1>2, <1>3, <1>4, <1>5, <1>6, <1>7, <1>8 DEF Next, Heartbeat

LEMMA PortHolds == TypeOK /\ PortInv => NoStrayWrite
<1> SUFFICES ASSUME TypeOK, PortInv, NEW s \in Sender, spc[s] \in {"write", "again"}, upc # "copy"
             PROVE  sock = port
  BY DEF NoStrayWrite
<1>1. lock = s /\ s # "free"
  BY DEF PortInv, Sender
<1>2. upc \in {"select", "none"}
  BY <1>1 DEF PortInv, TypeOK
<1> QED BY <1>2 DEF PortInv

(* Nothing is written to a closed port, whatever the times of HEARTBEAT    *)
(* and of the thread of the port are, but for the copy of _typeC.          *)
THEOREM NothingStray == Spec => []NoStrayWrite
<1>1. Init => TypeOK /\ PortInv
  BY TypeInit, PortInit
<1>2. TypeOK /\ PortInv /\ [Next]_vars => TypeOK' /\ PortInv'
  BY TypeNext, PortNext
<1>3. TypeOK /\ PortInv => NoStrayWrite
  BY PortHolds
<1> QED BY <1>1, <1>2, <1>3, PTL DEF Spec
=============================================================================
