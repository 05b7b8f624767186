--------------------------- MODULE SpectrumOrient ---------------------------
(***************************************************************************)
(* Spectrum detection, direction finding and the work mode.  The SPECTRUM  *)
(* thread keeps a table of drones that the sniffer's answers refresh and   *)
(* that age by one with every frame; in the orienting mode it takes one    *)
(* of them through the steps of direction finding.  It tells HEARTBEAT     *)
(* when the table fills or empties and which state the direction finding   *)
(* is in, and FREQUENCY to hold one frequency meanwhile.  ALINK commands   *)
(* and the command handler of SYS change the work mode and the operator's  *)
(* request concurrently, and the hit switch the status of the system.      *)
(***************************************************************************)
EXTENDS Integers, Sequences

CONSTANTS
    NumDrones,      \* drone names 1 .. NumDrones, in the order of the table
    Amps,           \* amplitudes a drone is received with
    RemainTimes,    \* EAP_SPECTRUM_TARGET_REMAIN_TIMES
    CntMax,         \* LEVEL_CNT_MAX, PITCH_CNT_MAX and MAXnAngle
    RptInterval,    \* EAP_RPT_INTERVAL_NO_TARGET
    MaxQueue,       \* bound on the messages that wait for a thread
    MaxCmd,         \* bound on the commands of the host
    MaxHit,         \* bound on the uses of the hit switch
    MaxFail         \* bound on the frames the sniffer does not answer

ASSUME SpectrumAssumption ==
    /\ NumDrones \in Nat /\ Amps \subseteq Nat
    /\ {RemainTimes, CntMax} \subseteq Nat \ {0, 1}
    /\ {RptInterval, MaxQueue, MaxCmd, MaxHit, MaxFail} \subseteq Nat

Drone == 1 .. NumDrones

\* The work modes by number: SYS stores the byte it was sent.
NoMode == 0   DroneId == 1   Omni == 2   Orie == 3
Mode == {NoMode, DroneId, Omni, Orie}

Off      == -1  \* no frame is being processed, no ALINK command is executing
NoDrone  == 0   \* _hasOrientateDrone is false
Dangling == -1  \* _orientateDroneIter points to an erased entry

Steps == {"enter", "azimuthEnough", "azimuthAimed", "pitchEnough",
          "pitchAimed", "aimed"}
OpenStates == {"detect", "eligible", "ineligible"}
States == OpenStates \cup
          {"scanHori", "aimHori", "scanPitch", "aimPitch", "aim"}
Sight == [amp : Amps, band : BOOLEAN]
Results == UNION {[D -> Sight] : D \in SUBSET Drone}

VARIABLES
    workMode,   \* SysBase::_workMode
    lastMode,   \* last_workMode of Sensing
    infos,      \* _spectrumInfos: amplitude, whether its frequency is one for
                \* direction finding, and remainingTimes, by drone
    resp,       \* _respData: the response buffer of the calls of the sniffer
    orient,     \* the drone of GetOrientateDrone
    ori,        \* OrientationProc, its arrays reduced to what was written
    admin,      \* _adminEntryOri
    sensing,    \* the work mode the frame in Sensing has read, or Off
    clears,     \* CLEAR_ORIENTATE messages in the queue of SPECTRUM
    freqQ,      \* SET_FREQUENCY_MODE messages in the queue of FREQUENCY
    freqMode,   \* the detector FREQUENCY uses
    hbQ,        \* target warnings and work states in the queue of HEARTBEAT
    target,     \* _targets of HEARTBEAT for the spectrum scene
    workStatus, \* _workStatus of HEARTBEAT
    rpt,        \* _intervalTimes of the report controller
    told,       \* the last report to the host listed a drone
    sysStatus,  \* SysBase::_sysStatus
    sysQ,       \* SET_WORK_MODE messages in the queue of SYS
    alink,      \* the mode ALINK is about to write, or Off
    counts,     \* commands, switches and failures so far
    unseen      \* history: frames since the sniffer answered with the drone

spectrumVars == <<infos, resp, orient, ori, lastMode, rpt, unseen>>
hostVars == <<workMode, sysQ, alink>>
hbVars   == <<hbQ, target, workStatus>>
freqVars == <<freqQ, freqMode>>
vars == <<spectrumVars, hostVars, hbVars, freqVars, admin, sensing, clears,
          told, sysStatus, counts>>

Init ==
    /\ workMode = Omni /\ lastMode = NoMode
    /\ infos = <<>> /\ resp \in Results
    /\ orient = NoDrone
    /\ ori = [step |-> "enter", state |-> "detect", mode |-> "none",
              group |-> 0, level |-> FALSE, pitch |-> FALSE]
    /\ admin = FALSE /\ sensing = Off /\ clears = 0
    /\ freqQ = <<>> /\ freqMode = "sweep"
    /\ hbQ = <<>> /\ target = "gone" /\ workStatus = "detect"
    /\ rpt = 0 /\ told = FALSE
    /\ sysStatus = "detect"
    /\ sysQ = <<>> /\ alink = Off
    /\ counts = [cmd |-> 0, hit |-> 0, fail |-> 0]
    /\ unseen = [d \in Drone |-> 0]

----------------------------------------------------------------------------
(* The table of drones.                                                    *)

\* Mutant: an answer with any drone refreshes the whole table.
MergedRefreshesAll(t, r) ==
    [d \in DOMAIN t \cup DOMAIN r |->
        IF d \in DOMAIN r
        THEN [amp |-> r[d].amp, band |-> r[d].band, left |-> RemainTimes]
        ELSE IF r # <<>> THEN [t[d] EXCEPT !.left = RemainTimes] ELSE t[d]]

Merged(t, r) ==
    [d \in DOMAIN t \cup DOMAIN r |->
        IF d \in DOMAIN r
        THEN [amp |-> r[d].amp, band |-> r[d].band, left |-> RemainTimes]
        ELSE t[d]]

\* Mutant: a drone is erased one frame late.
AgedLate(t) ==
    [d \in {e \in DOMAIN t : t[e].left > 0} |->
        [t[d] EXCEPT !.left = @ - 1]]

Aged(t) ==
    [d \in {e \in DOMAIN t : t[e].left > 1} |->
        [t[d] EXCEPT !.left = @ - 1]]

\* The loudest drone, the first of them in the order of the table.
Loudest(t) ==
    CHOOSE d \in DOMAIN t : \A e \in DOMAIN t :
        t[d].amp > t[e].amp \/ (t[d].amp = t[e].amp /\ d <= e)

IsOpenOrientation(o) == o.state \in OpenStates

OrientAfter(t) ==
    IF IsOpenOrientation(ori)
    THEN IF DOMAIN t = {} THEN NoDrone ELSE Loudest(t)
    ELSE IF orient \in DOMAIN infos \ DOMAIN t THEN Dangling ELSE orient

----------------------------------------------------------------------------
(* Direction finding.                                                      *)

Cleared(o) ==
    [o EXCEPT !.step = "enter", !.mode = "none", !.state = "detect",
              !.level = FALSE, !.pitch = FALSE]

\* No room for a sample of the scan.
Full(o, oldMode) == oldMode # "none" /\ o.group >= CntMax

\* Mutant: a sample is stored but not counted.
SaveAngleInfoUncounted(o, oldMode) ==
    IF oldMode = "none" THEN [o EXCEPT !.group = 0] ELSE o

\* One sample more for the scan that was on before this frame; a full scan
\* starts direction finding over, and still computes its bearing.
SaveAngleInfo(o, oldMode) ==
    IF oldMode = "none" THEN [o EXCEPT !.group = 0]
    ELSE IF ~Full(o, oldMode)
    THEN [o EXCEPT !.group = @ + 1]
    ELSE [Cleared(o) EXCEPT !.group = 0,
                            !.level = oldMode = "level",
                            !.pitch = oldMode = "pitch"]

\* A step whose test the reading passes goes on to the next one.
Enter(o) ==
    [o EXCEPT !.step = "azimuthEnough", !.state = "scanHori",
              !.mode = "level", !.group = 0, !.level = FALSE, !.pitch = FALSE]
AzimuthEnough(o) ==
    [o EXCEPT !.step = "azimuthAimed", !.state = "aimHori",
              !.group = 0, !.level = TRUE, !.pitch = FALSE]
AzimuthAimed(o) ==
    [o EXCEPT !.step = "pitchEnough", !.state = "scanPitch",
              !.mode = "pitch", !.group = 0]
PitchEnough(o) ==
    [o EXCEPT !.step = "pitchAimed", !.state = "aimPitch",
              !.group = 0, !.pitch = TRUE]
PitchAimed(o) ==
    [o EXCEPT !.step = "aimed", !.state = "aim", !.group = 0]

\* Two samples at least, and not a full array, make a scan enough.
ScanLong(o) == o.group \in 2 .. CntMax - 1

Stepped(o, inBand, passes) ==
    CASE o.step = "enter" /\ inBand /\ admin -> Enter(o)
      [] o.step = "enter" /\ inBand /\ ~admin -> [o EXCEPT !.state = "eligible"]
      [] o.step = "enter" /\ ~inBand -> [o EXCEPT !.state = "ineligible"]
      [] o.step = "azimuthEnough" /\ passes /\ ScanLong(o) -> AzimuthEnough(o)
      [] o.step = "azimuthAimed" /\ passes -> AzimuthAimed(o)
      [] o.step = "pitchEnough" /\ passes /\ ScanLong(o) -> PitchEnough(o)
      [] o.step = "pitchAimed" /\ passes -> PitchAimed(o)
      [] OTHER -> o

\* OrientationProc::Proc with the angles read: entering holds one frequency,
\* and the Clear of a full scan lets FREQUENCY sweep again.
Proc(inBand, passes) ==
    LET entering == ori.step = "enter" /\ inBand /\ admin
        oldMode == IF entering THEN "level" ELSE ori.mode
        o == Stepped(ori, inBand, passes)
        full == Full(o, oldMode)
    IN  /\ ori' = SaveAngleInfo(o, oldMode)
        /\ freqQ' = freqQ \o (IF entering THEN <<"defined">> ELSE <<>>)
                          \o (IF full THEN <<"sweep">> ELSE <<>>)
        /\ admin' = (admin /\ ~full)

\* Mutant: FREQUENCY is not told to sweep again.
ClearKeepsFreq ==
    /\ ori' = Cleared(ori)
    /\ admin' = FALSE
    /\ UNCHANGED freqQ

Clear ==
    /\ ori' = Cleared(ori)
    /\ freqQ' = Append(freqQ, "sweep")
    /\ admin' = FALSE

KeepOri == UNCHANGED <<ori, freqQ, admin>>

----------------------------------------------------------------------------
(* Sensing: one frame of spectrum data.                                    *)

\* TARGET_WARNING goes out when the table fills and when it empties.
\* Mutant: the warning is not taken back.
TargetWarningOnly(old, new) ==
    IF DOMAIN old = {} /\ DOMAIN new # {} THEN <<"appear">> ELSE <<>>

TargetWarning(old, new) ==
    IF DOMAIN old = {} /\ DOMAIN new # {} THEN <<"appear">>
    ELSE IF DOMAIN old # {} /\ DOMAIN new = {} THEN <<"gone">>
    ELSE <<>>

\* RptController::Refresh: an emptied table is reported without delay.
\* Mutant: the interval is given up when the table fills.
RefreshSwapped(old, new) ==
    IF DOMAIN old = {} /\ DOMAIN new # {} THEN RptInterval ELSE rpt

Refresh(old, new) ==
    IF DOMAIN old # {} /\ DOMAIN new = {} THEN RptInterval ELSE rpt

\* _OnSpectrumCmd up to the work mode Sensing reads; the answer of the
\* sniffer has arrived by then, or is given up.
SensingBegin ==
    /\ sensing = Off /\ sysStatus = "detect"
    /\ Len(hbQ) + 2 <= MaxQueue /\ Len(freqQ) < MaxQueue
    /\ sensing' = workMode
    /\ UNCHANGED <<spectrumVars, hostVars, hbVars, freqVars, admin, clears,
                   told, sysStatus, counts>>

Seen(d) == IF d < RemainTimes THEN d + 1 ELSE d

\* The answer refreshes the response buffer; a call that fails leaves the
\* previous answer in it, and its result is not looked at.
SnifferAnswers(r) ==
    /\ resp' = r
    /\ unseen' = [d \in Drone |-> IF d \in DOMAIN r THEN 0 ELSE Seen(unseen[d])]
    /\ UNCHANGED counts
SnifferFails ==
    /\ counts.fail < MaxFail
    /\ counts' = [counts EXCEPT !.fail = @ + 1]
    /\ unseen' = [d \in Drone |-> Seen(unseen[d])]
    /\ UNCHANGED resp

InBand(t) == LET d == OrientAfter(t) IN d \in DOMAIN t /\ t[d].band

\* The rest of Sensing in a spectrum mode, gyro: the angles could be read.
SenseSpectrum(gyro, passes) ==
    LET t == Aged(Merged(infos, resp')) IN
    /\ sensing \in {Omni, Orie}
    /\ infos' = t
    /\ orient' = OrientAfter(t)
    /\ IF sensing = Orie
       THEN IF gyro THEN Proc(InBand(t), passes) ELSE KeepOri
       ELSE IF sensing # lastMode THEN Clear ELSE KeepOri
    /\ lastMode' = sensing
    /\ hbQ' = (IF sensing = Orie /\ gyro THEN Append(hbQ, ori'.state) ELSE hbQ)
                \o TargetWarning(infos, t)
    /\ rpt' = Refresh(infos, t)

SenseOther ==
    /\ sensing \notin {Omni, Orie}
    /\ infos' = <<>>
    /\ orient' = IF orient \in DOMAIN infos THEN Dangling ELSE orient
    /\ Clear
    /\ hbQ' = hbQ \o TargetWarning(infos, <<>>)
    /\ rpt' = Refresh(infos, <<>>)
    /\ UNCHANGED lastMode

SensingEnd(gyro, passes) ==
    /\ sensing # Off /\ sensing' = Off
    /\ SnifferFails \/ \E r \in Results : SnifferAnswers(r)
    /\ SenseSpectrum(gyro, passes) \/ SenseOther
    /\ UNCHANGED <<hostVars, target, workStatus, freqMode, clears, told,
                   sysStatus>>

\* The handler of CLEAR_ORIENTATE.
OnClearOrientateCmd ==
    /\ sensing = Off /\ clears > 0 /\ Len(freqQ) < MaxQueue
    /\ clears' = clears - 1
    /\ Clear
    /\ UNCHANGED <<infos, resp, orient, lastMode, rpt, unseen, hostVars,
                   hbVars, freqMode, sensing, told, sysStatus, counts>>

\* The report timer: no target is reported only every RptInterval times.
ReportSpectrumDroneInfo ==
    /\ sensing = Off
    /\ IF DOMAIN infos = {} /\ rpt < RptInterval
       THEN rpt' = rpt + 1 /\ UNCHANGED told
       ELSE rpt' = 0 /\ told' = (DOMAIN infos # {})
    /\ UNCHANGED <<infos, resp, orient, ori, lastMode, unseen, hostVars,
                   hbVars, freqVars, admin, sensing, clears, sysStatus, counts>>

----------------------------------------------------------------------------
(* The other threads.                                                      *)

Command ==
    /\ counts.cmd < MaxCmd
    /\ counts' = [counts EXCEPT !.cmd = @ + 1]
    /\ alink = Off

\* ALINK executes EnterOrientate itself and posts CLEAR_ORIENTATE.
EnterOrientate ==
    /\ Command /\ admin' = TRUE
    /\ UNCHANGED <<spectrumVars, hostVars, hbVars, freqVars, sensing, clears,
                   told, sysStatus>>
ExitOrientate ==
    /\ Command /\ clears' = clears + 1
    /\ UNCHANGED <<spectrumVars, hostVars, hbVars, freqVars, admin, sensing,
                   told, sysStatus>>

\* SetOrientationWorkMode posts the byte of the request to SYS, and then
\* writes the work mode the byte stands for.
SetOrientationMode(b) ==
    /\ Command
    /\ sysQ' = Append(sysQ, b)
    /\ alink' = IF b = 0 THEN Omni ELSE Orie
    /\ UNCHANGED <<spectrumVars, workMode, hbVars, freqVars, admin,
                   sensing, clears, told, sysStatus>>
WriteOrientationMode ==
    /\ alink # Off /\ alink' = Off
    /\ workMode' = alink
    /\ UNCHANGED <<spectrumVars, sysQ, hbVars, freqVars, admin, sensing,
                   clears, told, sysStatus, counts>>

OnSetWorkModeCmd ==
    /\ sysQ # <<>> /\ sysQ' = Tail(sysQ)
    /\ workMode' = Head(sysQ)
    /\ UNCHANGED <<spectrumVars, alink, hbVars, freqVars, admin,
                   sensing, clears, told, sysStatus, counts>>

\* Another detector; the same one is kept.
OnSetFrequencyModeCmd ==
    /\ freqQ # <<>> /\ freqQ' = Tail(freqQ)
    /\ freqMode' = Head(freqQ)
    /\ UNCHANGED <<spectrumVars, hostVars, hbVars, admin, sensing, clears,
                   told, sysStatus, counts>>

OnTargetWarning ==
    /\ hbQ # <<>> /\ Head(hbQ) \in {"appear", "gone"}
    /\ hbQ' = Tail(hbQ) /\ target' = Head(hbQ)
    /\ UNCHANGED <<spectrumVars, hostVars, workStatus, freqVars, admin, sensing,
                   clears, told, sysStatus, counts>>
OnRefreshWorkStatus ==
    /\ hbQ # <<>> /\ Head(hbQ) \notin {"appear", "gone"}
    /\ hbQ' = Tail(hbQ) /\ workStatus' = Head(hbQ)
    /\ UNCHANGED <<spectrumVars, hostVars, target, freqVars, admin, sensing,
                   clears, told, sysStatus, counts>>

\* The hit switch: SetSysStatus posts the status as the work state.
SetRFEnable(status) ==
    /\ counts.hit < MaxHit /\ status # sysStatus /\ Len(hbQ) <= MaxQueue
    /\ counts' = [counts EXCEPT !.hit = @ + 1]
    /\ sysStatus' = status
    /\ hbQ' = Append(hbQ, status)
    /\ UNCHANGED <<spectrumVars, hostVars, target, workStatus, freqVars, admin,
                   sensing, clears, told>>

Sensing == SensingBegin \/ \E gyro, passes \in BOOLEAN : SensingEnd(gyro, passes)
SpectrumThread == Sensing \/ OnClearOrientateCmd \/ ReportSpectrumDroneInfo
Alink == \/ EnterOrientate \/ ExitOrientate
         \/ \E b \in {0, 1} : SetOrientationMode(b)
         \/ WriteOrientationMode
HeartBeatThread == OnTargetWarning \/ OnRefreshWorkStatus

Next ==
    \/ SpectrumThread
    \/ Alink
    \/ OnSetWorkModeCmd
    \/ OnSetFrequencyModeCmd
    \/ HeartBeatThread
    \/ \E s \in {"detect", "hit"} : SetRFEnable(s)

\* Every thread goes on with the messages it has; frames keep coming, and
\* the angles can be read again and again.
Fairness ==
    /\ WF_vars(SensingBegin)
    /\ WF_vars(\E gyro, passes \in BOOLEAN : SensingEnd(gyro, passes))
    /\ SF_vars(\E passes \in BOOLEAN : SensingEnd(TRUE, passes))
    /\ WF_vars(OnClearOrientateCmd)
    /\ WF_vars(WriteOrientationMode) /\ WF_vars(OnSetWorkModeCmd)
    /\ WF_vars(OnSetFrequencyModeCmd) /\ WF_vars(HeartBeatThread)

Spec == Init /\ [][Next]_vars
LiveSpec == Spec /\ Fairness

----------------------------------------------------------------------------
(* Properties.                                                             *)

\* Every variable holds a value of the type the source declares.
TypeOK ==
    /\ {workMode, lastMode} \subseteq Mode
    /\ DOMAIN infos \subseteq Drone
    /\ \A d \in DOMAIN infos :
        infos[d] \in [amp : Amps, band : BOOLEAN, left : 1 .. RemainTimes]
    /\ resp \in Results
    /\ orient \in Drone \cup {NoDrone, Dangling}
    /\ ori \in [step : Steps, state : States, mode : {"none", "level", "pitch"},
               group : 0 .. CntMax,
               level : BOOLEAN, pitch : BOOLEAN]
    /\ {admin, told} \subseteq BOOLEAN
    /\ {sensing, alink} \subseteq Mode \cup {Off}
    /\ clears \in Nat
    /\ freqQ \in Seq({"sweep", "defined"}) /\ freqMode \in {"sweep", "defined"}
    /\ hbQ \in Seq(States \cup {"hit", "appear", "gone"})
    /\ target \in {"appear", "gone"} /\ workStatus \in States \cup {"hit"}
    /\ rpt \in 0 .. RptInterval
    /\ sysStatus \in {"detect", "hit"}
    /\ sysQ \in Seq({0, 1})
    /\ counts \in [cmd : Nat, hit : Nat, fail : Nat]
    /\ unseen \in [Drone -> 0 .. RemainTimes]

IsWarning(m) == m \in {"appear", "gone"}

\* What HEARTBEAT holds when it has emptied its queue.
LastWarning ==
    LET Warnings == {i \in 1 .. Len(hbQ) : IsWarning(hbQ[i])}
        last == CHOOSE i \in Warnings : \A j \in Warnings : j <= i
    IN  IF Warnings = {} THEN target ELSE hbQ[last]

\* The warnings follow the table: whatever refreshed, aged or cleared it,
\* the last warning HEARTBEAT was sent says whether it lists a drone.
WarningFollowsTable == (LastWarning = "appear") <=> (DOMAIN infos # {})

LastFreqMode == IF freqQ = <<>> THEN freqMode ELSE freqQ[Len(freqQ)]

\* FREQUENCY holds one frequency exactly while direction finding is on,
\* however it ended: a full scan, a change of mode or the operator's exit.
FreqFollowsOrientation == (LastFreqMode = "defined") <=> (ori.step # "enter")

\* The host that was told of drones is told at the next report that they are
\* gone: the report of an empty table is not put off.
EmptyReportedAtOnce == DOMAIN infos = {} /\ told => rpt >= RptInterval

\* "Not detected in three rounds of frequencies counts as gone": as long as
\* the sniffer answers, a drone in the table was in an answer of it less than
\* RemainTimes frames ago.
GoneAfterThreeRounds ==
    counts.fail = 0 => \A d \in DOMAIN infos : unseen[d] < RemainTimes

\* The drone direction finding goes on with is one of the table: it has not
\* counted as gone.
OrientedDroneKnown ==
    ~IsOpenOrientation(ori) => orient \in DOMAIN infos

\* Direction finding ends by itself: a step that is never passed fills its
\* scan, and so does the last one; only a hit suspends it.
OrientationEnds ==
    ori.step # "enter" ~> (ori.step = "enter" \/ sysStatus = "hit")

=============================================================================
