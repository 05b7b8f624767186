------------------------ MODULE SpectrumOrient_proofs ------------------------
(***************************************************************************)
(* The spectrum for every number of drones, scan length and bound: the     *)
(* types, FREQUENCY holds one frequency exactly while direction finding is *)
(* on, no bearing is used that was not found, the warnings and the reports *)
(* follow the table, and no drone stays in it that the sniffer has not     *)
(* answered with for RemainTimes frames.                                   *)
(***************************************************************************)
EXTENDS SpectrumOrient, WellFoundedInduction, TLAPS

Ori == [step : Steps, state : States, mode : {"none", "level", "pitch"},
        group : Nat, level : BOOLEAN, pitch : BOOLEAN]
FreqMode == {"sweep", "defined"}

\* The types the arguments below need.
OriType == /\ ori \in Ori
           /\ freqQ \in Seq(FreqMode) /\ freqMode \in FreqMode

----------------------------------------------------------------------------
(* The queue of FREQUENCY.                                                 *)

\* A message that is appended is the last one.
LEMMA LastAppended ==
  ASSUME NEW q \in Seq(FreqMode), NEW m \in FreqMode
  PROVE  LET a == Append(q, m) IN
         a \in Seq(FreqMode) /\ a # <<>> /\ a[Len(a)] = m
  OBVIOUS

LEMMA ConcatOne ==
  ASSUME NEW q \in Seq(FreqMode), NEW m \in FreqMode
  PROVE  q \o <<m>> = Append(q, m) /\ q \o <<>> = q
  OBVIOUS

\* The handler takes the first message; the last one stays the last, or has
\* become the detector in use.
LEMMA LastHandled ==
  ASSUME OriType, OnSetFrequencyModeCmd
  PROVE  LastFreqMode' = LastFreqMode /\ freqQ' \in Seq(FreqMode) /\ freqMode' \in FreqMode
<1>1. freqQ # <<>> /\ freqQ' = Tail(freqQ) /\ freqMode' = Head(freqQ) /\ freqQ \in Seq(FreqMode)
  BY DEF OriType, OnSetFrequencyModeCmd
<1>2. freqQ' \in Seq(FreqMode) /\ freqMode' \in FreqMode
  BY <1>1
<1>3. CASE Len(freqQ) = 1
  BY <1>1, <1>3 DEF LastFreqMode
<1>4. CASE Len(freqQ) # 1
  <2>1. Len(freqQ) > 1
    <3>1. Len(freqQ) \in Nat
      BY <1>1
    <3>2. Len(freqQ) # 0
      BY <1>1
    <3> QED BY <1>4, <3>1, <3>2
  <2>2. Len(Tail(freqQ)) = Len(freqQ) - 1
    BY <1>1
  <2>2b. Tail(freqQ) # <<>>
    <3>1. Len(Tail(freqQ)) > 0
      BY <2>1, <2>2, <1>1
    <3>2. Len(<<>>) = 0
      OBVIOUS
    <3> QED BY <3>1, <3>2
  <2>3. Tail(freqQ)[Len(freqQ) - 1] = freqQ[Len(freqQ)]
    <3>1. Len(freqQ) \in Nat
      BY <1>1
    <3>2. Len(freqQ) - 1 \in 1 .. Len(freqQ) - 1 /\ (Len(freqQ) - 1) + 1 = Len(freqQ)
      BY <2>1, <3>1
    <3>3. \A i \in 1 .. Len(freqQ) - 1 : Tail(freqQ)[i] = freqQ[i + 1]
      BY <1>1
    <3> QED BY <3>2, <3>3
  <2> QED BY <1>1, <2>2, <2>2b, <2>3 DEF LastFreqMode
<1> QED BY <1>2, <1>3, <1>4

----------------------------------------------------------------------------
(* Direction finding.                                                      *)

OriFound(o) ==
    /\ o.step \in {"azimuthAimed", "pitchEnough"} => o.level /\ ~o.pitch
    /\ o.step \in {"pitchAimed", "aimed"} => o.level /\ o.pitch

LEMMA ClearedFacts ==
  ASSUME NEW o \in Ori
  PROVE  Cleared(o) \in Ori /\ Cleared(o).step = "enter" /\ OriFound(Cleared(o))
  BY DEF Cleared, Ori, OriFound, Steps, States, OpenStates

\* What each step assigns.
LEMMA StepFields ==
  ASSUME NEW o \in Ori
  PROVE  /\ Enter(o) \in Ori /\ Enter(o).step = "azimuthEnough"
         /\ AzimuthEnough(o) \in Ori /\ AzimuthEnough(o).step = "azimuthAimed"
         /\ AzimuthAimed(o) \in Ori /\ AzimuthAimed(o).step = "pitchEnough"
         /\ PitchEnough(o) \in Ori /\ PitchEnough(o).step = "pitchAimed"
         /\ PitchAimed(o) \in Ori /\ PitchAimed(o).step = "aimed"
         /\ Enter(o).group = 0
         /\ AzimuthEnough(o).level /\ ~AzimuthEnough(o).pitch
         /\ (AzimuthAimed(o).level <=> o.level) /\ (AzimuthAimed(o).pitch <=> o.pitch)
         /\ (PitchEnough(o).level <=> o.level) /\ PitchEnough(o).pitch
         /\ (PitchAimed(o).level <=> o.level) /\ (PitchAimed(o).pitch <=> o.pitch)
<1>1a. Enter(o) \in Ori
  BY DEF Enter, Ori, Steps, States, OpenStates
<1>1b. Enter(o).step = "azimuthEnough" /\ Enter(o).group = 0
  BY DEF Enter, Ori
<1>2a. AzimuthEnough(o) \in Ori
  BY DEF AzimuthEnough, Ori, Steps, States, OpenStates
<1>2b. AzimuthEnough(o).step = "azimuthAimed" /\ AzimuthEnough(o).group = 0
  BY DEF AzimuthEnough, Ori
<1>2c. AzimuthEnough(o).level /\ ~AzimuthEnough(o).pitch
  BY DEF AzimuthEnough, Ori
<1>3a. AzimuthAimed(o) \in Ori
  BY DEF AzimuthAimed, Ori, Steps, States, OpenStates
<1>3b. AzimuthAimed(o).step = "pitchEnough" /\ AzimuthAimed(o).group = 0
  BY DEF AzimuthAimed, Ori
<1>3c. (AzimuthAimed(o).level <=> o.level) /\ (AzimuthAimed(o).pitch <=> o.pitch)
  BY DEF AzimuthAimed, Ori
<1>4a. PitchEnough(o) \in Ori
  BY DEF PitchEnough, Ori, Steps, States, OpenStates
<1>4b. PitchEnough(o).step = "pitchAimed" /\ PitchEnough(o).group = 0
  BY DEF PitchEnough, Ori
<1>4c. (PitchEnough(o).level <=> o.level) /\ PitchEnough(o).pitch
  BY DEF PitchEnough, Ori
<1>5a. PitchAimed(o) \in Ori
  BY DEF PitchAimed, Ori, Steps, States, OpenStates
<1>5b. PitchAimed(o).step = "aimed" /\ PitchAimed(o).group = 0
  BY DEF PitchAimed, Ori
<1>5c. (PitchAimed(o).level <=> o.level) /\ (PitchAimed(o).pitch <=> o.pitch)
  BY DEF PitchAimed, Ori
<1> QED BY <1>1a, <1>1b, <1>2a, <1>2b, <1>2c, <1>3a, <1>3b, <1>3c, <1>4a, <1>4b, <1>4c, <1>5a, <1>5b, <1>5c

\* A step forward keeps what was found and never leads back to the first one.
LEMMA SteppedFacts ==
  ASSUME NEW o \in Ori, OriFound(o), NEW inBand \in BOOLEAN, NEW passes \in BOOLEAN
  PROVE  LET n == Stepped(o, inBand, passes) IN
         /\ n \in Ori /\ OriFound(n)
         /\ n.step = "enter" <=> o.step = "enter" /\ ~(inBand /\ admin)
         /\ o.step = "enter" /\ inBand /\ admin => n.group = 0
<1> DEFINE n == Stepped(o, inBand, passes)
<1>1. CASE n = o /\ o.step # "enter"
  BY <1>1
<1>2. CASE o.step = "enter" /\ inBand /\ admin /\ n = Enter(o)
  <2>1. Enter(o) \in Ori /\ Enter(o).step = "azimuthEnough" /\ Enter(o).group = 0
    BY StepFields
  <2>2. OriFound(Enter(o))
    BY <2>1 DEF OriFound
  <2>3. n.step # "enter"
    BY <1>2, <2>1
  <2> QED BY <1>2, <2>1, <2>2, <2>3
<1>3. CASE o.step = "enter" /\ ~(inBand /\ admin)
           /\ (n = [o EXCEPT !.state = "eligible"] \/ n = [o EXCEPT !.state = "ineligible"])
  BY <1>3 DEF Ori, OriFound, Steps, States, OpenStates
<1>4. CASE o.step = "azimuthEnough" /\ n = AzimuthEnough(o)
  BY <1>4, StepFields DEF OriFound
<1>5. CASE o.step = "azimuthAimed" /\ n = AzimuthAimed(o)
  BY <1>5, StepFields DEF OriFound
<1>6. CASE o.step = "pitchEnough" /\ n = PitchEnough(o)
  BY <1>6, StepFields DEF OriFound
<1>7. CASE o.step = "pitchAimed" /\ n = PitchAimed(o)
  BY <1>7, StepFields DEF OriFound
<1>8. \/ n = o /\ o.step # "enter"
      \/ o.step = "enter" /\ inBand /\ admin /\ n = Enter(o)
      \/ o.step = "enter" /\ ~(inBand /\ admin)
           /\ (n = [o EXCEPT !.state = "eligible"] \/ n = [o EXCEPT !.state = "ineligible"])
      \/ o.step = "azimuthEnough" /\ n = AzimuthEnough(o)
      \/ o.step = "azimuthAimed" /\ n = AzimuthAimed(o)
      \/ o.step = "pitchEnough" /\ n = PitchEnough(o)
      \/ o.step = "pitchAimed" /\ n = PitchAimed(o)
  BY DEF Stepped
<1> QED BY <1>1, <1>2, <1>3, <1>4, <1>5, <1>6, <1>7, <1>8

\* Saving a sample changes the step only when the scan is full.
LEMMA SaveFacts ==
  ASSUME NEW o \in Ori, OriFound(o), NEW m \in {"none", "level", "pitch"}
  PROVE  LET n == SaveAngleInfo(o, m) IN
         /\ n \in Ori /\ OriFound(n)
         /\ Full(o, m) => n.step = "enter"
         /\ ~Full(o, m) => n.step = o.step
<1>1. CASE m = "none"
  BY <1>1 DEF SaveAngleInfo, Full, Ori, OriFound
<1>2. CASE m # "none" /\ ~Full(o, m)
  <2>1. SaveAngleInfo(o, m) = [o EXCEPT !.group = @ + 1]
    BY <1>2 DEF SaveAngleInfo
  <2>4. o.group + 1 \in Nat
    BY DEF Ori
  <2>2. SaveAngleInfo(o, m) \in Ori
    BY <2>1, <2>4 DEF Ori
  <2>3. /\ SaveAngleInfo(o, m).step = o.step
        /\ SaveAngleInfo(o, m).level = o.level /\ SaveAngleInfo(o, m).pitch = o.pitch
    BY <2>1 DEF Ori
  <2> QED BY <1>2, <2>2, <2>3 DEF OriFound
<1>3. CASE m # "none" /\ Full(o, m)
  <2>1. SaveAngleInfo(o, m) =
          [Cleared(o) EXCEPT !.group = 0,
                             !.level = m = "level", !.pitch = m = "pitch"]
    BY <1>3 DEF SaveAngleInfo
  <2>2. Cleared(o) \in Ori /\ Cleared(o).step = "enter"
    BY ClearedFacts
  <2>3. SaveAngleInfo(o, m).step = "enter"
    BY <2>1, <2>2 DEF Ori
  <2>4. ASSUME NEW c \in Ori, NEW a \in BOOLEAN, NEW b \in BOOLEAN
        PROVE  [c EXCEPT !.group = 0, !.level = a, !.pitch = b] \in Ori
    BY DEF Ori
  <2>5. SaveAngleInfo(o, m) \in Ori
    BY <2>1, <2>2, <2>4
  <2> QED BY <1>3, <2>3, <2>5 DEF OriFound
<1> QED BY <1>1, <1>2, <1>3

----------------------------------------------------------------------------
(* The invariant.                                                          *)

\* A bearing is used only after it was computed in this direction finding.
AimedMeansFound ==
    /\ ori.step \in {"azimuthAimed", "pitchEnough"} => ori.level /\ ~ori.pitch
    /\ ori.step \in {"pitchAimed", "aimed"} => ori.level /\ ori.pitch

OriInv == OriType /\ FreqFollowsOrientation /\ AimedMeansFound

LEMMA OriInit == Init => OriInv
  BY DEF Init, OriInv, OriType, Ori, FreqMode, Steps, States, OpenStates,
         FreqFollowsOrientation, LastFreqMode, AimedMeansFound

\* Clear ends direction finding and lets FREQUENCY sweep.
LEMMA ClearKeeps ==
  ASSUME OriInv, Clear, freqMode' = freqMode
  PROVE  OriInv'
<1>1. ori' \in Ori /\ ori'.step = "enter" /\ OriFound(ori')
  BY ClearedFacts DEF OriInv, OriType, Clear
<1>2. freqQ' = Append(freqQ, "sweep") /\ "sweep" \in FreqMode /\ freqQ \in Seq(FreqMode)
  BY DEF Clear, OriInv, OriType, FreqMode
<1>3. freqQ' \in Seq(FreqMode) /\ freqQ' # <<>> /\ freqQ'[Len(freqQ')] = "sweep"
  BY <1>2, LastAppended
<1> QED BY <1>1, <1>3 DEF OriInv, OriType, OriFound, FreqFollowsOrientation,
                          LastFreqMode, AimedMeansFound

\* A frame in the orienting mode: entering appends "defined", a full scan
\* appends "sweep", and not both happen in one frame.
LEMMA ProcKeeps ==
  ASSUME OriInv, NEW inBand \in BOOLEAN, NEW passes \in BOOLEAN,
         Proc(inBand, passes), freqMode' = freqMode
  PROVE  OriInv'
<1> DEFINE entering == ori.step = "enter" /\ inBand /\ admin
           oldMode == IF entering THEN "level" ELSE ori.mode
           o == Stepped(ori, inBand, passes)
           full == Full(o, oldMode)
<1>1. /\ ori' = SaveAngleInfo(o, oldMode)
      /\ freqQ' = freqQ \o (IF entering THEN <<"defined">> ELSE <<>>)
                        \o (IF full THEN <<"sweep">> ELSE <<>>)
  BY DEF Proc
<1>2. ori \in Ori /\ OriFound(ori) /\ freqQ \in Seq(FreqMode) /\ freqMode \in FreqMode
  BY DEF OriInv, OriType, AimedMeansFound, OriFound
<1>3. /\ o \in Ori /\ OriFound(o)
      /\ o.step = "enter" <=> ori.step = "enter" /\ ~entering
      /\ entering => o.group = 0
  BY <1>2, SteppedFacts
<1>4. oldMode \in {"none", "level", "pitch"}
  BY <1>2 DEF Ori
<1>5. /\ ori' \in Ori /\ OriFound(ori')
      /\ full => ori'.step = "enter"
      /\ ~full => ori'.step = o.step
  BY <1>1, <1>3, <1>4, SaveFacts
<1>6. entering => ~full
  <2>1. CntMax \in Nat
    BY SpectrumAssumption
  <2>4. CntMax > 0
    BY SpectrumAssumption
  <2> SUFFICES ASSUME entering PROVE ~full
    OBVIOUS
  <2>2. o.group = 0
    BY <1>3
  <2>3. ~(o.group >= CntMax)
    <3>1. ~(0 >= CntMax)
      BY <2>1, <2>4
    <3> QED BY <2>2, <3>1
  <2> QED BY <2>3 DEF Full
<1>7. FreqMode = {"sweep", "defined"}
  BY DEF FreqMode
<1>8. CASE entering
  <2>1. freqQ' = Append(freqQ, "defined")
    <3>1. freqQ \o <<"defined">> = Append(freqQ, "defined")
      BY <1>2, <1>7, ConcatOne
    <3>2. Append(freqQ, "defined") \o <<>> = Append(freqQ, "defined")
      BY <1>2, <1>7, ConcatOne, LastAppended
    <3> QED BY <1>1, <1>6, <1>8, <3>1, <3>2
  <2>2. freqQ' \in Seq(FreqMode) /\ freqQ' # <<>> /\ freqQ'[Len(freqQ')] = "defined"
    BY <1>2, <1>7, <2>1, LastAppended
  <2> QED BY <1>2, <1>3, <1>5, <1>6, <1>8, <2>2
          DEF OriInv, OriType, OriFound, FreqFollowsOrientation, LastFreqMode, AimedMeansFound
<1>9. CASE ~entering /\ full
  <2>1. freqQ' = Append(freqQ, "sweep")
    BY <1>1, <1>2, <1>7, <1>9, ConcatOne
  <2>2. freqQ' \in Seq(FreqMode) /\ freqQ' # <<>> /\ freqQ'[Len(freqQ')] = "sweep"
    BY <1>2, <1>7, <2>1, LastAppended
  <2> QED BY <1>2, <1>5, <1>9, <2>2
          DEF OriInv, OriType, OriFound, FreqFollowsOrientation, LastFreqMode, AimedMeansFound
<1>10. CASE ~entering /\ ~full
  <2>1. freqQ' = freqQ
    BY <1>1, <1>2, <1>7, <1>10, ConcatOne
  <2>2. ori'.step = "enter" <=> ori.step = "enter"
    BY <1>3, <1>5, <1>10
  <2> QED BY <1>2, <1>5, <2>1, <2>2
          DEF OriInv, OriType, OriFound, FreqFollowsOrientation, LastFreqMode, AimedMeansFound
<1> QED BY <1>8, <1>9, <1>10

\* A step that leaves direction finding and the queue alone.
LEMMA OriUnchanged ==
  ASSUME OriInv, UNCHANGED <<ori, freqQ, freqMode>>
  PROVE  OriInv'
  BY DEF OriInv, OriType, FreqFollowsOrientation, LastFreqMode, AimedMeansFound

LEMMA SensingKeeps ==
  ASSUME OriInv, NEW gyro \in BOOLEAN, NEW passes \in BOOLEAN, SensingEnd(gyro, passes)
  PROVE  OriInv'
<1>1. freqMode' = freqMode /\ (SenseSpectrum(gyro, passes) \/ SenseOther)
  BY DEF SensingEnd
<1>2. CASE SenseOther
  BY <1>1, <1>2, ClearKeeps DEF SenseOther
<1>3. CASE SenseSpectrum(gyro, passes)
  <2> DEFINE t == Aged(Merged(infos, resp'))
  <2>1. InBand(t) \in BOOLEAN
    BY DEF InBand
  <2>2. Proc(InBand(t), passes) \/ Clear \/ KeepOri
    BY <1>3 DEF SenseSpectrum
  <2> QED BY <1>1, <2>1, <2>2, ProcKeeps, ClearKeeps, OriUnchanged DEF KeepOri
<1> QED BY <1>1, <1>2, <1>3

LEMMA OriNext == OriInv /\ [Next]_vars => OriInv'
<1> SUFFICES ASSUME OriInv, [Next]_vars
             PROVE  OriInv'
  OBVIOUS
<1>1. CASE Sensing
  <2>1. CASE SensingBegin
    BY <2>1, OriUnchanged DEF SensingBegin, spectrumVars, freqVars
  <2> QED BY <1>1, <2>1, SensingKeeps DEF Sensing
<1>2. CASE OnClearOrientateCmd
  BY <1>2, ClearKeeps DEF OnClearOrientateCmd
<1>3. CASE OnSetFrequencyModeCmd
  <2>1. OriType
    BY DEF OriInv
  <2>2. LastFreqMode' = LastFreqMode /\ freqQ' \in Seq(FreqMode) /\ freqMode' \in FreqMode
    BY <1>3, <2>1, LastHandled
  <2>3. ori' = ori
    BY <1>3 DEF OnSetFrequencyModeCmd, spectrumVars
  <2> QED BY <2>2, <2>3 DEF OriInv, OriType, FreqFollowsOrientation, AimedMeansFound
<1>4. CASE ReportSpectrumDroneInfo \/ Alink \/ OnSetWorkModeCmd \/ HeartBeatThread
           \/ \E s \in {"detect", "hit"} : SetRFEnable(s)
  <2>1. UNCHANGED <<ori, freqQ, freqMode>>
    BY <1>4 DEF ReportSpectrumDroneInfo, Alink, EnterOrientate, ExitOrientate,
        SetOrientationMode, WriteOrientationMode, OnSetWorkModeCmd, HeartBeatThread,
        OnTargetWarning, OnRefreshWorkStatus, SetRFEnable, spectrumVars, freqVars
  <2> QED BY <2>1, OriUnchanged
<1>5. CASE UNCHANGED vars
  BY <1>5, OriUnchanged DEF vars, spectrumVars, freqVars
<1> QED BY <1>1, <1>2, <1>3, <1>4, <1>5 DEF Next, SpectrumThread

----------------------------------------------------------------------------
(* The modes and the reports.                                              *)

\* Direction finding is on only after a frame in the orienting mode, so that
\* the frame that finds another mode ends it.
OnlyOrieOrients == ori.step # "enter" => lastMode = Orie

LEMMA ModesDiffer == Omni # Orie
  BY DEF Omni, Orie

LEMMA OrieNext == OriInv /\ OnlyOrieOrients /\ [Next]_vars => OnlyOrieOrients'
<1> SUFFICES ASSUME OriInv, OnlyOrieOrients, [Next]_vars
             PROVE  OnlyOrieOrients'
  OBVIOUS
<1>1. ASSUME Clear PROVE OnlyOrieOrients'
  <2>1. ori'.step = "enter"
    BY <1>1, ClearedFacts DEF OriInv, OriType, Clear
  <2> QED BY <2>1 DEF OnlyOrieOrients
<1>2. ASSUME UNCHANGED <<ori, lastMode>> PROVE OnlyOrieOrients'
  BY <1>2 DEF OnlyOrieOrients
<1>3. ASSUME NEW gyro \in BOOLEAN, NEW passes \in BOOLEAN, SensingEnd(gyro, passes)
      PROVE  OnlyOrieOrients'
  <2>1. CASE SenseOther
    BY <1>1, <2>1 DEF SenseOther
  <2>2. CASE SenseSpectrum(gyro, passes) /\ sensing = Orie
    BY <2>2 DEF SenseSpectrum, OnlyOrieOrients
  <2>3. CASE SenseSpectrum(gyro, passes) /\ sensing # Orie
    <3>1. sensing = Omni /\ lastMode' = Omni
      BY <2>3 DEF SenseSpectrum
    <3>2. CASE sensing # lastMode
      BY <1>1, <2>3, <3>2 DEF SenseSpectrum
    <3>3. CASE sensing = lastMode
      <4>1. UNCHANGED <<ori, lastMode>>
        BY <2>3, <3>1, <3>3 DEF SenseSpectrum, KeepOri
      <4> QED BY <1>2, <4>1
    <3> QED BY <3>2, <3>3
  <2> QED BY <1>3, <2>1, <2>2, <2>3 DEF SensingEnd
<1>4. CASE Sensing
  <2>1. CASE SensingBegin
    BY <1>2, <2>1 DEF SensingBegin, spectrumVars
  <2> QED BY <1>3, <1>4, <2>1 DEF Sensing
<1>5. CASE OnClearOrientateCmd
  BY <1>1, <1>5 DEF OnClearOrientateCmd
<1>6. CASE \/ ReportSpectrumDroneInfo \/ Alink \/ OnSetWorkModeCmd
           \/ OnSetFrequencyModeCmd \/ HeartBeatThread
           \/ \E s \in {"detect", "hit"} : SetRFEnable(s)
  <2>1. UNCHANGED <<ori, lastMode>>
    BY <1>6 DEF ReportSpectrumDroneInfo, Alink, EnterOrientate, ExitOrientate,
        SetOrientationMode, WriteOrientationMode, OnSetWorkModeCmd,
        OnSetFrequencyModeCmd, HeartBeatThread, OnTargetWarning,
        OnRefreshWorkStatus, SetRFEnable, spectrumVars
  <2> QED BY <1>2, <2>1
<1>7. CASE UNCHANGED vars
  BY <1>2, <1>7 DEF vars, spectrumVars
<1> QED BY <1>4, <1>5, <1>6, <1>7 DEF Next, SpectrumThread

ReportInv == rpt \in Nat /\ EmptyReportedAtOnce

\* A frame that leaves the table empty either found it empty, and changes
\* nothing of the report, or gives up the interval.
LEMMA RefreshKeeps ==
  ASSUME ReportInv, NEW t, infos' = t, rpt' = Refresh(infos, t), told' = told
  PROVE  ReportInv'
<1>1. CASE DOMAIN infos # {} /\ DOMAIN t = {}
  <2>1. rpt' = RptInterval
    BY <1>1 DEF Refresh
  <2>2. RptInterval \in Nat
    BY SpectrumAssumption
  <2>3. RptInterval >= RptInterval
    BY <2>2
  <2> QED BY <2>1, <2>2, <2>3 DEF ReportInv, EmptyReportedAtOnce
<1>2. CASE DOMAIN infos = {} \/ DOMAIN t # {}
  <2>1. rpt' = rpt
    BY <1>2 DEF Refresh
  <2> QED BY <1>2, <2>1 DEF ReportInv, EmptyReportedAtOnce
<1> QED BY <1>1, <1>2

LEMMA ReportNext == ReportInv /\ [Next]_vars => ReportInv'
<1> SUFFICES ASSUME ReportInv, [Next]_vars
             PROVE  ReportInv'
  OBVIOUS
<1>1. ASSUME UNCHANGED <<infos, told, rpt>> PROVE ReportInv'
  BY <1>1 DEF ReportInv, EmptyReportedAtOnce
<1>2. ASSUME NEW gyro \in BOOLEAN, NEW passes \in BOOLEAN, SensingEnd(gyro, passes)
      PROVE  ReportInv'
  <2>1. told' = told
    BY <1>2 DEF SensingEnd
  <2>2. CASE SenseOther
    BY <2>1, <2>2, RefreshKeeps DEF SenseOther
  <2>3. CASE SenseSpectrum(gyro, passes)
    BY <2>1, <2>3, RefreshKeeps DEF SenseSpectrum
  <2> QED BY <1>2, <2>2, <2>3 DEF SensingEnd
<1>3. CASE Sensing
  <2>1. CASE SensingBegin
    BY <1>1, <2>1 DEF SensingBegin, spectrumVars
  <2> QED BY <1>2, <1>3, <2>1 DEF Sensing
<1>4. CASE ReportSpectrumDroneInfo
  <2>1. infos' = infos
    BY <1>4 DEF ReportSpectrumDroneInfo
  <2>2. CASE DOMAIN infos = {} /\ rpt < RptInterval
    <3>1. told' = told /\ rpt' = rpt + 1
      BY <1>4, <2>2 DEF ReportSpectrumDroneInfo
    <3>2. rpt \in Nat /\ RptInterval \in Nat
      BY SpectrumAssumption DEF ReportInv
    <3>3. ~(rpt >= RptInterval)
      BY <2>2, <3>2
    <3>4. ~told
      BY <2>2, <3>3 DEF ReportInv, EmptyReportedAtOnce
    <3>5. rpt' \in Nat
      BY <3>1, <3>2
    <3> QED BY <3>1, <3>4, <3>5 DEF ReportInv, EmptyReportedAtOnce
  <2>3. CASE ~(DOMAIN infos = {} /\ rpt < RptInterval)
    <3>1. rpt' = 0 /\ told' = (DOMAIN infos # {})
      BY <1>4, <2>3 DEF ReportSpectrumDroneInfo
    <3>2. DOMAIN infos' = {} => ~told'
      BY <2>1, <3>1
    <3>3. rpt' \in Nat
      BY <3>1
    <3> QED BY <3>2, <3>3 DEF ReportInv, EmptyReportedAtOnce
  <2> QED BY <2>2, <2>3
<1>5. CASE \/ OnClearOrientateCmd \/ Alink \/ OnSetWorkModeCmd
           \/ OnSetFrequencyModeCmd \/ HeartBeatThread
           \/ \E s \in {"detect", "hit"} : SetRFEnable(s)
  <2>1. UNCHANGED <<infos, told, rpt>>
    BY <1>5 DEF OnClearOrientateCmd, Alink, EnterOrientate, ExitOrientate,
        SetOrientationMode, WriteOrientationMode, OnSetWorkModeCmd,
        OnSetFrequencyModeCmd, HeartBeatThread, OnTargetWarning,
        OnRefreshWorkStatus, SetRFEnable, spectrumVars
  <2> QED BY <1>1, <2>1
<1>6. CASE UNCHANGED vars
  BY <1>1, <1>6 DEF vars, spectrumVars
<1> QED BY <1>3, <1>4, <1>5, <1>6 DEF Next, SpectrumThread

----------------------------------------------------------------------------
(* The warnings of the table.                                              *)

HbMsg == States \cup {"hit", "appear", "gone"}

\* The last warning of queue q is w, or q has none and t is w.
LastIs(q, t, w) ==
    \/ \E k \in 1 .. Len(q) : /\ q[k] = w /\ IsWarning(q[k])
                              /\ \A j \in k + 1 .. Len(q) : ~IsWarning(q[j])
    \/ (\A j \in 1 .. Len(q) : ~IsWarning(q[j])) /\ t = w

\* There is one last warning: the definition by CHOOSE finds it.
LEMMA LastIsLast ==
  ASSUME NEW w, hbQ \in Seq(HbMsg), LastIs(hbQ, target, w)
  PROVE  LastWarning = w
<1> DEFINE Warnings == {i \in 1 .. Len(hbQ) : IsWarning(hbQ[i])}
           last == CHOOSE i \in Warnings : \A j \in Warnings : j <= i
<1>1. CASE (\A j \in 1 .. Len(hbQ) : ~IsWarning(hbQ[j])) /\ target = w
  <2>1. Warnings = {}
    BY <1>1
  <2> QED BY <1>1, <2>1 DEF LastWarning
<1>2. CASE \E k \in 1 .. Len(hbQ) : /\ hbQ[k] = w /\ IsWarning(hbQ[k])
                                    /\ \A j \in k + 1 .. Len(hbQ) : ~IsWarning(hbQ[j])
  <2>1. PICK k \in 1 .. Len(hbQ) : /\ hbQ[k] = w /\ IsWarning(hbQ[k])
                                   /\ \A j \in k + 1 .. Len(hbQ) : ~IsWarning(hbQ[j])
    BY <1>2
  <2>2. Len(hbQ) \in Nat
    OBVIOUS
  <2>3. k \in Warnings
    BY <2>1
  <2>4. \A j \in Warnings : j <= k
    <3> SUFFICES ASSUME NEW j \in 1 .. Len(hbQ), IsWarning(hbQ[j]) PROVE j <= k
      OBVIOUS
    <3>1. j \notin k + 1 .. Len(hbQ)
      BY <2>1
    <3> QED BY <2>2, <3>1
  <2>5. last \in Warnings /\ \A j \in Warnings : j <= last
    BY <2>3, <2>4
  <2>6. last = k
    <3>1. last <= k /\ k <= last
      BY <2>3, <2>4, <2>5
    <3>2. last \in Int /\ k \in Int
      BY <2>2, <2>5
    <3> HIDE DEF last
    <3> QED BY <3>1, <3>2
  <2>7. LastWarning = hbQ[last]
    BY <2>3 DEF LastWarning
  <2> QED BY <2>1, <2>6, <2>7
<1> QED BY <1>1, <1>2 DEF LastIs

LEMMA AppendPlain ==
  ASSUME NEW q \in Seq(HbMsg), NEW m \in HbMsg, NEW t, NEW w,
         ~IsWarning(m), LastIs(q, t, w)
  PROVE  LastIs(Append(q, m), t, w)
<1> DEFINE a == Append(q, m)
<1>1. /\ Len(q) \in Nat /\ Len(a) = Len(q) + 1 /\ a[Len(q) + 1] = m
      /\ \A i \in 1 .. Len(q) : a[i] = q[i]
  OBVIOUS
<1> HIDE DEF a
<1>2. CASE (\A j \in 1 .. Len(q) : ~IsWarning(q[j])) /\ t = w
  <2>1. ASSUME NEW j \in 1 .. Len(a) PROVE ~IsWarning(a[j])
    <3>1. j \in 1 .. Len(q) \/ j = Len(q) + 1
      BY <1>1
    <3> QED BY <1>1, <1>2, <3>1
  <2> QED BY <1>2, <2>1 DEF LastIs, a
<1>3. CASE \E k \in 1 .. Len(q) : /\ q[k] = w /\ IsWarning(q[k])
                                  /\ \A j \in k + 1 .. Len(q) : ~IsWarning(q[j])
  <2>1. PICK k \in 1 .. Len(q) : /\ q[k] = w /\ IsWarning(q[k])
                                 /\ \A j \in k + 1 .. Len(q) : ~IsWarning(q[j])
    BY <1>3
  <2>2. k \in 1 .. Len(a) /\ a[k] = w /\ IsWarning(a[k])
    <3>1. k \in 1 .. Len(a)
      BY <1>1
    <3> QED BY <1>1, <2>1, <3>1
  <2>3. ASSUME NEW j \in k + 1 .. Len(a) PROVE ~IsWarning(a[j])
    <3>1. (j \in k + 1 .. Len(q) /\ j \in 1 .. Len(q)) \/ j = Len(q) + 1
      BY <1>1
    <3> QED BY <1>1, <2>1, <3>1
  <2> QED BY <2>2, <2>3 DEF LastIs, a
<1> QED BY <1>2, <1>3 DEF LastIs

LEMMA AppendWarning ==
  ASSUME NEW q \in Seq(HbMsg), NEW m \in HbMsg, NEW t, IsWarning(m)
  PROVE  LastIs(Append(q, m), t, m)
<1> DEFINE a == Append(q, m)
           k == Len(q) + 1
<1>1. Len(q) \in Nat /\ Len(a) = k /\ a[k] = m
  OBVIOUS
<1>2. k \in 1 .. Len(a) /\ k + 1 .. Len(a) = {}
  BY <1>1
<1> HIDE DEF a, k
<1> QED BY <1>1, <1>2 DEF LastIs, a

LEMMA TailPlain ==
  ASSUME NEW q \in Seq(HbMsg), NEW t, NEW w,
         q # <<>>, ~IsWarning(Head(q)), LastIs(q, t, w)
  PROVE  LastIs(Tail(q), t, w)
<1> DEFINE a == Tail(q)
<1>1. /\ Len(q) \in Nat /\ Len(a) = Len(q) - 1 /\ Head(q) = q[1]
      /\ \A i \in 1 .. Len(a) : a[i] = q[i + 1]
  OBVIOUS
<1>1b. Len(q) > 0
  OBVIOUS
<1> HIDE DEF a
<1>2. CASE (\A j \in 1 .. Len(q) : ~IsWarning(q[j])) /\ t = w
  <2>1. ASSUME NEW j \in 1 .. Len(a) PROVE ~IsWarning(a[j])
    <3>1. j + 1 \in 1 .. Len(q)
      BY <1>1
    <3> QED BY <1>1, <1>2, <3>1
  <2> QED BY <1>2, <2>1 DEF LastIs, a
<1>3. CASE \E k \in 1 .. Len(q) : /\ q[k] = w /\ IsWarning(q[k])
                                  /\ \A j \in k + 1 .. Len(q) : ~IsWarning(q[j])
  <2>1. PICK k \in 1 .. Len(q) : /\ q[k] = w /\ IsWarning(q[k])
                                 /\ \A j \in k + 1 .. Len(q) : ~IsWarning(q[j])
    BY <1>3
  <2>2. k # 1
    BY <1>1, <2>1
  <2>3. k - 1 \in 1 .. Len(a) /\ (k - 1) + 1 = k
    BY <1>1, <2>2
  <2>4. a[k - 1] = w /\ IsWarning(a[k - 1])
    BY <1>1, <2>1, <2>3
  <2>5. ASSUME NEW j \in (k - 1) + 1 .. Len(a) PROVE ~IsWarning(a[j])
    <3>1. j \in 1 .. Len(a) /\ j + 1 \in k + 1 .. Len(q)
      BY <1>1
    <3> QED BY <1>1, <2>1, <3>1
  <2> QED BY <2>3, <2>4, <2>5 DEF LastIs, a
<1> QED BY <1>2, <1>3 DEF LastIs

LEMMA TailWarning ==
  ASSUME NEW q \in Seq(HbMsg), NEW t, NEW w,
         q # <<>>, IsWarning(Head(q)), LastIs(q, t, w)
  PROVE  LastIs(Tail(q), Head(q), w)
<1> DEFINE a == Tail(q)
<1>1. /\ Len(q) \in Nat /\ Len(a) = Len(q) - 1 /\ Head(q) = q[1]
      /\ \A i \in 1 .. Len(a) : a[i] = q[i + 1]
  OBVIOUS
<1>1b. Len(q) > 0
  OBVIOUS
<1> HIDE DEF a
<1>2. 1 \in 1 .. Len(q)
  BY <1>1, <1>1b
<1>3. PICK k \in 1 .. Len(q) : /\ q[k] = w /\ IsWarning(q[k])
                               /\ \A j \in k + 1 .. Len(q) : ~IsWarning(q[j])
  BY <1>1, <1>2 DEF LastIs
<1>4. CASE k = 1
  <2>1. ASSUME NEW j \in 1 .. Len(a) PROVE ~IsWarning(a[j])
    <3>1. j + 1 \in k + 1 .. Len(q)
      BY <1>1, <1>4
    <3> QED BY <1>1, <1>3, <3>1
  <2>2. Head(q) = w
    BY <1>1, <1>3, <1>4
  <2> QED BY <2>1, <2>2 DEF LastIs, a
<1>5. CASE k # 1
  <2>3. k - 1 \in 1 .. Len(a) /\ (k - 1) + 1 = k
    BY <1>1, <1>5
  <2>4. a[k - 1] = w /\ IsWarning(a[k - 1])
    BY <1>1, <1>3, <2>3
  <2>5. ASSUME NEW j \in (k - 1) + 1 .. Len(a) PROVE ~IsWarning(a[j])
    <3>1. j \in 1 .. Len(a) /\ j + 1 \in k + 1 .. Len(q)
      BY <1>1
    <3> QED BY <1>1, <1>3, <3>1
  <2> QED BY <2>3, <2>4, <2>5 DEF LastIs, a
<1> QED BY <1>4, <1>5

----------------------------------------------------------------------------
(* Types.                                                                  *)

Entry == [amp : Amps, band : BOOLEAN, left : 1 .. RemainTimes]

TypeTable ==
    /\ DOMAIN infos \subseteq Drone
    /\ \A d \in DOMAIN infos : infos[d] \in Entry
    /\ resp \in Results
    /\ orient \in Drone \cup {NoDrone, Dangling}
    /\ unseen \in [Drone -> 0 .. RemainTimes]

TypeOri ==
    ori \in [step : Steps, state : States, mode : {"none", "level", "pitch"},
             group : 0 .. CntMax, level : BOOLEAN, pitch : BOOLEAN]

TypeMsg ==
    /\ freqQ \in Seq(FreqMode) /\ freqMode \in FreqMode
    /\ hbQ \in Seq(HbMsg)
    /\ target \in {"appear", "gone"} /\ workStatus \in States \cup {"hit"}
    /\ sysStatus \in {"detect", "hit"}

TypeMode ==
    /\ workMode \in Mode /\ lastMode \in Mode
    /\ sensing \in Mode \cup {Off} /\ alink \in Mode \cup {Off}
    /\ sysQ \in Seq({0, 1})
    /\ admin \in BOOLEAN /\ told \in BOOLEAN
    /\ clears \in Nat /\ rpt \in 0 .. RptInterval
    /\ counts \in [cmd : Nat, hit : Nat, fail : Nat]

LEMMA TypeParts == TypeOK <=> TypeTable /\ TypeOri /\ TypeMsg /\ TypeMode
<1>1. TypeTable /\ TypeOri <=>
        /\ DOMAIN infos \subseteq Drone
        /\ \A d \in DOMAIN infos :
            infos[d] \in [amp : Amps, band : BOOLEAN, left : 1 .. RemainTimes]
        /\ resp \in Results
        /\ orient \in Drone \cup {NoDrone, Dangling}
        /\ ori \in [step : Steps, state : States, mode : {"none", "level", "pitch"},
                    group : 0 .. CntMax, level : BOOLEAN, pitch : BOOLEAN]
        /\ unseen \in [Drone -> 0 .. RemainTimes]
  BY Zenon DEF TypeTable, TypeOri, Entry
<1>2. {workMode, lastMode} \subseteq Mode <=> workMode \in Mode /\ lastMode \in Mode
  OBVIOUS
<1>3. {sensing, alink} \subseteq Mode \cup {Off}
        <=> sensing \in Mode \cup {Off} /\ alink \in Mode \cup {Off}
  OBVIOUS
<1>4. {admin, told} \subseteq BOOLEAN <=> admin \in BOOLEAN /\ told \in BOOLEAN
  OBVIOUS
<1> QED BY <1>1, <1>2, <1>3, <1>4, Zenon DEF TypeOK, TypeMsg, TypeMode, FreqMode, HbMsg

LEMMA ParamFacts ==
  /\ RemainTimes \in Nat /\ RemainTimes > 1 /\ CntMax \in Nat /\ CntMax > 1
  /\ RptInterval \in Nat /\ NumDrones \in Nat /\ Drone = 1 .. NumDrones
<1>1. RemainTimes \in Nat \ {0, 1} /\ CntMax \in Nat \ {0, 1} /\ RptInterval \in Nat
      /\ NumDrones \in Nat
  BY SpectrumAssumption
<1> QED BY <1>1 DEF Drone

LEMMA TypeInit == Init => TypeOK
<1> SUFFICES ASSUME Init PROVE TypeOK
  OBVIOUS
<1> USE ParamFacts
<1>1. DOMAIN infos = {}
  BY DEF Init
<1>2. TypeTable
  <2>1. unseen \in [Drone -> 0 .. RemainTimes]
    <3>1. 0 \in 0 .. RemainTimes
      OBVIOUS
    <3> QED BY <3>1 DEF Init
  <2> QED BY <1>1, <2>1 DEF Init, TypeTable
<1>3. TypeOri
  BY DEF Init, TypeOri, Steps, States, OpenStates
<1>4. TypeMsg
  BY DEF Init, TypeMsg, FreqMode, HbMsg, States, OpenStates
<1>5. TypeMode
  <2>1. 0 \in 0 .. RptInterval
    OBVIOUS
  <2>2. counts \in [cmd : Nat, hit : Nat, fail : Nat] /\ sysQ \in Seq({0, 1})
    BY DEF Init
  <2> QED BY <2>1, <2>2 DEF Init, TypeMode, Mode, NoMode, Omni, Orie, DroneId, Off
<1> QED BY <1>2, <1>3, <1>4, <1>5, TypeParts

\* Every nonempty set of naturals has a least element.
LEMMA LeastNat ==
  ASSUME NEW T \in SUBSET Nat, T # {}
  PROVE  \E n \in T : \A m \in T : n <= m
<1>1. PICK n \in T : \A m \in T : ~ (<<m, n>> \in OpToRel(<, Nat))
  BY NatLessThanWellFounded, WFMin
<1>2. ASSUME NEW m \in T PROVE n <= m
  <2>1. ~ (m < n)
    BY <1>1 DEF OpToRel
  <2> QED BY <2>1
<1> QED BY <1>2

Louder(t, d, e) == t[d].amp > t[e].amp \/ (t[d].amp = t[e].amp /\ d <= e)
HasLoudest(t, D) == \E d \in D : \A e \in D : Louder(t, d, e)

\* A set of drones that is not empty has a loudest one: the least n such that
\* a subset of 1 .. n had none would not be least.
LEMMA LoudestExists ==
  ASSUME NEW t, DOMAIN t \subseteq Drone, DOMAIN t # {},
         \A d \in DOMAIN t : t[d].amp \in Nat
  PROVE  HasLoudest(t, DOMAIN t)
<1> DEFINE Bad(n) == \E D \in SUBSET (DOMAIN t) :
                        D \subseteq 1 .. n /\ D # {} /\ ~HasLoudest(t, D)
           T == {n \in Nat : Bad(n)}
<1>1. ~Bad(NumDrones) => HasLoudest(t, DOMAIN t)
  BY ParamFacts
<1>2. SUFFICES ASSUME T # {} PROVE FALSE
  BY <1>1, ParamFacts
<1>3. PICK n \in T : \A m \in T : n <= m
  <2> HIDE DEF T
  <2>1. T \subseteq Nat
    BY DEF T
  <2> QED BY <1>2, <2>1, LeastNat
<1>4. PICK D \in SUBSET (DOMAIN t) : D \subseteq 1 .. n /\ D # {} /\ ~HasLoudest(t, D)
  OBVIOUS
<1>5. n \in Nat /\ n - 1 \notin T
  <2>1. n \in Nat
    OBVIOUS
  <2>2. n - 1 \in T => n <= n - 1
    BY <1>3
  <2> HIDE DEF T
  <2> QED BY <2>1, <2>2
<1>6. n # 0
  BY <1>4
<1>7. n - 1 \in Nat /\ ~Bad(n - 1)
  BY <1>5, <1>6
<1> DEFINE E == D \ {n}
<1>8. E \in SUBSET (DOMAIN t) /\ E \subseteq 1 .. n - 1
  BY <1>4, <1>5
<1>9. n \in D
  BY <1>4, <1>7, <1>8
<1>10. t[n].amp \in Nat /\ \A e \in E : t[e].amp \in Nat /\ e \in Nat /\ e < n
  BY <1>4, <1>5, <1>8, <1>9
<1> HIDE DEF Bad, T
<1>11. CASE E = {}
  <2>1. \A e \in D : Louder(t, n, e)
    BY <1>5, <1>10, <1>11 DEF Louder
  <2> QED BY <1>4, <1>9, <2>1 DEF HasLoudest
<1>12. CASE E # {}
  <2>1. PICK d \in E : \A e \in E : Louder(t, d, e)
    BY <1>7, <1>8, <1>12 DEF Bad, HasLoudest
  <2>2. CASE t[n].amp > t[d].amp
    <3>1. ASSUME NEW e \in D PROVE Louder(t, n, e)
      <4>1. CASE e = n
        BY <1>5, <1>10, <4>1 DEF Louder
      <4>2. CASE e \in E
        <5>1. t[d].amp >= t[e].amp
          BY <1>10, <2>1, <4>2 DEF Louder
        <5> QED BY <1>10, <2>2, <4>2, <5>1 DEF Louder
      <4> QED BY <4>1, <4>2
    <3> QED BY <1>4, <1>9, <3>1 DEF HasLoudest
  <2>3. CASE ~(t[n].amp > t[d].amp)
    <3>1. ASSUME NEW e \in D PROVE Louder(t, d, e)
      <4>1. CASE e = n
        <5>1. /\ t[d].amp \in Nat /\ t[n].amp \in Nat /\ t[d].amp >= t[n].amp
              /\ d <= n
          <6>1. t[d].amp \in Nat /\ t[n].amp \in Nat /\ d \in Nat /\ d < n
            BY <1>10
          <6> QED BY <1>5, <2>3, <6>1
        <5> QED BY <4>1, <5>1 DEF Louder
      <4> QED BY <2>1, <4>1
    <3> QED BY <1>4, <3>1 DEF HasLoudest
  <2> QED BY <2>2, <2>3
<1> QED BY <1>11, <1>12

LEMMA LoudestIn ==
  ASSUME NEW t, DOMAIN t \subseteq Drone, DOMAIN t # {},
         \A d \in DOMAIN t : t[d].amp \in Nat
  PROVE  Loudest(t) \in DOMAIN t
  BY LoudestExists DEF HasLoudest, Louder, Loudest

\* An answer merged into the table, and the table a frame older.
LEMMA MergedAged ==
  ASSUME TypeTable, NEW r \in Results
  PROVE  LET t == Aged(Merged(infos, r)) IN
         /\ DOMAIN t \subseteq Drone
         /\ \A d \in DOMAIN t :
             /\ t[d] \in Entry
             /\ d \in DOMAIN r => t[d].left = RemainTimes - 1
             /\ d \notin DOMAIN r => /\ d \in DOMAIN infos
                                     /\ t[d].left = infos[d].left - 1
<1> DEFINE m == Merged(infos, r)
           t == Aged(m)
<1>1. DOMAIN r \subseteq Drone /\ \A d \in DOMAIN r : r[d] \in Sight
  BY DEF Results
<1>2. /\ DOMAIN m = DOMAIN infos \cup DOMAIN r
      /\ \A d \in DOMAIN r :
          m[d] = [amp |-> r[d].amp, band |-> r[d].band, left |-> RemainTimes]
      /\ \A d \in DOMAIN infos \ DOMAIN r : m[d] = infos[d]
  BY DEF Merged
<1>3. \A d \in DOMAIN m : m[d] \in Entry
  <2>1. RemainTimes \in 1 .. RemainTimes
    BY ParamFacts
  <2> QED BY <1>1, <1>2, <2>1 DEF TypeTable, Entry, Sight
<1> HIDE DEF m
<1>4. /\ DOMAIN t = {d \in DOMAIN m : m[d].left > 1}
      /\ \A d \in DOMAIN t : t[d] = [m[d] EXCEPT !.left = @ - 1]
  BY DEF Aged
<1> HIDE DEF t
<1>5. ASSUME NEW d \in DOMAIN t
      PROVE  t[d] \in Entry /\ t[d].left = m[d].left - 1
  <2>1. m[d] \in Entry /\ m[d].left > 1
    BY <1>3, <1>4
  <2>2. m[d].left - 1 \in 1 .. RemainTimes
    BY <2>1, ParamFacts DEF Entry
  <2> QED BY <1>4, <2>1, <2>2 DEF Entry
<1>6. DOMAIN t \subseteq Drone
  BY <1>1, <1>2, <1>4 DEF TypeTable
<1>7. \A d \in DOMAIN r : m[d].left = RemainTimes
  BY <1>2
<1> QED BY <1>2, <1>4, <1>5, <1>6, <1>7 DEF m, t

LEMMA OrientTyped ==
  ASSUME TypeTable, NEW t, DOMAIN t \subseteq Drone,
         \A d \in DOMAIN t : t[d] \in Entry
  PROVE  OrientAfter(t) \in Drone \cup {NoDrone, Dangling}
<1>1. \A d \in DOMAIN t : t[d].amp \in Nat
  BY SpectrumAssumption DEF Entry
<1>2. DOMAIN t # {} => Loudest(t) \in Drone
  BY <1>1, LoudestIn
<1> QED BY <1>2 DEF OrientAfter, TypeTable

LEMMA UnseenTyped ==
  ASSUME TypeTable, SnifferFails \/ \E r \in Results : SnifferAnswers(r)
  PROVE  /\ resp' \in Results
         /\ unseen' \in [Drone -> 0 .. RemainTimes]
         /\ counts' = counts \/ counts' = [counts EXCEPT !.fail = @ + 1]
<1>1. \A n \in 0 .. RemainTimes : Seen(n) \in 0 .. RemainTimes
  BY ParamFacts DEF Seen
<1>2. \A d \in Drone : unseen[d] \in 0 .. RemainTimes
  BY DEF TypeTable
<1>3. 0 \in 0 .. RemainTimes
  BY ParamFacts
<1>4. CASE SnifferFails
  BY <1>1, <1>2, <1>4 DEF SnifferFails, TypeTable
<1>5. ASSUME NEW r \in Results, SnifferAnswers(r)
      PROVE  resp' \in Results /\ unseen' \in [Drone -> 0 .. RemainTimes] /\ counts' = counts
  <2>1. \A d \in Drone : (IF d \in DOMAIN r THEN 0 ELSE Seen(unseen[d])) \in 0 .. RemainTimes
    BY <1>1, <1>2, <1>3
  <2> QED BY <1>5, <2>1 DEF SnifferAnswers
<1> QED BY <1>4, <1>5

LEMMA TableNext == TypeOK /\ [Next]_vars => TypeTable'
<1> SUFFICES ASSUME TypeOK, [Next]_vars PROVE TypeTable'
  OBVIOUS
<1>1. TypeTable
  BY TypeParts
<1>2. ASSUME UNCHANGED <<infos, resp, orient, unseen>> PROVE TypeTable'
  BY <1>1, <1>2 DEF TypeTable
<1>3. ASSUME NEW gyro \in BOOLEAN, NEW passes \in BOOLEAN, SensingEnd(gyro, passes)
      PROVE  TypeTable'
  <2>1. /\ resp' \in Results /\ unseen' \in [Drone -> 0 .. RemainTimes]
        /\ SenseSpectrum(gyro, passes) \/ SenseOther
    BY <1>1, <1>3, UnseenTyped DEF SensingEnd
  <2>2. CASE SenseOther
    <3>1. infos' = <<>> /\ DOMAIN infos' = {}
      BY <2>2 DEF SenseOther
    <3>2. orient' = orient \/ orient' = Dangling
      BY <2>2 DEF SenseOther
    <3> QED BY <1>1, <2>1, <3>1, <3>2 DEF TypeTable
  <2>3. CASE SenseSpectrum(gyro, passes)
    <3> DEFINE t == Aged(Merged(infos, resp'))
    <3>1. infos' = t /\ orient' = OrientAfter(t)
      BY <2>3 DEF SenseSpectrum
    <3>2. DOMAIN t \subseteq Drone /\ \A d \in DOMAIN t : t[d] \in Entry
      BY <1>1, <2>1, MergedAged
    <3> HIDE DEF t
    <3>3. orient' \in Drone \cup {NoDrone, Dangling}
      BY <1>1, <3>1, <3>2, OrientTyped
    <3> QED BY <2>1, <3>1, <3>2, <3>3 DEF TypeTable
  <2> QED BY <2>1, <2>2, <2>3
<1>4. CASE Sensing
  <2>1. CASE SensingBegin
    BY <1>2, <2>1 DEF SensingBegin, spectrumVars
  <2> QED BY <1>3, <1>4, <2>1 DEF Sensing
<1>5. CASE \/ OnClearOrientateCmd \/ ReportSpectrumDroneInfo \/ Alink
           \/ OnSetWorkModeCmd \/ OnSetFrequencyModeCmd \/ HeartBeatThread
           \/ \E s \in {"detect", "hit"} : SetRFEnable(s)
  <2>1. UNCHANGED <<infos, resp, orient, unseen>>
    BY <1>5 DEF OnClearOrientateCmd, ReportSpectrumDroneInfo, Alink,
        EnterOrientate, ExitOrientate, SetOrientationMode,
        WriteOrientationMode, OnSetWorkModeCmd, OnSetFrequencyModeCmd,
        HeartBeatThread, OnTargetWarning, OnRefreshWorkStatus, SetRFEnable,
        spectrumVars
  <2> QED BY <1>2, <2>1
<1>6. CASE UNCHANGED vars
  BY <1>2, <1>6 DEF vars, spectrumVars
<1> QED BY <1>4, <1>5, <1>6 DEF Next, SpectrumThread

\* No scan has more samples than its array.
LEMMA SteppedTyped ==
  ASSUME TypeOri, NEW inBand, NEW passes
  PROVE  LET o == Stepped(ori, inBand, passes) IN
         o \in Ori /\ o.group \in 0 .. CntMax
<1> DEFINE o == Stepped(ori, inBand, passes)
<1>1. ori \in Ori /\ ori.group \in 0 .. CntMax
  BY ParamFacts DEF TypeOri, Ori
<1>2. \/ o \in {ori, [ori EXCEPT !.state = "eligible"], [ori EXCEPT !.state = "ineligible"]}
      \/ o \in {Enter(ori), AzimuthEnough(ori), AzimuthAimed(ori), PitchEnough(ori),
                PitchAimed(ori)}
  BY DEF Stepped
<1> HIDE DEF o
<1>3. ASSUME o \in {ori, [ori EXCEPT !.state = "eligible"], [ori EXCEPT !.state = "ineligible"]}
      PROVE  o \in Ori /\ o.group = ori.group
  BY <1>1, <1>3 DEF Ori, States, OpenStates
<1>4. /\ Enter(ori).group = 0 /\ AzimuthEnough(ori).group = 0 /\ AzimuthAimed(ori).group = 0
      /\ PitchEnough(ori).group = 0 /\ PitchAimed(ori).group = 0
  BY <1>1 DEF Enter, AzimuthEnough, AzimuthAimed, PitchEnough, PitchAimed, Ori
<1>5. 0 \in 0 .. CntMax
  BY ParamFacts
<1> QED BY <1>1, <1>2, <1>3, <1>4, <1>5, StepFields DEF o

LEMMA SaveTyped ==
  ASSUME NEW o \in Ori, o.group \in 0 .. CntMax, NEW m \in {"none", "level", "pitch"}
  PROVE  SaveAngleInfo(o, m) \in Ori /\ SaveAngleInfo(o, m).group \in 0 .. CntMax
<1>1. 0 \in 0 .. CntMax
  BY ParamFacts
<1>2. CASE m = "none"
  BY <1>1, <1>2 DEF SaveAngleInfo, Ori
<1>3. CASE m # "none" /\ ~Full(o, m)
  <2>1. SaveAngleInfo(o, m) = [o EXCEPT !.group = @ + 1]
    BY <1>3 DEF SaveAngleInfo
  <2>2. o.group + 1 \in 0 .. CntMax /\ o.group + 1 \in Nat
    BY <1>3, ParamFacts DEF Full
  <2> QED BY <2>1, <2>2 DEF Ori
<1>4. CASE m # "none" /\ Full(o, m)
  <2>1. SaveAngleInfo(o, m) =
          [Cleared(o) EXCEPT !.group = 0,
                             !.level = m = "level", !.pitch = m = "pitch"]
    BY <1>4 DEF SaveAngleInfo
  <2>2. ASSUME NEW c \in Ori, NEW a \in BOOLEAN, NEW b \in BOOLEAN
        PROVE  /\ [c EXCEPT !.group = 0, !.level = a, !.pitch = b] \in Ori
               /\ [c EXCEPT !.group = 0, !.level = a, !.pitch = b].group = 0
    BY DEF Ori
  <2>3. Cleared(o) \in Ori
    BY DEF Cleared, Ori, Steps, States, OpenStates
  <2> QED BY <1>1, <2>1, <2>2, <2>3
<1> QED BY <1>2, <1>3, <1>4

LEMMA ProcTyped ==
  ASSUME TypeOri, NEW inBand, NEW passes, Proc(inBand, passes)
  PROVE  TypeOri'
<1> DEFINE oldMode == IF ori.step = "enter" /\ inBand /\ admin THEN "level" ELSE ori.mode
           o == Stepped(ori, inBand, passes)
<1>1. ori' = SaveAngleInfo(o, oldMode)
  BY DEF Proc
<1>2. oldMode \in {"none", "level", "pitch"}
  BY DEF TypeOri
<1>3. o \in Ori /\ o.group \in 0 .. CntMax
  BY SteppedTyped
<1> HIDE DEF o, oldMode
<1>4. ori' \in Ori /\ ori'.group \in 0 .. CntMax
  BY <1>1, <1>2, <1>3, SaveTyped
<1> QED BY <1>4 DEF Ori, TypeOri

LEMMA ClearTyped == TypeOri /\ Clear => TypeOri'
  BY DEF TypeOri, Clear, Cleared, Steps, States, OpenStates

LEMMA OriTypedNext == TypeOK /\ [Next]_vars => TypeOri'
<1> SUFFICES ASSUME TypeOK, [Next]_vars PROVE TypeOri'
  OBVIOUS
<1>1. TypeOri
  BY TypeParts
<1>2. ASSUME ori' = ori PROVE TypeOri'
  BY <1>1, <1>2 DEF TypeOri
<1>3. ASSUME NEW gyro \in BOOLEAN, NEW passes \in BOOLEAN, SensingEnd(gyro, passes)
      PROVE  TypeOri'
  <2>1. CASE SenseOther
    BY <1>1, <2>1, ClearTyped DEF SenseOther
  <2>2. CASE SenseSpectrum(gyro, passes)
    <3> DEFINE b == InBand(Aged(Merged(infos, resp')))
    <3>1. Proc(b, passes) \/ Clear \/ KeepOri
      BY <2>2 DEF SenseSpectrum
    <3> HIDE DEF b
    <3> QED BY <1>1, <1>2, <3>1, ProcTyped, ClearTyped DEF KeepOri
  <2> QED BY <1>3, <2>1, <2>2 DEF SensingEnd
<1>4. CASE Sensing
  <2>1. CASE SensingBegin
    BY <1>2, <2>1 DEF SensingBegin, spectrumVars
  <2> QED BY <1>3, <1>4, <2>1 DEF Sensing
<1>5. CASE OnClearOrientateCmd
  BY <1>1, <1>5, ClearTyped DEF OnClearOrientateCmd
<1>6. CASE \/ ReportSpectrumDroneInfo \/ Alink
           \/ OnSetWorkModeCmd \/ OnSetFrequencyModeCmd \/ HeartBeatThread
           \/ \E s \in {"detect", "hit"} : SetRFEnable(s)
  <2>1. ori' = ori
    BY <1>6 DEF ReportSpectrumDroneInfo, Alink,
        EnterOrientate, ExitOrientate, SetOrientationMode,
        WriteOrientationMode, OnSetWorkModeCmd, OnSetFrequencyModeCmd,
        HeartBeatThread, OnTargetWarning, OnRefreshWorkStatus, SetRFEnable,
        spectrumVars
  <2> QED BY <1>2, <2>1
<1>7. CASE UNCHANGED vars
  BY <1>2, <1>7 DEF vars, spectrumVars
<1> QED BY <1>4, <1>5, <1>6, <1>7 DEF Next, SpectrumThread

HbTyped == /\ hbQ \in Seq(HbMsg)
           /\ target \in {"appear", "gone"} /\ workStatus \in States \cup {"hit"}
           /\ sysStatus \in {"detect", "hit"}

\* The warning that is due for table t.
Due(t) == IF DOMAIN t # {} THEN "appear" ELSE "gone"

WarningInv == LastIs(hbQ, target, Due(infos))

LEMMA StateNoWarning == \A m \in States \cup {"hit"} : ~IsWarning(m) /\ m \in HbMsg
  BY DEF States, OpenStates, IsWarning, HbMsg

LEMMA WarningSent ==
  ASSUME NEW q \in Seq(HbMsg), NEW old, NEW new, NEW g, LastIs(q, g, Due(old))
  PROVE  LET n == q \o TargetWarning(old, new) IN
         n \in Seq(HbMsg) /\ LastIs(n, g, Due(new))
<1>1. ASSUME NEW m \in HbMsg
      PROVE  q \o <<m>> = Append(q, m) /\ Append(q, m) \in Seq(HbMsg)
  OBVIOUS
<1>2. q \o <<>> = q
  OBVIOUS
<1>3. ASSUME NEW m \in {"appear", "gone"}, TargetWarning(old, new) = <<m>>, Due(new) = m
      PROVE  LET n == q \o TargetWarning(old, new) IN
             n \in Seq(HbMsg) /\ LastIs(n, g, Due(new))
  <2>1. m \in HbMsg /\ IsWarning(m)
    BY DEF HbMsg, IsWarning
  <2>2. LastIs(Append(q, m), g, m)
    BY <2>1, AppendWarning
  <2> QED BY <1>1, <1>3, <2>1, <2>2
<1>4. CASE DOMAIN old = {} /\ DOMAIN new # {}
  <2>1. TargetWarning(old, new) = <<"appear">> /\ Due(new) = "appear"
    BY <1>4 DEF TargetWarning, Due
  <2> QED BY <1>3, <2>1
<1>5. CASE DOMAIN old # {} /\ DOMAIN new = {}
  <2>1. TargetWarning(old, new) = <<"gone">> /\ Due(new) = "gone"
    BY <1>5 DEF TargetWarning, Due
  <2> QED BY <1>3, <2>1
<1>6. CASE DOMAIN old = {} <=> DOMAIN new = {}
  <2>1. TargetWarning(old, new) = <<>> /\ Due(new) = Due(old)
    BY <1>6 DEF TargetWarning, Due
  <2> QED BY <1>2, <2>1
<1> QED BY <1>4, <1>5, <1>6

\* A state of direction finding or of the system is queued.
LEMMA StateSent ==
  ASSUME NEW q \in Seq(HbMsg), NEW m \in States \cup {"hit"}, NEW g, NEW w, LastIs(q, g, w)
  PROVE  Append(q, m) \in Seq(HbMsg) /\ LastIs(Append(q, m), g, w)
<1>1. m \in HbMsg /\ ~IsWarning(m)
  BY StateNoWarning
<1> QED BY <1>1, AppendPlain

LEMMA WarningNext ==
  TypeOK /\ WarningInv /\ [Next]_vars => HbTyped' /\ WarningInv'
<1> SUFFICES ASSUME TypeOK, WarningInv, [Next]_vars PROVE HbTyped' /\ WarningInv'
  OBVIOUS
<1>1. HbTyped
  BY TypeParts DEF TypeMsg, HbTyped
<1>2. ASSUME UNCHANGED <<infos, hbVars, sysStatus>> PROVE HbTyped' /\ WarningInv'
  BY <1>1, <1>2 DEF HbTyped, WarningInv, hbVars
<1>3. ASSUME NEW gyro \in BOOLEAN, NEW passes \in BOOLEAN, SensingEnd(gyro, passes)
      PROVE  HbTyped' /\ WarningInv'
  <2>1. UNCHANGED <<target, workStatus, sysStatus>>
    BY <1>3 DEF SensingEnd
  <2>2. ASSUME NEW q \in Seq(HbMsg), LastIs(q, target, Due(infos)), NEW t, infos' = t,
               hbQ' = q \o TargetWarning(infos, t)
        PROVE  HbTyped' /\ WarningInv'
    <3>1. hbQ' \in Seq(HbMsg) /\ LastIs(hbQ', target, Due(t))
      BY <2>2, WarningSent
    <3> QED BY <1>1, <2>1, <2>2, <3>1 DEF HbTyped, WarningInv
  <2>3. hbQ \in Seq(HbMsg) /\ LastIs(hbQ, target, Due(infos))
    BY <1>1 DEF HbTyped, WarningInv
  <2>4. CASE SenseOther
    <3>1. infos' = <<>> /\ hbQ' = hbQ \o TargetWarning(infos, <<>>)
      BY <2>4 DEF SenseOther
    <3> QED BY <2>2, <2>3, <3>1
  <2>5. CASE SenseSpectrum(gyro, passes)
    <3> DEFINE t == Aged(Merged(infos, resp'))
               q == IF sensing = Orie /\ gyro THEN Append(hbQ, ori'.state) ELSE hbQ
    <3>1. infos' = t /\ hbQ' = q \o TargetWarning(infos, t)
      BY <2>5 DEF SenseSpectrum
    <3>2. TypeOri'
      BY OriTypedNext
    <3>3. ori'.state \in States \cup {"hit"}
      BY <3>2 DEF TypeOri
    <3>4. q \in Seq(HbMsg) /\ LastIs(q, target, Due(infos))
      BY <2>3, <3>3, StateSent
    <3> HIDE DEF t, q
    <3> QED BY <2>2, <3>1, <3>4
  <2> QED BY <1>3, <2>4, <2>5 DEF SensingEnd
<1>4. CASE Sensing
  <2>1. CASE SensingBegin
    BY <1>2, <2>1 DEF SensingBegin, spectrumVars
  <2> QED BY <1>3, <1>4, <2>1 DEF Sensing
<1>5. CASE OnTargetWarning
  <2>1. /\ hbQ # <<>> /\ IsWarning(Head(hbQ)) /\ hbQ' = Tail(hbQ) /\ target' = Head(hbQ)
        /\ Head(hbQ) \in {"appear", "gone"}
        /\ UNCHANGED <<infos, workStatus, sysStatus>>
    BY <1>5 DEF OnTargetWarning, spectrumVars, IsWarning
  <2>2. Tail(hbQ) \in Seq(HbMsg)
    BY <1>1, <2>1 DEF HbTyped
  <2>3. LastIs(Tail(hbQ), Head(hbQ), Due(infos))
    BY <1>1, <2>1, TailWarning DEF HbTyped, WarningInv
  <2> QED BY <1>1, <2>1, <2>2, <2>3 DEF HbTyped, WarningInv
<1>6. CASE OnRefreshWorkStatus
  <2>1. /\ hbQ # <<>> /\ ~IsWarning(Head(hbQ)) /\ hbQ' = Tail(hbQ)
        /\ workStatus' = Head(hbQ) /\ Head(hbQ) \notin {"appear", "gone"}
        /\ UNCHANGED <<infos, target, sysStatus>>
    BY <1>6 DEF OnRefreshWorkStatus, spectrumVars, IsWarning
  <2>2. Tail(hbQ) \in Seq(HbMsg) /\ Head(hbQ) \in HbMsg
    BY <1>1, <2>1 DEF HbTyped
  <2>3. LastIs(Tail(hbQ), target, Due(infos))
    BY <1>1, <2>1, TailPlain DEF HbTyped, WarningInv
  <2>4. Head(hbQ) \in States \cup {"hit"}
    BY <2>1, <2>2 DEF HbMsg
  <2> QED BY <1>1, <2>1, <2>2, <2>3, <2>4 DEF HbTyped, WarningInv
<1>7. ASSUME NEW s \in {"detect", "hit"}, SetRFEnable(s) PROVE HbTyped' /\ WarningInv'
  <2>1. hbQ' = Append(hbQ, s) /\ sysStatus' = s /\ UNCHANGED <<infos, target, workStatus>>
    BY <1>7 DEF SetRFEnable, spectrumVars
  <2>2. s \in States \cup {"hit"}
    BY DEF States, OpenStates
  <2>3. Append(hbQ, s) \in Seq(HbMsg) /\ LastIs(Append(hbQ, s), target, Due(infos))
    BY <1>1, <2>2, StateSent DEF HbTyped, WarningInv
  <2> QED BY <1>1, <2>1, <2>3 DEF HbTyped, WarningInv
<1>8. CASE \/ OnClearOrientateCmd \/ ReportSpectrumDroneInfo \/ Alink
           \/ OnSetWorkModeCmd \/ OnSetFrequencyModeCmd
  <2>1. UNCHANGED <<infos, hbVars, sysStatus>>
    BY <1>8 DEF OnClearOrientateCmd, ReportSpectrumDroneInfo, Alink,
        EnterOrientate, ExitOrientate, SetOrientationMode,
        WriteOrientationMode, OnSetWorkModeCmd, OnSetFrequencyModeCmd,
        hbVars, spectrumVars
  <2> QED BY <1>2, <2>1
<1>9. CASE UNCHANGED vars
  BY <1>2, <1>9 DEF vars, spectrumVars
<1> QED BY <1>4, <1>5, <1>6, <1>7, <1>8, <1>9 DEF Next, SpectrumThread, HeartBeatThread

ModeRest == /\ workMode \in Mode /\ alink \in Mode \cup {Off}
            /\ sysQ \in Seq({0, 1}) /\ clears \in Nat
            /\ counts \in [cmd : Nat, hit : Nat, fail : Nat]

FrameRest == /\ lastMode \in Mode /\ sensing \in Mode \cup {Off}
             /\ admin \in BOOLEAN /\ told \in BOOLEAN
             /\ rpt \in 0 .. RptInterval

LEMMA ModeParts == TypeMode <=> ModeRest /\ FrameRest
  BY DEF TypeMode, ModeRest, FrameRest

\* What the host and SYS write.
LEMMA ModeRestNext == TypeOK /\ [Next]_vars => ModeRest'
<1> SUFFICES ASSUME TypeOK, [Next]_vars PROVE ModeRest'
  OBVIOUS
<1>1. ModeRest
  BY TypeParts, ModeParts
<1>2. ASSUME UNCHANGED <<hostVars, clears, counts>> PROVE ModeRest'
  BY <1>1, <1>2 DEF ModeRest, hostVars
<1>3. {Omni, Orie} \subseteq Mode /\ {0, 1} \subseteq Mode
  BY DEF Mode, NoMode, DroneId, Omni, Orie
<1>4. ASSUME NEW f \in {"cmd", "hit", "fail"}, counts' = [counts EXCEPT ![f] = @ + 1],
             UNCHANGED <<workMode, alink, sysQ, clears>>
      PROVE  ModeRest'
  BY <1>1, <1>4 DEF ModeRest
<1>5. ASSUME NEW gyro \in BOOLEAN, NEW passes \in BOOLEAN, SensingEnd(gyro, passes)
      PROVE  ModeRest'
  <2>1. TypeTable
    BY TypeParts
  <2>2. counts' = counts \/ counts' = [counts EXCEPT !.fail = @ + 1]
    BY <1>5, <2>1, UnseenTyped DEF SensingEnd
  <2>3. UNCHANGED <<workMode, alink, sysQ, clears>>
    BY <1>5 DEF SensingEnd, hostVars
  <2> QED BY <1>1, <2>2, <2>3 DEF ModeRest
<1>6. CASE Sensing
  <2>1. CASE SensingBegin
    BY <1>2, <2>1 DEF SensingBegin
  <2> QED BY <1>5, <1>6, <2>1 DEF Sensing
<1>7. CASE OnClearOrientateCmd
  <2>1. clears > 0 /\ clears' = clears - 1 /\ UNCHANGED <<hostVars, counts>>
    BY <1>7 DEF OnClearOrientateCmd
  <2> QED BY <1>1, <2>1 DEF ModeRest, hostVars
<1>8. CASE EnterOrientate \/ ExitOrientate
  <2>1. /\ counts' = [counts EXCEPT !.cmd = @ + 1] /\ UNCHANGED hostVars
        /\ clears' = clears \/ clears' = clears + 1
    BY <1>8 DEF EnterOrientate, ExitOrientate, Command
  <2> QED BY <1>1, <2>1 DEF ModeRest, hostVars
<1>9. ASSUME NEW b \in {0, 1}, SetOrientationMode(b) PROVE ModeRest'
  <2>1. /\ counts' = [counts EXCEPT !.cmd = @ + 1] /\ sysQ' = Append(sysQ, b)
        /\ alink' \in {Omni, Orie} /\ UNCHANGED <<workMode, clears>>
    BY <1>9 DEF SetOrientationMode, Command
  <2>2. Append(sysQ, b) \in Seq({0, 1})
    BY <1>1 DEF ModeRest
  <2> QED BY <1>1, <1>3, <2>1, <2>2 DEF ModeRest
<1>10. CASE WriteOrientationMode
  <2>1. /\ alink # Off /\ alink' = Off /\ workMode' = alink
        /\ UNCHANGED <<sysQ, clears, counts>>
    BY <1>10 DEF WriteOrientationMode
  <2> QED BY <1>1, <2>1 DEF ModeRest
<1>11. CASE OnSetWorkModeCmd
  <2>1. /\ sysQ # <<>> /\ sysQ' = Tail(sysQ) /\ workMode' = Head(sysQ)
        /\ UNCHANGED <<alink, clears, counts>>
    BY <1>11 DEF OnSetWorkModeCmd
  <2>2. Tail(sysQ) \in Seq({0, 1}) /\ Head(sysQ) \in {0, 1}
    BY <1>1, <2>1 DEF ModeRest
  <2> QED BY <1>1, <1>3, <2>1, <2>2 DEF ModeRest
<1>12. ASSUME NEW s, SetRFEnable(s) PROVE ModeRest'
  BY <1>1, <1>12 DEF SetRFEnable, ModeRest, hostVars
<1>13. CASE ReportSpectrumDroneInfo \/ OnSetFrequencyModeCmd \/ HeartBeatThread
  <2>1. UNCHANGED <<hostVars, clears, counts>>
    BY <1>13 DEF ReportSpectrumDroneInfo, OnSetFrequencyModeCmd,
        HeartBeatThread, OnTargetWarning, OnRefreshWorkStatus
  <2> QED BY <1>2, <2>1
<1>14. CASE UNCHANGED vars
  BY <1>2, <1>14 DEF vars
<1> QED BY <1>6, <1>7, <1>8, <1>9, <1>10, <1>11, <1>12, <1>13, <1>14
        DEF Next, SpectrumThread, Alink

\* What the frames, the report timer and the operator write.
LEMMA FrameRestNext == TypeOK /\ [Next]_vars => FrameRest'
<1> SUFFICES ASSUME TypeOK, [Next]_vars PROVE FrameRest'
  OBVIOUS
<1>1. FrameRest /\ workMode \in Mode
  BY TypeParts, ModeParts DEF ModeRest
<1>2. ASSUME UNCHANGED <<lastMode, sensing, admin, told, rpt>> PROVE FrameRest'
  BY <1>1, <1>2 DEF FrameRest
<1>3. 0 \in 0 .. RptInterval /\ RptInterval \in 0 .. RptInterval
  BY ParamFacts
<1>4. ASSUME NEW gyro \in BOOLEAN, NEW passes \in BOOLEAN, SensingEnd(gyro, passes)
      PROVE  FrameRest'
  <2>1. told' = told /\ sensing' = Off /\ (SenseSpectrum(gyro, passes) \/ SenseOther)
    BY <1>4 DEF SensingEnd
  <2>2. ASSUME NEW t, rpt' = Refresh(infos, t) PROVE rpt' \in 0 .. RptInterval
    BY <1>1, <1>3, <2>2 DEF Refresh, FrameRest
  <2>3. rpt' \in 0 .. RptInterval
    BY <2>1, <2>2 DEF SenseSpectrum, SenseOther
  <2>4. lastMode' \in Mode
    BY <1>1, <2>1 DEF SenseSpectrum, SenseOther, FrameRest, Mode, Omni, Orie
  <2>5. admin' \in BOOLEAN
    <3>1. ASSUME Clear \/ KeepOri PROVE admin' \in BOOLEAN
      BY <1>1, <3>1 DEF Clear, KeepOri, FrameRest
    <3>2. ASSUME NEW b, Proc(b, passes) PROVE admin' \in BOOLEAN
      BY <3>2 DEF Proc
    <3>3. CASE SenseOther
      BY <3>1, <3>3 DEF SenseOther
    <3>4. CASE SenseSpectrum(gyro, passes)
      BY <3>1, <3>2, <3>4 DEF SenseSpectrum
    <3> QED BY <2>1, <3>3, <3>4
  <2> QED BY <1>1, <2>1, <2>3, <2>4, <2>5 DEF FrameRest
<1>5. CASE Sensing
  <2>1. CASE SensingBegin
    BY <1>1, <2>1 DEF SensingBegin, FrameRest, spectrumVars
  <2> QED BY <1>4, <1>5, <2>1 DEF Sensing
<1>6. CASE OnClearOrientateCmd
  BY <1>1, <1>6 DEF OnClearOrientateCmd, Clear, FrameRest
<1>7. CASE ReportSpectrumDroneInfo
  <2>1. UNCHANGED <<lastMode, sensing, admin>>
    BY <1>7 DEF ReportSpectrumDroneInfo
  <2>2. CASE DOMAIN infos = {} /\ rpt < RptInterval
    <3>1. rpt' = rpt + 1 /\ told' = told
      BY <1>7, <2>2 DEF ReportSpectrumDroneInfo
    <3>2. rpt + 1 \in 0 .. RptInterval
      BY <1>1, <2>2, ParamFacts DEF FrameRest
    <3> QED BY <1>1, <2>1, <3>1, <3>2 DEF FrameRest
  <2>3. CASE ~(DOMAIN infos = {} /\ rpt < RptInterval)
    <3>1. rpt' = 0 /\ told' = (DOMAIN infos # {})
      BY <1>7, <2>3 DEF ReportSpectrumDroneInfo
    <3> QED BY <1>1, <1>3, <2>1, <3>1 DEF FrameRest
  <2> QED BY <2>2, <2>3
<1>8. CASE EnterOrientate
  BY <1>1, <1>8 DEF EnterOrientate, FrameRest, spectrumVars
<1>9. CASE \/ ExitOrientate \/ WriteOrientationMode
           \/ \E b \in {0, 1} : SetOrientationMode(b)
           \/ OnSetWorkModeCmd \/ OnSetFrequencyModeCmd \/ HeartBeatThread
           \/ \E s \in {"detect", "hit"} : SetRFEnable(s)
  <2>1. UNCHANGED <<lastMode, sensing, admin, told, rpt>>
    BY <1>9 DEF ExitOrientate, WriteOrientationMode, SetOrientationMode,
        OnSetWorkModeCmd, OnSetFrequencyModeCmd, HeartBeatThread,
        OnTargetWarning, OnRefreshWorkStatus, SetRFEnable, spectrumVars
  <2> QED BY <1>2, <2>1
<1>10. CASE UNCHANGED vars
  BY <1>2, <1>10 DEF vars, spectrumVars
<1> QED BY <1>5, <1>6, <1>7, <1>8, <1>9, <1>10 DEF Next, SpectrumThread, Alink

SpectrumInv == TypeOK /\ OriInv /\ WarningInv

LEMMA SpectrumInit == Init => SpectrumInv
<1> SUFFICES ASSUME Init PROVE WarningInv
  BY TypeInit, OriInit DEF SpectrumInv
<1>1. hbQ = <<>> /\ target = "gone" /\ DOMAIN infos = {} /\ Len(hbQ) = 0
  BY DEF Init
<1>2. \A j \in 1 .. Len(hbQ) : ~IsWarning(hbQ[j])
  BY <1>1
<1>3. Due(infos) = "gone"
  BY <1>1 DEF Due
<1> QED BY <1>1, <1>2, <1>3 DEF WarningInv, LastIs

LEMMA SpectrumNext == SpectrumInv /\ [Next]_vars => SpectrumInv'
<1> SUFFICES ASSUME SpectrumInv, [Next]_vars PROVE SpectrumInv'
  OBVIOUS
<1>1. TypeOK /\ OriInv /\ WarningInv
  BY DEF SpectrumInv
<1>2. TypeTable' /\ TypeOri'
  BY <1>1, TableNext, OriTypedNext
<1>3. OriInv'
  BY <1>1, OriNext
<1>4. HbTyped' /\ WarningInv'
  BY <1>1, WarningNext
<1>5. TypeMsg'
  BY <1>3, <1>4 DEF OriInv, OriType, HbTyped, TypeMsg
<1>6. TypeMode'
  <2>1. ModeRest' /\ FrameRest'
    BY <1>1, ModeRestNext, FrameRestNext
  <2> QED BY <2>1 DEF TypeMode, ModeRest, FrameRest
<1>7. TypeTable' /\ TypeOri' /\ TypeMsg' /\ TypeMode' => TypeOK'
  BY TypeParts, PTL
<1> QED BY <1>2, <1>3, <1>4, <1>5, <1>6, <1>7 DEF SpectrumInv

----------------------------------------------------------------------------
(* How long a drone stays in the table.                                    *)

\* While the sniffer answers, the frames a drone has left and those since it
\* was last in an answer stay below RemainTimes.
AgeInv ==
    counts.fail = 0 =>
        \A d \in DOMAIN infos : unseen[d] + infos[d].left < RemainTimes

LEMMA AgeNext == TypeOK /\ AgeInv /\ [Next]_vars => AgeInv'
<1> SUFFICES ASSUME TypeOK, AgeInv, [Next]_vars, (counts.fail = 0)'
             PROVE  (\A d \in DOMAIN infos : unseen[d] + infos[d].left < RemainTimes)'
  BY DEF AgeInv
<1>1. TypeTable /\ counts \in [cmd : Nat, hit : Nat, fail : Nat]
  BY TypeParts DEF TypeMode
<1>2. ASSUME UNCHANGED <<infos, unseen>>, counts'.fail = counts.fail
      PROVE  (\A d \in DOMAIN infos : unseen[d] + infos[d].left < RemainTimes)'
  BY <1>2 DEF AgeInv
<1>3. ASSUME NEW gyro \in BOOLEAN, NEW passes \in BOOLEAN, SensingEnd(gyro, passes)
      PROVE  (\A d \in DOMAIN infos : unseen[d] + infos[d].left < RemainTimes)'
  <2>1. ~SnifferFails
    BY <1>1 DEF SnifferFails
  <2>2. PICK r \in Results : SnifferAnswers(r)
    BY <1>3, <2>1 DEF SensingEnd
  <2>3. /\ resp' = r /\ counts' = counts
        /\ unseen' = [d \in Drone |-> IF d \in DOMAIN r THEN 0 ELSE Seen(unseen[d])]
    BY <2>2 DEF SnifferAnswers
  <2>4. \A d \in DOMAIN infos : unseen[d] + infos[d].left < RemainTimes
    BY <2>3 DEF AgeInv
  <2>5. CASE SenseOther
    <3>1. DOMAIN infos' = {}
      BY <2>5 DEF SenseOther
    <3> QED BY <3>1
  <2>6. CASE SenseSpectrum(gyro, passes)
    <3> DEFINE t == Aged(Merged(infos, r))
    <3>1. infos' = t
      BY <2>3, <2>6 DEF SenseSpectrum
    <3>2. /\ DOMAIN t \subseteq Drone
          /\ \A d \in DOMAIN t :
              /\ t[d] \in Entry
              /\ d \in DOMAIN r => t[d].left = RemainTimes - 1
              /\ d \notin DOMAIN r => /\ d \in DOMAIN infos
                                      /\ t[d].left = infos[d].left - 1
      BY <1>1, MergedAged
    <3> HIDE DEF t
    <3>3. ASSUME NEW d \in DOMAIN t PROVE unseen'[d] + t[d].left < RemainTimes
      <4>1. CASE d \in DOMAIN r
        <5>1. unseen'[d] = 0 /\ t[d].left = RemainTimes - 1
          BY <2>3, <3>2, <4>1
        <5> QED BY <5>1, ParamFacts
      <4>2. CASE d \notin DOMAIN r
        <5>1. /\ unseen'[d] = Seen(unseen[d])
              /\ t[d].left = infos[d].left - 1 /\ d \in DOMAIN infos
          BY <2>3, <3>2, <4>2
        <5>2. unseen[d] \in Nat /\ infos[d].left \in Nat
          BY <1>1, <5>1, ParamFacts DEF TypeTable, Entry
        <5>3. unseen[d] + infos[d].left < RemainTimes
          BY <2>4, <5>1
        <5>4. Seen(unseen[d]) \in Nat /\ Seen(unseen[d]) <= unseen[d] + 1
          BY <5>2 DEF Seen
        <5> QED BY <5>1, <5>2, <5>3, <5>4, ParamFacts
      <4> QED BY <4>1, <4>2
    <3> QED BY <3>1, <3>3
  <2> QED BY <1>3, <2>5, <2>6 DEF SensingEnd
<1>4. CASE Sensing
  <2>1. CASE SensingBegin
    BY <1>2, <2>1 DEF SensingBegin, spectrumVars
  <2> QED BY <1>3, <1>4, <2>1 DEF Sensing
<1>5. CASE EnterOrientate \/ ExitOrientate \/ \E b \in {0, 1} : SetOrientationMode(b)
  <2>1. UNCHANGED <<infos, unseen>> /\ counts' = [counts EXCEPT !.cmd = @ + 1]
    BY <1>5 DEF EnterOrientate, ExitOrientate, SetOrientationMode, Command, spectrumVars
  <2>2. counts'.fail = counts.fail
    BY <1>1, <2>1
  <2> QED BY <1>2, <2>1, <2>2
<1>6. CASE \E s \in {"detect", "hit"} : SetRFEnable(s)
  <2>1. UNCHANGED <<infos, unseen>> /\ counts' = [counts EXCEPT !.hit = @ + 1]
    BY <1>6 DEF SetRFEnable, spectrumVars
  <2>2. counts'.fail = counts.fail
    BY <1>1, <2>1
  <2> QED BY <1>2, <2>1, <2>2
<1>7. CASE \/ OnClearOrientateCmd \/ ReportSpectrumDroneInfo \/ WriteOrientationMode
           \/ OnSetWorkModeCmd \/ OnSetFrequencyModeCmd \/ HeartBeatThread
  <2>1. UNCHANGED <<infos, unseen, counts>>
    BY <1>7 DEF OnClearOrientateCmd, ReportSpectrumDroneInfo,
        WriteOrientationMode, OnSetWorkModeCmd, OnSetFrequencyModeCmd,
        HeartBeatThread, OnTargetWarning, OnRefreshWorkStatus, spectrumVars
  <2> QED BY <1>2, <2>1
<1>8. CASE UNCHANGED vars
  BY <1>2, <1>8 DEF vars, spectrumVars
<1> QED BY <1>4, <1>5, <1>6, <1>7, <1>8 DEF Next, SpectrumThread, Alink

----------------------------------------------------------------------------
(* The drone direction finding goes on with.                               *)

\* The state shows whether direction finding is on.
OpenMeansEnter == IsOpenOrientation(ori) <=> ori.step = "enter"

\* It is one of the table, or its entry was erased meanwhile.
KnownOrErased == ~IsOpenOrientation(ori) => orient \in DOMAIN infos \cup {Dangling}

KnownInv == OpenMeansEnter /\ KnownOrErased

\* A frame keeps the state true to the step, and leaves the first step only
\* when it enters.
LEMMA ProcOpen ==
  ASSUME TypeOri, OpenMeansEnter, NEW inBand \in BOOLEAN, NEW passes, Proc(inBand, passes)
  PROVE  /\ OpenMeansEnter'
         /\ IsOpenOrientation(ori) /\ ~IsOpenOrientation(ori') => inBand
<1> DEFINE Fits(o) == IsOpenOrientation(o) <=> o.step = "enter"
           oldMode == IF ori.step = "enter" /\ inBand /\ admin THEN "level" ELSE ori.mode
           o == Stepped(ori, inBand, passes)
<1>1. ori \in Ori /\ Fits(ori)
  BY DEF TypeOri, Ori, OpenMeansEnter
<1>2. ori' = SaveAngleInfo(o, oldMode)
  BY DEF Proc
<1>3. o \in Ori /\ Fits(o) /\ (o.step # "enter" /\ ori.step = "enter" => inBand)
  <2>1. /\ Enter(ori).state = "scanHori" /\ Enter(ori).step = "azimuthEnough"
        /\ AzimuthEnough(ori).state = "aimHori" /\ AzimuthEnough(ori).step = "azimuthAimed"
        /\ AzimuthAimed(ori).state = "scanPitch" /\ AzimuthAimed(ori).step = "pitchEnough"
        /\ PitchEnough(ori).state = "aimPitch" /\ PitchEnough(ori).step = "pitchAimed"
        /\ PitchAimed(ori).state = "aim" /\ PitchAimed(ori).step = "aimed"
    BY <1>1 DEF Enter, AzimuthEnough, AzimuthAimed, PitchEnough, PitchAimed, Ori
  <2>2. \/ o = ori
        \/ o = Enter(ori) /\ inBand
        \/ /\ o = [ori EXCEPT !.state = "eligible"] \/ o = [ori EXCEPT !.state = "ineligible"]
           /\ ori.step = "enter"
        \/ /\ o \in {AzimuthEnough(ori), AzimuthAimed(ori), PitchEnough(ori), PitchAimed(ori)}
           /\ ori.step # "enter"
    BY DEF Stepped
  <2>3. o \in Ori
    BY SteppedTyped
  <2> HIDE DEF o
  <2>4. CASE o = ori
    BY <1>1, <2>3, <2>4
  <2>5. CASE o = Enter(ori) /\ inBand
    BY <2>1, <2>3, <2>5 DEF IsOpenOrientation, OpenStates
  <2>6. CASE /\ o = [ori EXCEPT !.state = "eligible"] \/ o = [ori EXCEPT !.state = "ineligible"]
             /\ ori.step = "enter"
    <3>1. o.step = "enter" /\ o.state \in OpenStates
      BY <1>1, <2>6 DEF Ori, OpenStates
    <3> QED BY <2>3, <3>1 DEF IsOpenOrientation
  <2>7. CASE /\ o \in {AzimuthEnough(ori), AzimuthAimed(ori), PitchEnough(ori), PitchAimed(ori)}
             /\ ori.step # "enter"
    BY <2>1, <2>3, <2>7 DEF IsOpenOrientation, OpenStates
  <2> QED BY <2>2, <2>4, <2>5, <2>6, <2>7
<1> HIDE DEF o, oldMode
<1>4. /\ Fits(SaveAngleInfo(o, oldMode))
      /\ SaveAngleInfo(o, oldMode).step # "enter" => SaveAngleInfo(o, oldMode).step = o.step
  <2>1. CASE oldMode = "none"
    BY <1>3, <2>1 DEF SaveAngleInfo, Ori, IsOpenOrientation
  <2>2. CASE oldMode # "none" /\ ~Full(o, oldMode)
    <3>1. SaveAngleInfo(o, oldMode) = [o EXCEPT !.group = @ + 1]
      BY <2>2 DEF SaveAngleInfo
    <3> QED BY <1>3, <3>1 DEF Ori, IsOpenOrientation
  <2>3. CASE oldMode # "none" /\ Full(o, oldMode)
    <3>1. SaveAngleInfo(o, oldMode) =
            [Cleared(o) EXCEPT !.group = 0, !.level = oldMode = "level",
                               !.pitch = oldMode = "pitch"]
      BY <2>3 DEF SaveAngleInfo
    <3>2. Cleared(o) \in Ori /\ Cleared(o).step = "enter" /\ Cleared(o).state = "detect"
      BY <1>3 DEF Cleared, Ori, Steps, States, OpenStates
    <3>3. SaveAngleInfo(o, oldMode).step = "enter" /\ SaveAngleInfo(o, oldMode).state = "detect"
      BY <3>1, <3>2 DEF Ori
    <3> QED BY <3>3 DEF IsOpenOrientation, OpenStates
  <2> QED BY <2>1, <2>2, <2>3
<1>5. Fits(ori') /\ (ori'.step # "enter" => ori'.step = o.step)
  BY <1>2, <1>4
<1> QED BY <1>1, <1>3, <1>5 DEF OpenMeansEnter, IsOpenOrientation

LEMMA ClearOpens ==
  ASSUME TypeOri, Clear
  PROVE  OpenMeansEnter' /\ IsOpenOrientation(ori')
<1>1. ori'.step = "enter" /\ ori'.state = "detect"
  BY DEF TypeOri, Clear, Cleared
<1> QED BY <1>1 DEF OpenMeansEnter, IsOpenOrientation, OpenStates

LEMMA KnownNext == TypeOK /\ KnownInv /\ [Next]_vars => KnownInv'
<1> SUFFICES ASSUME TypeOK, KnownInv, [Next]_vars PROVE KnownInv'
  OBVIOUS
<1>1. TypeOri /\ TypeTable
  BY TypeParts
<1>2. ASSUME UNCHANGED <<ori, orient, infos>> PROVE KnownInv'
  BY <1>2 DEF KnownInv, OpenMeansEnter, KnownOrErased
<1>3. ASSUME Clear PROVE KnownInv'
  BY <1>1, <1>3, ClearOpens DEF KnownInv, KnownOrErased
<1>4. ASSUME NEW gyro \in BOOLEAN, NEW passes \in BOOLEAN, SensingEnd(gyro, passes)
      PROVE  KnownInv'
  <2>1. CASE SenseOther
    BY <1>3, <2>1 DEF SenseOther
  <2>2. CASE SenseSpectrum(gyro, passes)
    <3> DEFINE t == Aged(Merged(infos, resp'))
    <3>1. infos' = t /\ orient' = OrientAfter(t)
          /\ (Proc(InBand(t), passes) \/ Clear \/ KeepOri)
      BY <2>2 DEF SenseSpectrum
    <3> HIDE DEF t
    <3>2. ~IsOpenOrientation(ori) => orient' \in DOMAIN t \cup {Dangling}
      BY <3>1 DEF OrientAfter, KnownInv, KnownOrErased
    <3>3. InBand(t) => orient' \in DOMAIN t
      BY <3>1 DEF InBand
    <3>4. CASE Proc(InBand(t), passes)
      <4>1. InBand(t) \in BOOLEAN
        BY DEF InBand
      <4>2. OpenMeansEnter' /\ (IsOpenOrientation(ori) /\ ~IsOpenOrientation(ori') => InBand(t))
        BY <1>1, <3>4, <4>1, ProcOpen DEF KnownInv
      <4> QED BY <3>1, <3>2, <3>3, <4>2 DEF KnownInv, KnownOrErased
    <3>5. CASE KeepOri
      BY <3>1, <3>2, <3>5 DEF KeepOri, KnownInv, OpenMeansEnter, KnownOrErased
    <3> QED BY <1>3, <3>1, <3>4, <3>5
  <2> QED BY <1>4, <2>1, <2>2 DEF SensingEnd
<1>5. CASE Sensing
  <2>1. CASE SensingBegin
    BY <1>2, <2>1 DEF SensingBegin, spectrumVars
  <2> QED BY <1>4, <1>5, <2>1 DEF Sensing
<1>6. CASE OnClearOrientateCmd
  BY <1>3, <1>6 DEF OnClearOrientateCmd
<1>7. CASE \/ ReportSpectrumDroneInfo \/ Alink
           \/ OnSetWorkModeCmd \/ OnSetFrequencyModeCmd \/ HeartBeatThread
           \/ \E s \in {"detect", "hit"} : SetRFEnable(s)
  <2>1. UNCHANGED <<ori, orient, infos>>
    BY <1>7 DEF ReportSpectrumDroneInfo, Alink,
        EnterOrientate, ExitOrientate, SetOrientationMode,
        WriteOrientationMode, OnSetWorkModeCmd, OnSetFrequencyModeCmd,
        HeartBeatThread, OnTargetWarning, OnRefreshWorkStatus, SetRFEnable,
        spectrumVars
  <2> QED BY <1>2, <2>1
<1>8. CASE UNCHANGED vars
  BY <1>2, <1>8 DEF vars, spectrumVars
<1> QED BY <1>5, <1>6, <1>7, <1>8 DEF Next, SpectrumThread

----------------------------------------------------------------------------
(* The theorems.                                                           *)

\* FREQUENCY holds one frequency exactly while OrientationProc is beyond its
\* first step, for every number of drones and every scan length above one.
THEOREM FreqTheorem == Spec => []FreqFollowsOrientation
<1>1. OriInv => FreqFollowsOrientation
  BY DEF OriInv
<1> QED BY OriInit, OriNext, <1>1, PTL DEF Spec

\* No step of OrientationProc aims at a bearing that was not computed since
\* direction finding was entered.
THEOREM AimTheorem == Spec => []AimedMeansFound
<1>1. OriInv => AimedMeansFound
  BY DEF OriInv
<1> QED BY OriInit, OriNext, <1>1, PTL DEF Spec

\* OrientationProc is beyond its first step only when the last frame Sensing
\* compared the mode of was in the orienting mode.
THEOREM ModeTheorem == Spec => []OnlyOrieOrients
<1>1. Init => OnlyOrieOrients
  BY DEF Init, OnlyOrieOrients
<1> QED BY OriInit, OriNext, OrieNext, <1>1, PTL DEF Spec

\* The report controller never puts off the report of an emptied table.
THEOREM ReportTheorem == Spec => []EmptyReportedAtOnce
<1>1. Init => ReportInv
  BY DEF Init, ReportInv, EmptyReportedAtOnce
<1>2. ReportInv => EmptyReportedAtOnce
  BY DEF ReportInv
<1> QED BY ReportNext, <1>1, <1>2, PTL DEF Spec

\* Every variable of the model keeps its type; for orient that takes a loudest
\* drone in every table that is not empty.
THEOREM SpectrumTypeTheorem == Spec => []TypeOK
<1>1. SpectrumInv => TypeOK
  BY DEF SpectrumInv
<1> QED BY SpectrumInit, SpectrumNext, <1>1, PTL DEF Spec

\* The last warning sent to HEARTBEAT says whether the table lists a drone,
\* whatever else is in the queue.
THEOREM WarningTheorem == Spec => []WarningFollowsTable
<1>1. SpectrumInv => WarningFollowsTable
  <2> SUFFICES ASSUME SpectrumInv PROVE WarningFollowsTable
    OBVIOUS
  <2>1. hbQ \in Seq(HbMsg) /\ LastIs(hbQ, target, Due(infos))
    BY TypeParts DEF SpectrumInv, TypeMsg, WarningInv
  <2>2. LastWarning = Due(infos)
    BY <2>1, LastIsLast
  <2> QED BY <2>2 DEF Due, WarningFollowsTable
<1> QED BY SpectrumInit, SpectrumNext, <1>1, PTL DEF Spec

\* While the sniffer answers, no drone is in the table that was in none of
\* its answers for RemainTimes frames.
THEOREM GoneTheorem == Spec => []GoneAfterThreeRounds
<1>1. Init => AgeInv
  BY DEF Init, AgeInv
<1>2. TypeOK /\ AgeInv => GoneAfterThreeRounds
  <2> SUFFICES ASSUME TypeOK, AgeInv, counts.fail = 0, NEW d \in DOMAIN infos
               PROVE  unseen[d] < RemainTimes
    BY DEF GoneAfterThreeRounds
  <2>1. unseen[d] \in Nat /\ infos[d].left \in Nat /\ RemainTimes \in Nat
    BY TypeParts, ParamFacts DEF TypeTable, Entry
  <2>2. unseen[d] + infos[d].left < RemainTimes
    BY DEF AgeInv
  <2> QED BY <2>1, <2>2
<1>3. SpectrumInv => TypeOK
  BY DEF SpectrumInv
<1> QED BY SpectrumInit, SpectrumNext, AgeNext, <1>1, <1>2, <1>3, PTL DEF Spec

\* The only way for direction finding to go on with a drone that is not in
\* the table is that the entry its iterator points to was erased: it never
\* goes on with none at all.
THEOREM ErasedTheorem == Spec => []KnownOrErased
<1>1. Init => KnownInv
  BY DEF Init, KnownInv, OpenMeansEnter, KnownOrErased, IsOpenOrientation, OpenStates
<1>2. KnownInv => KnownOrErased
  BY DEF KnownInv
<1>3. SpectrumInv => TypeOK
  BY DEF SpectrumInv
<1> QED BY SpectrumInit, SpectrumNext, KnownNext, <1>1, <1>2, <1>3, PTL DEF Spec

=============================================================================
