---------------------------- MODULE EapHealth_proofs ----------------------------
(***************************************************************************)
(* Health detection for any number of threads, any room for probes and any *)
(* period of the timer: types, the verdict of a round, and that a round    *)
(* under way has a timer or a message pending that carries it on.          *)
(***************************************************************************)
EXTENDS EapHealth, TLAPS

----------------------------------------------------------------------------
(* Types.                                                                  *)

Requests == {<<>>} \cup {<<c>> : c \in Control \cup {Detect}}

LEMMA RequestLength ==
  ASSUME NEW r \in Requests
  PROVE  Len(r) \in 0 .. 1 /\ (r # <<>> => Head(r) \in Control \cup {Detect})
BY DEF Requests

LEMMA ConstantsType == N \in Nat \ {0} /\ ProbeRoom \in Nat \ {0} /\ Period \in Nat \ {0} /\ MaxCmd \in Nat
BY HealthAssumption

\* The queue of HEALTH_DETECT takes one message.
LEMMA RoomIsEmpty ==
  ASSUME TypeOK, Room
  PROVE  expired = 0
<1>1. Len(request) \in 0 .. 1 /\ expired \in 0 .. 1
  BY RequestLength DEF TypeOK, Requests
<1> QED BY <1>1 DEF Room

LEMMA InitType == Init => TypeOK
<1> SUFFICES ASSUME Init PROVE TypeOK
  OBVIOUS
<1>1. 1 \in Worker /\ Period \in 0 .. Period /\ 0 \in 0 .. MaxCmd /\ 0 \in 0 .. ProbeRoom /\ 0 \in 0 .. 1
  BY ConstantsType DEF Worker
<1> QED BY <1>1 DEF Init, TypeOK, State, Health

\* The operator's commands, and the commands HEALTH_DETECT executes.
LEMMA CommandType == TypeOK /\ (CommandDetect \/ CommandControl) => TypeOK'
<1> SUFFICES ASSUME TypeOK, CommandDetect \/ CommandControl PROVE TypeOK'
  OBVIOUS
<1>1. cmdCnt' \in 0 .. MaxCmd
  <2>1. cmdCnt \in 0 .. MaxCmd /\ cmdCnt < MaxCmd /\ cmdCnt' = cmdCnt + 1
    BY DEF TypeOK, CommandDetect, CommandControl
  <2> QED BY <2>1, ConstantsType
<1>2. request' \in Requests
  BY DEF CommandDetect, CommandControl, Requests
<1>3. UNCHANGED <<state, health, workers, expired, hpc, at, timer, round, answered, accused, rearmed, lost>>
  BY DEF CommandDetect, CommandControl
<1> QED BY <1>1, <1>2, <1>3 DEF TypeOK, Requests, workers, timer

LEMMA RequestType == TypeOK /\ HRequest => TypeOK'
<1> SUFFICES ASSUME TypeOK, HRequest PROVE TypeOK'
  OBVIOUS
<1>1. UNCHANGED <<health, workers, expired, timer, cmdCnt, answered, accused, rearmed, lost>>
  BY DEF HRequest
<1>2. request' = <<>>
  BY DEF HRequest
<1>3. hpc' \in {"ready", "mark"} /\ round' \in {round, "open"} /\ at' \in {at, 1}
  BY DEF HRequest
<1>4. 1 \in Worker
  BY ConstantsType DEF Worker
<1>5. state' \in [Threads -> State]
  <2>1. CASE state' = state
    BY <2>1 DEF TypeOK
  <2>2. CASE state' # state
    <3> DEFINE c == Head(request)
    <3>1. /\ c # Detect /\ request # <<>>
          /\ state' = [t \in Threads |-> IF t = c.to \/ (c.to = ALL /\ t # HEALTH) THEN c.op ELSE state[t]]
      BY <2>2 DEF HRequest
    <3>2. c \in Control
      BY <3>1, RequestLength DEF TypeOK, Requests
    <3>3. c.op \in State /\ state \in [Threads -> State]
      BY <3>2 DEF Control, TypeOK
    <3> QED BY <3>1, <3>3
  <2> QED BY <2>1, <2>2
<1> QED BY <1>1, <1>2, <1>3, <1>4, <1>5 DEF TypeOK, workers, timer

\* The other steps of HEALTH_DETECT: its loops stay among the workers.
LEMMA HealthType ==
  TypeOK /\ (HEnter \/ HTimer \/ HMark \/ HProbe \/ HArm \/ HEndRead \/ HEndWrite) => TypeOK'
<1> SUFFICES ASSUME TypeOK, HEnter \/ HTimer \/ HMark \/ HProbe \/ HArm \/ HEndRead \/ HEndWrite
             PROVE  TypeOK'
  OBVIOUS
<1>1. 1 \in Worker /\ (at # N => at + 1 \in Worker) /\ Period \in 0 .. Period
  BY ConstantsType DEF Worker, TypeOK
<1>2. CASE HEnter
  BY <1>2 DEF HEnter, TypeOK, workers, timer
<1>3. CASE HTimer
  <2>1. expired \in 0 .. 1 /\ expired > 0 /\ expired' = expired - 1
    BY <1>3 DEF HTimer, TypeOK
  <2>2. expired' \in 0 .. 1
    BY <2>1
  <2> QED BY <1>1, <1>3, <2>2 DEF HTimer, TypeOK, workers, timer
<1>4. CASE HMark
  BY <1>4 DEF HMark, TypeOK, workers, timer, Health
<1>5. CASE HProbe
  <2>1. (IF probes[at] < ProbeRoom THEN probes[at] + 1 ELSE probes[at]) \in 0 .. ProbeRoom
    BY ConstantsType DEF TypeOK
  <2>2. probes' \in [Worker -> 0 .. ProbeRoom]
    BY <1>5, <2>1 DEF HProbe, TypeOK
  <2> QED BY <1>1, <1>5, <2>2 DEF HProbe, TypeOK, timer
<1>6. CASE HArm
  BY <1>1, <1>6 DEF HArm, TypeOK, workers
<1>7. CASE HEndRead
  BY <1>1, <1>7 DEF HEndRead, TypeOK, workers, timer
<1>8. CASE HEndWrite
  BY <1>1, <1>8 DEF HEndWrite, TypeOK, workers, timer, Health
<1> QED BY <1>2, <1>3, <1>4, <1>5, <1>6, <1>7, <1>8

LEMMA WorkerType ==
  ASSUME TypeOK, NEW w \in Worker, WorkerStep(w)
  PROVE  TypeOK'
<1>1. CASE WEnter(w)
  BY <1>1 DEF WEnter, TypeOK, timer
<1>2. CASE WConsume(w)
  <2>1. probes[w] - 1 \in 0 .. ProbeRoom
    BY <1>2, ConstantsType DEF WConsume, TypeOK
  <2>2. probes' \in [Worker -> 0 .. ProbeRoom]
    BY <1>2, <2>1 DEF WConsume, TypeOK
  <2> QED BY <1>2, <2>2 DEF WConsume, TypeOK, timer
<1>3. CASE WWell(w)
  BY <1>3 DEF WWell, TypeOK, timer, Health
<1> QED BY <1>1, <1>2, <1>3 DEF WorkerStep

LEMMA TimerType == TypeOK /\ TimerStep => TypeOK'
<1> SUFFICES ASSUME TypeOK, TimerStep PROVE TypeOK'
  OBVIOUS
<1>1. CASE TSweep
  <2>1. times' \in 0 .. Period
    BY <1>1, ConstantsType DEF TSweep, TypeOK
  <2> QED BY <1>1, <2>1 DEF TSweep, TypeOK, workers
<1>2. CASE TJob
  <2>1. expired' \in 0 .. 1
    BY <1>2, RoomIsEmpty DEF TJob, TypeOK
  <2> QED BY <1>2, <2>1 DEF TJob, TypeOK, workers
<1>3. CASE TClear
  BY <1>3 DEF TClear, TypeOK, workers
<1>4. CASE TReload
  BY <1>4, ConstantsType DEF TReload, TypeOK, workers
<1> QED BY <1>1, <1>2, <1>3, <1>4 DEF TimerStep

(* Workers, HEALTH_DETECT and TimerThread share the health words and the   *)
(* timer entry without a lock and stay in their types: the loops end with  *)
(* the last thread, and the queue of HEALTH_DETECT holds one message.      *)
THEOREM HealthTypeTheorem == Spec => []TypeOK
<1>1. TypeOK /\ UNCHANGED vars => TypeOK'
  BY DEF TypeOK, vars, workers, timer
<1>2. TypeOK /\ [Next]_vars => TypeOK'
  BY <1>1, CommandType, RequestType, HealthType, WorkerType, TimerType DEF Next, HealthStep
<1> QED BY <1>2, InitType, PTL DEF Spec

----------------------------------------------------------------------------
(* The verdict.                                                            *)

\* Marking happens in an open round only, and the loop of EndDetectRunHealth
\* leaves nobody behind: those it has passed are not being tested, and the one
\* it is about to write was found unanswered.
VerdictInv ==
    /\ VerdictIsFair
    /\ \A w \in Worker : health[w] = "testing" => w \notin answered
    /\ hpc \in {"mark", "probe", "arm"} => round = "open"
    /\ hpc \in {"endread", "endwrite"} => \A w \in Worker : w < at => health[w] # "testing"
    /\ hpc = "endwrite" => at \in accused

\* The end of the loop: all threads have been passed.
LEMMA LoopEnd ==
  ASSUME TypeOK, NEW w \in Worker, w # at, at = N
  PROVE  w < at
BY ConstantsType DEF TypeOK, Worker

LEMMA LoopNext ==
  ASSUME TypeOK, NEW w \in Worker, w < at + 1
  PROVE  w < at \/ w = at
BY ConstantsType DEF TypeOK, Worker

LEMMA VerdictStep == TypeOK /\ VerdictInv /\ [Next]_vars => VerdictInv'
<1> SUFFICES ASSUME TypeOK, VerdictInv, [Next]_vars PROVE VerdictInv'
  OBVIOUS
<1> USE DEF VerdictInv, VerdictIsFair
<1>0. health \in [Worker -> Health] /\ at \in Worker
  BY DEF TypeOK
<1>1. ASSUME UNCHANGED <<health, answered, accused, round, at>>,
             \/ hpc' = hpc \/ hpc' = "recv" \/ hpc' = "ready"
      PROVE  VerdictInv'
  BY <1>1
<1>2. CASE HTimer
  <2>1. UNCHANGED <<health, answered, accused, round>> /\ (hpc' = "ready" \/ (hpc' = "endread" /\ at' = 1))
    BY <1>2 DEF HTimer
  <2>2. \A w \in Worker : ~(w < 1)
    BY ConstantsType DEF Worker
  <2> QED BY <2>1, <2>2
<1>3. CASE HRequest
  BY <1>3 DEF HRequest
<1>4. CASE HMark
  <2>1. /\ hpc = "mark" /\ hpc' = "probe" /\ round' = round
        /\ health' = [health EXCEPT ![at] = "testing"]
        /\ answered' = answered \ {at} /\ accused' = accused \ {at}
    BY <1>4 DEF HMark
  <2>2. health'[at] = "testing" /\ \A w \in Worker : w # at => health'[w] = health[w]
    BY <1>0, <2>1
  <2> QED BY <2>1, <2>2
<1>5. CASE HProbe
  BY <1>5 DEF HProbe
<1>6. CASE HEndRead
  <2>1. /\ hpc = "endread" /\ UNCHANGED <<health, answered>>
        /\ accused' = IF health[at] = "testing" /\ at \notin answered THEN accused \cup {at} ELSE accused
    BY <1>6 DEF HEndRead
  <2>2. CASE health[at] = "testing"
    <3>1. hpc' = "endwrite" /\ at' = at /\ round' = round /\ accused' = accused \cup {at}
      BY <1>0, <1>6, <2>1, <2>2 DEF HEndRead
    <3> QED BY <2>1, <3>1
  <2>3. CASE health[at] # "testing" /\ at = N
    <3>1. hpc' = "ready" /\ accused' = accused
      BY <1>6, <2>1, <2>3 DEF HEndRead
    <3>2. \A w \in Worker : health[w] # "testing"
      BY <2>1, <2>3, LoopEnd
    <3> QED BY <2>1, <3>1, <3>2
  <2>4. CASE health[at] # "testing" /\ at # N
    <3>1. hpc' = "endread" /\ at' = at + 1 /\ round' = round /\ accused' = accused
      BY <1>6, <2>1, <2>4 DEF HEndRead
    <3>2. \A w \in Worker : w < at + 1 => health[w] # "testing"
      BY <2>1, <2>4, LoopNext
    <3> QED BY <2>1, <3>1, <3>2
  <2> QED BY <2>2, <2>3, <2>4
<1>7. CASE HEndWrite
  <2>1. /\ hpc = "endwrite" /\ UNCHANGED <<answered, accused>>
        /\ health' = [health EXCEPT ![at] = "bad"]
    BY <1>7 DEF HEndWrite
  <2>2. health'[at] = "bad" /\ \A w \in Worker : w # at => health'[w] = health[w]
    BY <1>0, <2>1
  <2>3. CASE at = N
    <3>1. hpc' = "ready"
      BY <1>7, <2>3 DEF HEndWrite
    <3>2. \A w \in Worker : health'[w] # "testing"
      BY <2>1, <2>2, <2>3, LoopEnd
    <3> QED BY <2>1, <2>2, <3>1, <3>2
  <2>4. CASE at # N
    <3>1. hpc' = "endread" /\ at' = at + 1 /\ round' = round
      BY <1>7, <2>4 DEF HEndWrite
    <3>2. \A w \in Worker : w < at + 1 => health'[w] # "testing"
      BY <2>1, <2>2, LoopNext
    <3> QED BY <2>1, <2>2, <3>1, <3>2
  <2> QED BY <2>3, <2>4
<1>8. ASSUME NEW w \in Worker, WWell(w) PROVE VerdictInv'
  <2>1. /\ health' = [health EXCEPT ![w] = "well"] /\ answered' = answered \cup {w}
        /\ UNCHANGED <<hpc, at, round, accused>>
    BY <1>8 DEF WWell
  <2>2. health'[w] = "well" /\ \A u \in Worker : u # w => health'[u] = health[u]
    BY <1>0, <2>1
  <2> QED BY <2>1, <2>2
<1>9. ASSUME NEW w \in Worker, WEnter(w) \/ WConsume(w) PROVE VerdictInv'
  BY <1>1, <1>9 DEF WEnter, WConsume
<1>10. CASE CommandDetect \/ CommandControl \/ HEnter \/ HArm \/ TimerStep \/ UNCHANGED vars
  BY <1>1, <1>10 DEF CommandDetect, CommandControl, HEnter, HArm, TimerStep, TSweep, TJob, TClear,
                     TReload, vars
<1> QED BY <1>2, <1>3, <1>4, <1>5, <1>6, <1>7, <1>8, <1>9, <1>10 DEF Next, HealthStep, WorkerStep

(* The verdict of a round holds although the threads write their health    *)
(* words while EndDetectRunHealth reads and writes them: nobody is left    *)
(* "testing", and a bad thread was found unanswered in this round.         *)
THEOREM VerdictTheorem == Spec => []VerdictIsFair
<1>1. Init => VerdictInv
  BY DEF Init, VerdictInv, VerdictIsFair
<1>2. VerdictInv => VerdictIsFair
  BY DEF VerdictInv
<1> QED BY <1>1, <1>2, HealthTypeTheorem, VerdictStep, PTL DEF Spec

----------------------------------------------------------------------------
(* What an open round waits for.                                           *)

\* HEALTH_DETECT is in the middle of opening or ending a round.
Busy == hpc \in {"mark", "probe", "arm", "endread", "endwrite"}

\* An open round is on its way: it is being opened or ended, its timer runs, or
\* the message of the timer is in the queue.
RoundIsPending == round = "open" /\ ~lost => Busy \/ expired > 0 \/ valid

\* The sweep of TimerThread clears isValid after the message was sent; from then
\* on only that message ends the round, unless the timer was set again.
RoundInv ==
    /\ RoundIsPending
    /\ round = "open" /\ ~lost /\ tpc = "clear" /\ ~rearmed => Busy \/ expired > 0

LEMMA RoundHealth ==
  ASSUME TypeOK, RoundInv, HealthStep, state[HEALTH] # "idling"
  PROVE  RoundInv'
<1>1. ASSUME UNCHANGED <<round, expired, timer, rearmed, lost>>, Busy => Busy' PROVE RoundInv'
  BY <1>1 DEF RoundInv, RoundIsPending, timer
<1>2. CASE HEnter
  BY <1>1, <1>2 DEF HEnter, Busy
<1>3. CASE HTimer
  BY <1>3 DEF HTimer, RoundInv, RoundIsPending, Busy
<1>4. CASE HRequest
  <2>1. CASE hpc' = "mark"
    BY <2>1 DEF RoundInv, RoundIsPending, Busy
  <2>2. CASE hpc' # "mark"
    BY <1>1, <1>4, <2>2 DEF HRequest, Busy
  <2> QED BY <2>1, <2>2
<1>5. CASE HMark \/ HProbe
  BY <1>1, <1>5 DEF HMark, HProbe, Busy
<1>6. CASE HArm
  <2>1. valid' = TRUE /\ (tpc' = "clear" => rearmed')
    BY <1>6 DEF HArm, TypeOK
  <2> QED BY <2>1 DEF RoundInv, RoundIsPending
<1>7. CASE HEndRead \/ HEndWrite
  <2>1. CASE Busy'
    BY <2>1 DEF RoundInv, RoundIsPending
  <2>2. CASE ~Busy'
    <3>1. hpc' = "ready"
      BY <1>7, <2>2 DEF HEndRead, HEndWrite, Busy
    <3>2. round' # "open"
      BY <1>7, <3>1 DEF HEndRead, HEndWrite
    <3> QED BY <3>2 DEF RoundInv, RoundIsPending
  <2> QED BY <2>1, <2>2
<1> QED BY <1>2, <1>3, <1>4, <1>5, <1>6, <1>7 DEF HealthStep

LEMMA RoundTimer == ASSUME TypeOK, RoundInv, TimerStep PROVE RoundInv'
<1>1. UNCHANGED <<round, hpc>>
  BY DEF TimerStep, TSweep, TJob, TClear, TReload
<1>2. CASE TSweep
  BY <1>1, <1>2 DEF TSweep, RoundInv, RoundIsPending, Busy
<1>3. CASE TJob
  <2>1. UNCHANGED valid /\ expired \in 0 .. 1 /\ expired' \in {expired, expired + 1}
        /\ (expired > 0 => expired' > 0)
    BY <1>3 DEF TJob, TypeOK
  <2>2. CASE Room
    <3>1. expired' > 0
      BY <1>3, <2>1, <2>2 DEF TJob
    <3> QED BY <3>1 DEF RoundInv, RoundIsPending
  <2>3. CASE ~Room /\ tpc = "job"
    <3>1. tpc' = "resend" /\ (lost' => lost) /\ (lost => lost')
      BY <1>3, <2>3 DEF TJob
    <3> QED BY <1>1, <2>1, <3>1 DEF RoundInv, RoundIsPending, Busy
  <2>4. CASE ~Room /\ tpc = "resend"
    <3>1. lost'
      BY <1>3, <2>4 DEF TJob
    <3> QED BY <3>1 DEF RoundInv, RoundIsPending
  <2> QED BY <1>3, <2>2, <2>3, <2>4 DEF TJob
<1>4. CASE TClear
  BY <1>1, <1>4 DEF TClear, RoundInv, RoundIsPending, Busy, TypeOK
<1>5. CASE TReload
  BY <1>1, <1>5 DEF TReload, RoundInv, RoundIsPending, Busy
<1> QED BY <1>2, <1>3, <1>4, <1>5 DEF TimerStep

LEMMA RoundStep ==
  TypeOK /\ RoundInv /\ state[HEALTH] # "idling" /\ [Next]_vars => RoundInv'
<1> SUFFICES ASSUME TypeOK, RoundInv, state[HEALTH] # "idling", [Next]_vars PROVE RoundInv'
  OBVIOUS
<1>1. ASSUME UNCHANGED <<round, hpc, expired, timer, rearmed, lost>> PROVE RoundInv'
  BY <1>1 DEF RoundInv, RoundIsPending, Busy, timer
<1>2. CASE CommandDetect \/ CommandControl \/ UNCHANGED vars
  BY <1>1, <1>2 DEF CommandDetect, CommandControl, vars
<1>3. ASSUME NEW w \in Worker, WorkerStep(w) PROVE RoundInv'
  BY <1>1, <1>3 DEF WorkerStep, WEnter, WConsume, WWell
<1> QED BY <1>2, <1>3, RoundHealth, RoundTimer DEF Next

(* As long as the operator does not idle HEALTH_DETECT, an open round      *)
(* never waits for nothing: somebody opens or ends it, its timer runs or   *)
(* the message of its timer is in the queue.  The two ways to miss it are  *)
(* the ones "lost" records (StartDelayTimer during the sweep of            *)
(* TimerThread, a timer message that is refused twice).                    *)
THEOREM RoundTheorem == Spec /\ [](state[HEALTH] # "idling") => []RoundIsPending
<1>1. Init => RoundInv
  BY DEF Init, RoundInv, RoundIsPending
<1>2. RoundInv => RoundIsPending
  BY DEF RoundInv
<1> QED BY <1>1, <1>2, HealthTypeTheorem, RoundStep, PTL DEF Spec
=============================================================================
