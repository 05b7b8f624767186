----------------------------- MODULE EapHealth -----------------------------
(***************************************************************************)
(* Health detection rounds.  The HEALTH_DETECT thread marks every thread   *)
(* as being tested, sends it a probe, and arms a one-shot timer; when the  *)
(* timer message comes back it reports every thread still being tested as  *)
(* bad.  A thread is well when it has come through a dispatch of a probe.  *)
(* Workers, HEALTH_DETECT and TimerThread run concurrently and share the   *)
(* health words and the timer entry without a lock.  HEALTH_DETECT also    *)
(* executes the operator's pause, idling and resume commands.              *)
(***************************************************************************)
EXTENDS Integers, Sequences

CONSTANTS
    N,          \* the workers are the threads 1 .. N, in registration order
    ProbeRoom,  \* probes the queue of a worker can hold
    Period,     \* sweeps until the one-shot timer expires
    MaxCmd      \* bound on the commands of the operator

ASSUME HealthAssumption ==
    /\ {N, ProbeRoom, Period} \subseteq Nat \ {0}
    /\ MaxCmd \in Nat

HEALTH == 0     \* the HEALTH_DETECT thread itself
ALL    == -1    \* UINT16_ALL
Worker == 1 .. N
Threads == {HEALTH} \cup Worker

State   == {"working", "idling", "pause"}
Health  == {"well", "testing", "bad"}
Control == [op : State, to : Threads \cup {ALL}]
Detect  == [op |-> "detect", to |-> ALL]

VARIABLES
    state,      \* state[t]: _state of a worker or of HEALTH_DETECT
    health,     \* health[w]: _runHealthState
    probes,     \* probes[w]: probes in the queue of worker w
    wpc,        \* wpc[w]: where worker w is in Run
    request,    \* the commands in the queue of HEALTH_DETECT, at most one
    expired,    \* the timer messages in the queue of HEALTH_DETECT, at most one
    hpc,        \* where HEALTH_DETECT is
    at,         \* the worker its loop over the threads is at
    valid,      \* isValid of its entry in timerInfoVector
    times,      \* times of that entry
    tpc,        \* where TimerThread is in its sweep over that entry
    cmdCnt,     \* commands of the operator given
    round,      \* history: "none", "open" (probing or waiting) or "ended"
    answered,   \* history: workers that came through a probe since being marked
    accused,    \* history: workers found unanswered by EndDetectRunHealth
    rearmed,    \* history: the entry was set again after its timer_job ran
    lost        \* history: an end-of-round message was dropped or a re-armed
                \*          timer was cleared

workers == <<probes, wpc>>
timer   == <<valid, times, tpc>>
vars == <<state, health, workers, request, expired, hpc, at, timer, cmdCnt,
          round, answered, accused, rearmed, lost>>

\* The queue of HEALTH_DETECT holds one message: _InitQueue leaves num = 0.
Room == Len(request) + expired < 1

Init ==
    /\ state = [t \in Threads |-> "working"]
    /\ health = [w \in Worker |-> "well"]
    /\ probes = [w \in Worker |-> 0]
    /\ wpc = [w \in Worker |-> "ready"]
    /\ request = <<>> /\ expired = 0
    /\ hpc = "ready" /\ at = 1
    /\ valid = TRUE /\ times = Period /\ tpc = "wait"
    /\ cmdCnt = 0
    /\ round = "none" /\ answered = {} /\ accused = {}
    /\ rearmed = FALSE /\ lost = FALSE

----------------------------------------------------------------------------
(* The operator's commands; a full queue refuses them.                     *)

CommandDetect ==
    /\ cmdCnt < MaxCmd /\ cmdCnt' = cmdCnt + 1
    /\ Room
    /\ request' = <<Detect>>
    /\ UNCHANGED <<state, health, workers, expired, hpc, at, timer,
                   round, answered, accused, rearmed, lost>>

CommandControl ==
    /\ cmdCnt < MaxCmd /\ cmdCnt' = cmdCnt + 1
    /\ Room
    /\ \E c \in Control : request' = <<c>>
    /\ UNCHANGED <<state, health, workers, expired, hpc, at, timer,
                   round, answered, accused, rearmed, lost>>

----------------------------------------------------------------------------
(* HEALTH_DETECT                                                           *)

HEnter ==
    /\ hpc = "ready"
    /\ state[HEALTH] # "pause"
    /\ hpc' = "recv"
    /\ UNCHANGED <<state, health, workers, request, expired, at, timer, cmdCnt,
                   round, answered, accused, rearmed, lost>>

\* _OnTimer: the timer message, first because of its priority.
HTimer ==
    /\ hpc = "recv"
    /\ expired > 0
    /\ expired' = expired - 1
    /\ IF state[HEALTH] = "idling" THEN hpc' = "ready" /\ UNCHANGED at
       ELSE hpc' = "endread" /\ at' = 1
    /\ UNCHANGED <<state, health, workers, request, timer, cmdCnt,
                   round, answered, accused, rearmed, lost>>

\* _OnRunHealthDetect, _OnThreadRunPause, _OnThreadRunIdling, _OnThreadRunResume
HRequest ==
    /\ hpc = "recv"
    /\ expired = 0
    /\ request # <<>>
    /\ request' = <<>>
    /\ LET c == Head(request) IN
       IF state[HEALTH] = "idling"
       THEN hpc' = "ready" /\ UNCHANGED <<state, at, round>>
       ELSE IF c = Detect
       THEN hpc' = "mark" /\ at' = 1 /\ round' = "open" /\ UNCHANGED state
       ELSE /\ hpc' = "ready"
            /\ state' = [t \in Threads |->
                  IF t = c.to \/ (c.to = ALL /\ t # HEALTH) THEN c.op ELSE state[t]]
            /\ UNCHANGED <<at, round>>
    /\ UNCHANGED <<health, workers, expired, timer, cmdCnt,
                   answered, accused, rearmed, lost>>

\* BeginDetectRunHealth of the worker at hand ...
HMark ==
    /\ hpc = "mark"
    /\ health' = [health EXCEPT ![at] = "testing"]
    /\ answered' = answered \ {at} /\ accused' = accused \ {at}
    /\ hpc' = "probe"
    /\ UNCHANGED <<state, workers, request, expired, at, timer, cmdCnt,
                   round, rearmed, lost>>

\* Mutant of HProbe: the result of the send is not looked at by the queue.
HProbeUnbounded ==
    /\ hpc = "probe"
    /\ probes' = [probes EXCEPT ![at] = @ + 1]
    /\ hpc' = IF at = N THEN "arm" ELSE "mark"
    /\ at' = IF at = N THEN 1 ELSE at + 1
    /\ UNCHANGED <<state, health, wpc, request, expired, timer, cmdCnt,
                   round, answered, accused, rearmed, lost>>

\* ... and its probe, refused by a full queue without further notice.
HProbe ==
    /\ hpc = "probe"
    /\ probes' = [probes EXCEPT ![at] = IF @ < ProbeRoom THEN @ + 1 ELSE @]
    /\ hpc' = IF at = N THEN "arm" ELSE "mark"
    /\ at' = IF at = N THEN 1 ELSE at + 1
    /\ UNCHANGED <<state, health, wpc, request, expired, timer, cmdCnt,
                   round, answered, accused, rearmed, lost>>

\* Mutant of HArm: the expired entry keeps isValid = false.
HArmStaysInvalid ==
    /\ hpc = "arm"
    /\ times' = Period
    /\ hpc' = "ready"
    /\ UNCHANGED <<state, health, workers, request, expired, at, valid, tpc, cmdCnt,
                   round, answered, accused, rearmed, lost>>

\* StartDelayTimer: AddTimerInfo finds the entry by name and overwrites it.
HArm ==
    /\ hpc = "arm"
    /\ valid' = TRUE /\ times' = Period
    /\ rearmed' = (tpc \in {"clear", "reload"} \/ rearmed)
    /\ hpc' = "ready"
    /\ UNCHANGED <<state, health, workers, request, expired, at, tpc, cmdCnt,
                   round, answered, accused, lost>>

\* Mutant of HEndRead: every thread is reported, well or not.
HEndReadBlind ==
    /\ hpc = "endread"
    /\ hpc' = "endwrite"
    /\ accused' = IF health[at] = "testing" /\ at \notin answered
                  THEN accused \cup {at} ELSE accused
    /\ UNCHANGED <<state, health, workers, request, expired, at, timer, cmdCnt,
                   round, answered, rearmed, lost>>

\* EndDetectRunHealth of the worker at hand: the comparison ...
HEndRead ==
    /\ hpc = "endread"
    /\ hpc' = IF health[at] = "testing" THEN "endwrite"
              ELSE IF at = N THEN "ready" ELSE "endread"
    /\ at' = IF health[at] = "testing" THEN at ELSE IF at = N THEN 1 ELSE at + 1
    /\ accused' = IF health[at] = "testing" /\ at \notin answered
                  THEN accused \cup {at} ELSE accused
    /\ round' = IF hpc' = "ready" /\ round = "open" THEN "ended" ELSE round
    /\ UNCHANGED <<state, health, workers, request, expired, timer, cmdCnt,
                   answered, rearmed, lost>>

\* ... and the assignment.
HEndWrite ==
    /\ hpc = "endwrite"
    /\ health' = [health EXCEPT ![at] = "bad"]
    /\ hpc' = IF at = N THEN "ready" ELSE "endread"
    /\ at' = IF at = N THEN 1 ELSE at + 1
    /\ round' = IF hpc' = "ready" /\ round = "open" THEN "ended" ELSE round
    /\ UNCHANGED <<state, workers, request, expired, timer, cmdCnt,
                   answered, accused, rearmed, lost>>

----------------------------------------------------------------------------
(* A worker                                                                *)

WEnter(w) ==
    /\ wpc[w] = "ready"
    /\ state[w] # "pause"
    /\ wpc' = [wpc EXCEPT ![w] = "recv"]
    /\ UNCHANGED <<state, health, probes, request, expired, hpc, at, timer, cmdCnt,
                   round, answered, accused, rearmed, lost>>

WConsume(w) ==
    /\ wpc[w] = "recv"
    /\ probes[w] > 0
    /\ probes' = [probes EXCEPT ![w] = @ - 1]
    /\ wpc' = [wpc EXCEPT ![w] = IF state[w] = "idling" THEN "ready" ELSE "dispatched"]
    /\ UNCHANGED <<state, health, request, expired, hpc, at, timer, cmdCnt,
                   round, answered, accused, rearmed, lost>>

\* _DetectRunHealthSuccess, after Dispatch has returned.
WWell(w) ==
    /\ wpc[w] = "dispatched"
    /\ health' = [health EXCEPT ![w] = "well"]
    /\ answered' = answered \cup {w}
    /\ wpc' = [wpc EXCEPT ![w] = "ready"]
    /\ UNCHANGED <<state, probes, request, expired, hpc, at, timer, cmdCnt,
                   round, accused, rearmed, lost>>

----------------------------------------------------------------------------
(* TimerThread: one pass of the sweep over the entry.                      *)

TSweep ==
    /\ tpc = "wait"
    /\ valid
    /\ times' = IF times = 0 THEN 0 ELSE times - 1
    /\ tpc' = IF times' = 0 THEN "job" ELSE "wait"
    /\ rearmed' = FALSE
    /\ UNCHANGED <<state, health, workers, request, expired, hpc, at, valid, cmdCnt,
                   round, answered, accused, lost>>

\* timer_job: SendTimerMsg2Self ignores that its message was refused twice.
TJob ==
    /\ tpc \in {"job", "resend"}
    /\ expired' = IF Room THEN expired + 1 ELSE expired
    /\ tpc' = IF ~Room /\ tpc = "job" THEN "resend" ELSE "clear"
    /\ lost' = (lost \/ (~Room /\ tpc = "resend"))
    /\ UNCHANGED <<state, health, workers, request, hpc, at, valid, times, cmdCnt,
                   round, answered, accused, rearmed>>

TClear ==
    /\ tpc = "clear"
    /\ valid' = FALSE
    /\ lost' = (lost \/ rearmed)
    /\ tpc' = "reload"
    /\ UNCHANGED <<state, health, workers, request, expired, hpc, at, times, cmdCnt,
                   round, answered, accused, rearmed>>

TReload ==
    /\ tpc = "reload"
    /\ times' = Period
    /\ tpc' = "wait"
    /\ UNCHANGED <<state, health, workers, request, expired, hpc, at, valid, cmdCnt,
                   round, answered, accused, rearmed, lost>>

----------------------------------------------------------------------------
HealthStep == HEnter \/ HTimer \/ HRequest \/ HMark \/ HProbe \/ HArm
              \/ HEndRead \/ HEndWrite
WorkerStep(w) == WEnter(w) \/ WConsume(w) \/ WWell(w)
TimerStep == TSweep \/ TJob \/ TClear \/ TReload

Next ==
    \/ CommandDetect
    \/ CommandControl
    \/ HealthStep
    \/ \E w \in Worker : WorkerStep(w)
    \/ TimerStep

Spec == Init /\ [][Next]_vars

\* Threads are live pthreads and the 10 ms tick recurs; operators owe nothing.
FairSpec ==
    /\ Spec
    /\ WF_vars(HealthStep)
    /\ \A w \in Worker : WF_vars(WorkerStep(w))
    /\ WF_vars(TimerStep)

----------------------------------------------------------------------------
TypeOK ==
    /\ state \in [Threads -> State]
    /\ health \in [Worker -> Health]
    /\ probes \in [Worker -> 0 .. ProbeRoom]
    /\ wpc \in [Worker -> {"ready", "recv", "dispatched"}]
    /\ request \in {<<>>} \cup {<<c>> : c \in Control \cup {Detect}}
    /\ expired \in 0 .. 1
    /\ hpc \in {"ready", "recv", "mark", "probe", "arm", "endread", "endwrite"}
    /\ at \in Worker
    /\ valid \in BOOLEAN /\ times \in 0 .. Period
    /\ tpc \in {"wait", "job", "resend", "clear", "reload"}
    /\ cmdCnt \in 0 .. MaxCmd
    /\ round \in {"none", "open", "ended"}
    /\ answered \subseteq Worker /\ accused \subseteq Worker
    /\ rearmed \in BOOLEAN /\ lost \in BOOLEAN

(* The verdict is complete and fair.  Once EndDetectRunHealth has gone     *)
(* over all the threads, and until the next BeginDetectRunHealth, nobody   *)
(* is "testing"; and a thread is bad only if its health word was compared  *)
(* before the thread had come through a probe of the round.                *)
VerdictIsFair ==
    /\ round = "ended" => \A w \in Worker : health[w] # "testing"
    /\ \A w \in Worker : health[w] = "bad" => w \in accused

(* A round that was opened ends, whatever the workers do.  The only ways   *)
(* to miss the end are the ones "lost" records - the timer message finds   *)
(* the one-message queue taken twice, or TimerThread clears isValid of a   *)
(* timer that StartDelayTimer has just set again - and an operator who     *)
(* pauses or idles HEALTH_DETECT itself.                                   *)
OpenRoundEnds ==
    round = "open" ~> (round = "ended" \/ lost \/ state[HEALTH] # "working")

=============================================================================
