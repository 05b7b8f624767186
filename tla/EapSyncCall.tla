---------------------------- MODULE EapSyncCall ----------------------------
(***************************************************************************)
(* The message core of the eap framework: threads with one bounded message *)
(* queue each, asynchronous requests, timer messages and synchronous       *)
(* requests (SendSynMsg) with a single response slot per calling thread.   *)
(*                                                                         *)
(* A queue is a POSIX message queue used with two priorities only: timer   *)
(* messages of priority 10 and everything else of priority 0.  Among equal *)
(* priorities it is FIFO, so it is two FIFO classes under one capacity:    *)
(* ticks[t] counts the (identical) timer messages, inbox[t] is the list of *)
(* requests.  A timed send on a full queue gives up and is tried once more *)
(* later; the second success is reported to the sender as a failure.       *)
(***************************************************************************)
EXTENDS Integers, Sequences

CONSTANTS
    Thread,     \* threads registered with ThreadMgr that own a queue
    NoThread,   \* the sender of an asynchronous request (UINT16_INVALID)
    Cmd,        \* command codes
    NoCmd,      \* no command: no nested call, or the code of a timer message
    Owner,      \* Owner[c]: the thread that registered command c
    Nested,     \* Nested[c]: the command the handler of c calls synchronously
    Answered,   \* the commands whose handler leaves an answer (dataLen > 0)
    Oversized,  \* the commands whose answer exceeds the caller's buffer
    Capacity,   \* Capacity[t]: maximal number of messages in the queue of t
    Rank,       \* Rank[t]: a synchronous call goes to a thread of lower rank
    MaxSend,    \* bound on the asynchronous requests and timer messages sent
    MaxCtl      \* bound on the operator commands given

ASSUME NamesAssumption ==
    /\ NoThread \notin Thread
    /\ NoCmd \notin Cmd

ASSUME CallGraphAssumption ==
    /\ Owner \in [Cmd -> Thread]
    /\ Nested \in [Cmd -> Cmd \cup {NoCmd}]
    /\ Answered \subseteq Cmd
    /\ Oversized \subseteq Cmd
    /\ Capacity \in [Thread -> Nat \ {0}]
    /\ Rank \in [Thread -> Nat]

\* No handler waits for a thread that may be waiting for it.
ASSUME AcyclicAssumption ==
    \A c \in Cmd : Nested[c] # NoCmd => Rank[Owner[Nested[c]]] < Rank[Owner[c]]

ASSUME BoundsAssumption == MaxSend \in Nat /\ MaxCtl \in Nat

VARIABLES
    inbox,      \* inbox[t]: requests in t's queue, oldest first
    ticks,      \* ticks[t]: timer messages in t's queue
    resend,     \* messages of asynchronous senders between their two attempts
    pc,         \* pc[t]: where t is in Run, Dispatch and SendAndWaitResp
    cur,        \* cur[t]: the message t is handling
    call,       \* call[t]: the request t is calling with
    slot,       \* slot[t]: _respMsg, the last response stored for t
    responded,  \* responded[t]: _isResponsed
    state,      \* state[t]: _state
    ignored,    \* s_ignoreCmds
    seqNo,      \* s_seqNo
    sentCnt,    \* asynchronous requests and timer messages sent so far
    ctlCnt,     \* operator commands given so far
    executed,   \* history: sequence numbers whose handler has run
    swallowed,  \* history: synchronous requests consumed without an answer
    failed,     \* history: sequence numbers whose send was reported failed
    outcome,    \* history: how the last synchronous call of each thread ended
    lag         \* history: lag[t]: messages handled since t was paused

queues  == <<inbox, ticks, resend>>
control == <<state, ignored, ctlCnt>>
ghosts  == <<executed, swallowed, failed, outcome, lag>>
vars == <<queues, pc, cur, call, slot, responded, control, seqNo, sentCnt, ghosts>>

Request == [seq : Nat, from : Thread \cup {NoThread}, cmd : Cmd]
\* A timer message: a header cleared but for the timer code.  A buffer that
\* holds no request is cleared too.
Timer   == [seq |-> 0, from |-> NoThread, cmd |-> NoCmd]
Message == Request \cup {Timer}

Response == [seq : Nat, from : Thread \cup {NoThread}, to : Thread \cup {NoThread},
             cmd : Cmd \cup {NoCmd}]
NoResponse == [seq |-> 0, from |-> NoThread, to |-> NoThread, cmd |-> NoCmd]

Outcome == [seq : Nat, kind : {"none", "ok", "oversized", "mismatch", "unsent"},
            data : Nat]
NoOutcome == [seq |-> 0, kind |-> "none", data |-> 0]

Locations == {"ready", "recv", "handle", "sending", "matching", "waiting", "finish"}

Room(t) == ticks[t] + Len(inbox[t]) < Capacity[t]

\* The caller holds its _respMtx except while it is inside the condition wait.
HoldsRespMtx(t) == pc[t] \in {"sending", "matching"}

NewRequest(from, c) == [seq |-> seqNo + 1, from |-> from, cmd |-> c]

\* The call the running handler of t makes; timer handlers make none.
CalledBy(t) == IF cur[t] = Timer THEN NoCmd ELSE Nested[cur[t].cmd]

\* Mutant of AnswerOf: the addresses of the request are not swapped.
AnswerUnswapped(t, m) == [seq |-> m.seq, from |-> m.from, to |-> t, cmd |-> m.cmd]

\* _FillRespHead: the answer of the thread t to the request m.
AnswerOf(t, m) == [seq |-> m.seq, from |-> t, to |-> m.from, cmd |-> m.cmd]

\* Mutant of IsMatched: the sequence number is not compared.
IsMatchedAnySeq(req, resp) ==
    /\ req.from = resp.to
    /\ Owner[req.cmd] = resp.from
    /\ req.cmd = resp.cmd

\* CmdprocBase::IsMatched
IsMatched(req, resp) ==
    /\ req.from = resp.to
    /\ Owner[req.cmd] = resp.from
    /\ req.cmd = resp.cmd
    /\ req.seq = resp.seq

----------------------------------------------------------------------------
Init ==
    /\ inbox = [t \in Thread |-> <<>>]
    /\ ticks = [t \in Thread |-> 0]
    /\ resend = {}
    /\ pc = [t \in Thread |-> "ready"]
    /\ cur = [t \in Thread |-> Timer]
    /\ call = [t \in Thread |-> Timer]
    /\ slot = [t \in Thread |-> NoResponse]
    /\ responded = [t \in Thread |-> FALSE]
    /\ state = [t \in Thread |-> "working"]
    /\ ignored = {}
    /\ seqNo = 0 /\ sentCnt = 0 /\ ctlCnt = 0
    /\ executed = {} /\ swallowed = {} /\ failed = {}
    /\ outcome = [t \in Thread |-> NoOutcome]
    /\ lag = [t \in Thread |-> 0]

----------------------------------------------------------------------------
(* Senders that do not wait: SendAsynMsg of any thread, and TimerThread.   *)

\* Mutant of Post: the retry does not ask how the first attempt ended.
PostTwice(c) ==
    /\ sentCnt < MaxSend
    /\ sentCnt' = sentCnt + 1
    /\ seqNo' = seqNo + 1
    /\ LET m == NewRequest(NoThread, c) IN
       /\ inbox' = IF Room(Owner[c]) THEN [inbox EXCEPT ![Owner[c]] = Append(@, m)] ELSE inbox
       /\ resend' = resend \cup {[to |-> Owner[c], msg |-> m]}
    /\ UNCHANGED <<ticks, pc, cur, call, slot, responded, control, ghosts>>

\* SendAsynMsg: the first attempt stores the request or leaves it to a retry.
Post(c) ==
    /\ sentCnt < MaxSend
    /\ sentCnt' = sentCnt + 1
    /\ seqNo' = seqNo + 1
    /\ LET m == NewRequest(NoThread, c) IN
       IF Room(Owner[c])
       THEN inbox' = [inbox EXCEPT ![Owner[c]] = Append(@, m)] /\ UNCHANGED resend
       ELSE resend' = resend \cup {[to |-> Owner[c], msg |-> m]} /\ UNCHANGED inbox
    /\ UNCHANGED <<ticks, pc, cur, call, slot, responded, control, ghosts>>

\* SendTimerMsg2Self, run by the one TimerThread.
Tick(t) ==
    /\ sentCnt < MaxSend
    /\ \A r \in resend : r.msg # Timer
    /\ sentCnt' = sentCnt + 1
    /\ IF Room(t)
       THEN ticks' = [ticks EXCEPT ![t] = @ + 1] /\ UNCHANGED resend
       ELSE resend' = resend \cup {[to |-> t, msg |-> Timer]} /\ UNCHANGED ticks
    /\ UNCHANGED <<inbox, pc, cur, call, slot, responded, control, seqNo, ghosts>>

\* The rest of eap_queue_send for a refused message r: either its first
\* timed send is still waiting when the queue drains (inTime), or it has
\* expired and the single retry decides; then -1 is returned, stored or not.
Resend(r) ==
    /\ resend' = resend \ {r}
    /\ \E inTime \in {Room(r.to), FALSE} :
          failed' = IF inTime \/ r.msg = Timer THEN failed ELSE failed \cup {r.msg.seq}
    /\ IF ~Room(r.to) THEN UNCHANGED <<inbox, ticks>>
       ELSE IF r.msg = Timer
       THEN ticks' = [ticks EXCEPT ![r.to] = @ + 1] /\ UNCHANGED inbox
       ELSE inbox' = [inbox EXCEPT ![r.to] = Append(@, r.msg)] /\ UNCHANGED ticks
    /\ UNCHANGED <<pc, cur, call, slot, responded, control, seqNo, sentCnt,
                   executed, swallowed, outcome, lag>>

----------------------------------------------------------------------------
(* The loop of a thread: ThreadBase::Run and CmdprocBase::Dispatch.        *)

\* Mutant of Enter: _state is not looked at.
EnterAlways(t) ==
    /\ pc[t] = "ready"
    /\ pc' = [pc EXCEPT ![t] = "recv"]
    /\ UNCHANGED <<queues, cur, call, slot, responded, control, seqNo, sentCnt, ghosts>>

\* Run looks at _state once, then blocks in ConsumerMsg.
Enter(t) ==
    /\ pc[t] = "ready"
    /\ state[t] # "pause"
    /\ pc' = [pc EXCEPT ![t] = "recv"]
    /\ UNCHANGED <<queues, cur, call, slot, responded, control, seqNo, sentCnt, ghosts>>

\* A message is copied out of the queue; an idling thread and an ignored
\* command throw it away, otherwise its handler starts.
Begin(t, m) ==
    IF state[t] = "idling" \/ m.cmd \in ignored
    THEN /\ pc' = [pc EXCEPT ![t] = "ready"]
         /\ swallowed' = IF m.from = NoThread THEN swallowed ELSE swallowed \cup {m.seq}
         /\ UNCHANGED <<cur, lag>>
    ELSE /\ pc' = [pc EXCEPT ![t] = "handle"]
         /\ cur' = [cur EXCEPT ![t] = m]
         /\ lag' = [lag EXCEPT ![t] = IF state[t] = "pause" THEN @ + 1 ELSE 0]
         /\ UNCHANGED swallowed

\* Mutant of ConsumeTimer: the result of the receive is not checked.
ConsumeTimerUnchecked(t) ==
    /\ pc[t] = "recv"
    /\ ticks' = [ticks EXCEPT ![t] = @ - 1]
    /\ Begin(t, Timer)
    /\ UNCHANGED <<inbox, resend, call, slot, responded, control, seqNo, sentCnt,
                   executed, failed, outcome>>

ConsumeTimer(t) ==
    /\ pc[t] = "recv"
    /\ ticks[t] > 0
    /\ ticks' = [ticks EXCEPT ![t] = @ - 1]
    /\ Begin(t, Timer)
    /\ UNCHANGED <<inbox, resend, call, slot, responded, control, seqNo, sentCnt,
                   executed, failed, outcome>>

ConsumeRequest(t) ==
    /\ pc[t] = "recv"
    /\ ticks[t] = 0
    /\ inbox[t] # <<>>
    /\ inbox' = [inbox EXCEPT ![t] = Tail(@)]
    /\ Begin(t, Head(inbox[t]))
    /\ UNCHANGED <<ticks, resend, call, slot, responded, control, seqNo, sentCnt,
                   executed, failed, outcome>>

\* The handler makes no synchronous call.
Handle(t) ==
    /\ pc[t] = "handle"
    /\ CalledBy(t) = NoCmd
    /\ pc' = [pc EXCEPT ![t] = "finish"]
    /\ UNCHANGED <<queues, cur, call, slot, responded, control, seqNo, sentCnt, ghosts>>

\* SendSynMsg up to the result of the first send, under _respMtx: a stored
\* request is waited for unless a response is already in the slot.
Call(t) ==
    /\ pc[t] = "handle"
    /\ CalledBy(t) # NoCmd
    /\ seqNo' = seqNo + 1
    /\ LET m == NewRequest(t, CalledBy(t))
           to == Owner[m.cmd]
       IN /\ call' = [call EXCEPT ![t] = m]
          /\ IF Room(to)
             THEN /\ inbox' = [inbox EXCEPT ![to] = Append(@, m)]
                  /\ pc' = [pc EXCEPT ![t] = IF responded[t] THEN "matching" ELSE "waiting"]
             ELSE /\ pc' = [pc EXCEPT ![t] = "sending"]
                  /\ UNCHANGED inbox
    /\ UNCHANGED <<ticks, resend, cur, slot, responded, control, sentCnt, ghosts>>

\* The queue drains while the first timed send still waits: a normal call.
SendInTime(t) ==
    /\ pc[t] = "sending"
    /\ Room(Owner[call[t].cmd])
    /\ inbox' = [inbox EXCEPT ![Owner[call[t].cmd]] = Append(@, call[t])]
    /\ pc' = [pc EXCEPT ![t] = IF responded[t] THEN "matching" ELSE "waiting"]
    /\ UNCHANGED <<ticks, resend, cur, call, slot, responded, control, seqNo, sentCnt, ghosts>>

\* The retry of the send: reported failed even when it stores the request;
\* SendAndWaitResp returns and leaves _isResponsed as it was.
Retry(t) ==
    /\ pc[t] = "sending"
    /\ LET to == Owner[call[t].cmd] IN
       inbox' = IF Room(to) THEN [inbox EXCEPT ![to] = Append(@, call[t])] ELSE inbox
    /\ failed' = failed \cup {call[t].seq}
    /\ outcome' = [outcome EXCEPT ![t] = [seq |-> call[t].seq, kind |-> "unsent", data |-> 0]]
    /\ pc' = [pc EXCEPT ![t] = "finish"]
    /\ UNCHANGED <<ticks, resend, cur, call, slot, responded, control, seqNo, sentCnt,
                   executed, swallowed, lag>>

\* The tail of SendAndWaitResp, with _respMtx held again.
Return(t) ==
    /\ pc[t] \in {"matching", "waiting"}
    /\ responded[t]
    /\ responded' = [responded EXCEPT ![t] = FALSE]
    /\ outcome' = [outcome EXCEPT ![t] =
          [seq  |-> call[t].seq,
           kind |-> IF ~IsMatched(call[t], slot[t]) THEN "mismatch"
                    ELSE IF slot[t].cmd \in Oversized THEN "oversized" ELSE "ok",
           data |-> IF IsMatched(call[t], slot[t]) THEN slot[t].seq ELSE 0]]
    /\ pc' = [pc EXCEPT ![t] = "finish"]
    /\ UNCHANGED <<queues, cur, call, slot, control, seqNo, sentCnt,
                   executed, swallowed, failed, lag>>

\* Mutant of Finish: the response is stored, _isResponsed is not set.
FinishSilently(t) ==
    /\ pc[t] = "finish"
    /\ LET m == cur[t]
           answers == m.cmd \in Answered /\ m.from # NoThread
       IN /\ answers => ~HoldsRespMtx(m.from)
          /\ slot' = IF answers THEN [slot EXCEPT ![m.from] = AnswerOf(t, m)] ELSE slot
          /\ executed' = IF m = Timer THEN executed ELSE executed \cup {m.seq}
          /\ swallowed' = IF answers \/ m.from = NoThread THEN swallowed
                          ELSE swallowed \cup {m.seq}
    /\ pc' = [pc EXCEPT ![t] = "ready"]
    /\ cur' = [cur EXCEPT ![t] = Timer]
    /\ UNCHANGED <<queues, call, responded, control, seqNo, sentCnt, failed, outcome, lag>>

\* The handler is done.  A request that left an answer is answered through
\* RecvRespMsg of the calling thread, which needs the caller's _respMtx; the
\* answer to an asynchronous sender finds no thread and is dropped.
Finish(t) ==
    /\ pc[t] = "finish"
    /\ LET m == cur[t]
           answers == m.cmd \in Answered /\ m.from # NoThread
       IN /\ answers => ~HoldsRespMtx(m.from)
          /\ slot' = IF answers THEN [slot EXCEPT ![m.from] = AnswerOf(t, m)] ELSE slot
          /\ responded' = IF answers THEN [responded EXCEPT ![m.from] = TRUE] ELSE responded
          /\ executed' = IF m = Timer THEN executed ELSE executed \cup {m.seq}
          /\ swallowed' = IF answers \/ m.from = NoThread THEN swallowed
                          ELSE swallowed \cup {m.seq}
    /\ pc' = [pc EXCEPT ![t] = "ready"]
    /\ cur' = [cur EXCEPT ![t] = Timer]
    /\ UNCHANGED <<queues, call, control, seqNo, sentCnt, failed, outcome, lag>>

----------------------------------------------------------------------------
(* Operator commands (debug CLI).                                          *)

SetState(t, s) ==
    /\ ctlCnt < MaxCtl
    /\ state[t] # s
    /\ state' = [state EXCEPT ![t] = s]
    /\ ctlCnt' = ctlCnt + 1
    /\ lag' = [lag EXCEPT ![t] = 0]
    /\ UNCHANGED <<queues, pc, cur, call, slot, responded, ignored, seqNo, sentCnt,
                   executed, swallowed, failed, outcome>>

Pause(t)  == SetState(t, "pause")
Idling(t) == SetState(t, "idling")
Resume(t) == SetState(t, "working")

SetIgnored(S) ==
    /\ ctlCnt < MaxCtl
    /\ ignored' = S
    /\ ctlCnt' = ctlCnt + 1
    /\ UNCHANGED <<queues, pc, cur, call, slot, responded, state, seqNo, sentCnt, ghosts>>

AddIgnoreCmd(c) == c \notin ignored /\ SetIgnored(ignored \cup {c})
DelIgnoreCmd(c) == c \in ignored /\ SetIgnored(ignored \ {c})

----------------------------------------------------------------------------
Send == \/ \E c \in Cmd : Post(c)
        \/ \E t \in Thread : Tick(t)

Step(t) ==
    \/ Enter(t)
    \/ ConsumeTimer(t)
    \/ ConsumeRequest(t)
    \/ Handle(t)
    \/ Call(t)
    \/ SendInTime(t)
    \/ Retry(t)
    \/ Return(t)
    \/ Finish(t)

Operate ==
    \/ \E t \in Thread : Pause(t) \/ Idling(t) \/ Resume(t)
    \/ \E c \in Cmd : AddIgnoreCmd(c) \/ DelIgnoreCmd(c)

Next ==
    \/ Send
    \/ \E r \in resend : Resend(r)
    \/ \E t \in Thread : Step(t)
    \/ Operate

Spec == Init /\ [][Next]_vars

\* Every thread is a live pthread: it takes its next step, and a sender that
\* has been refused once does retry.  Posts, ticks and operators owe nothing.
FairSpec ==
    /\ Spec
    /\ \A t \in Thread : WF_vars(Step(t))
    /\ WF_vars(\E r \in resend : Resend(r))

----------------------------------------------------------------------------
QueueType ==
    /\ inbox \in [Thread -> Seq(Request)]
    /\ ticks \in [Thread -> Nat]
    /\ resend \subseteq [to : Thread, msg : Message]

ThreadType ==
    /\ pc \in [Thread -> Locations]
    /\ cur \in [Thread -> Message]
    /\ call \in [Thread -> Message]
    /\ slot \in [Thread -> Response]
    /\ responded \in [Thread -> BOOLEAN]

ControlType ==
    /\ state \in [Thread -> {"working", "idling", "pause"}]
    /\ ignored \subseteq Cmd
    /\ seqNo \in Nat /\ sentCnt \in Nat /\ ctlCnt \in Nat

GhostType ==
    /\ executed \subseteq Nat /\ swallowed \subseteq Nat /\ failed \subseteq Nat
    /\ outcome \in [Thread -> Outcome]
    /\ lag \in [Thread -> Nat]

TypeOK == QueueType /\ ThreadType /\ ControlType /\ GhostType

\* A request that is held for its retry, and one that is being handled.
Resending(n)   == \E r \in resend : r.msg.seq = n
Handling(t, n) == /\ pc[t] \in {"handle", "sending", "matching", "waiting", "finish"}
                  /\ cur[t].seq = n

(* No caller is handed the answer to another request: whatever was late,   *)
(* overwritten or refused on the way, a call that ends with data ends with *)
(* the data of its own request, after the handler ran (IsMatched in        *)
(* SendAndWaitResp against the single response slot).                      *)
OwnAnswer ==
    \A t \in Thread : outcome[t].kind \in {"ok", "oversized"} =>
        outcome[t].data = outcome[t].seq /\ outcome[t].seq \in executed

(* "Response is not matched with request" is only ever the late echo of a  *)
(* request of this thread that eap_queue_send stored and reported failed:  *)
(* without such a report every call that ends at all ends with its answer. *)
MismatchOnlyAfterFailure ==
    \A t \in Thread : outcome[t].kind = "mismatch" =>
        \E n \in failed : n < outcome[t].seq /\ n \in executed

(* A request is handled at most once, although its send may be tried twice *)
(* and a caller may have given it up: no request is in two places, and     *)
(* none that was handled is queued again.                                  *)
AtMostOnce ==
    \A t \in Thread : \A i \in DOMAIN inbox[t] :
        LET n == inbox[t][i].seq IN
        /\ n \notin executed
        /\ ~Resending(n)
        /\ \A u \in Thread : ~Handling(u, n)
        /\ \A u \in Thread : \A j \in DOMAIN inbox[u] :
              inbox[u][j].seq = n => u = t /\ j = i

(* Run looks at _state before it blocks in ConsumerMsg and not after: a    *)
(* paused thread still handles the message it was waiting for, but no more *)
(* than that one.                                                          *)
PauseLag == \A t \in Thread : lag[t] <= 1

(* What "eap_queue_send error" says (eap_os_linux.cpp, the log after "Only *)
(* resend once"): a request reported as not sent is not handled.           *)
FailedMeansUnsent == failed \cap executed = {}

(* A synchronous request the code throws away is never answered, and the   *)
(* wait for its answer has no time-out: an idling thread, an ignored       *)
(* command and a handler that leaves no answer do that.                    *)
WaitsInVain(t) == pc[t] = "waiting" /\ call[t].seq \in swallowed

(* Every other synchronous call ends, full queues, refused sends and late  *)
(* answers included, once the threads that were paused are resumed.        *)
CallReturns ==
    \A t \in Thread : pc[t] \in {"sending", "matching", "waiting"}
        ~> pc[t] = "ready" \/ WaitsInVain(t) \/ \E u \in Thread : state[u] = "pause"

----------------------------------------------------------------------------
(* What the framework promises a caller.  A call is open from the moment   *)
(* its request exists until SendAndWaitResp returns.                       *)
Rpc == INSTANCE EapRpc WITH
    issued <- seqNo,
    served <- executed,
    open   <- [t \in Thread |->
                 IF pc[t] \in {"sending", "matching", "waiting"} THEN call[t].seq ELSE 0],
    answer <- [t \in Thread |-> [req |-> outcome[t].seq, data |-> outcome[t].data]]

(* Every behaviour of the queues, the two send attempts and the response   *)
(* slot is a behaviour of remote procedure calls that run each request at  *)
(* most once and return the caller's own result or an error.               *)
ImplementsRpc == Rpc!Spec
=============================================================================
