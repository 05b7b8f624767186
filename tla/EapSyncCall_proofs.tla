------------------------- MODULE EapSyncCall_proofs -------------------------
(***************************************************************************)
(* The message core for every set of threads and commands, every call      *)
(* graph and every queue capacity: types, the answer a caller is handed,   *)
(* the lag of a pause, requests handled at most once, responses that are   *)
(* not matched, the refinement of EapRpc, and what a blocked caller waits  *)
(* for.                                                                    *)
(***************************************************************************)
EXTENDS EapSyncCall, SequenceTheorems, WellFoundedInduction, TLAPS

----------------------------------------------------------------------------
(* Facts about messages.                                                   *)

LEMMA TimerIsMessage == Timer \in Message /\ Timer.from = NoThread /\ Timer.cmd = NoCmd
  BY DEF Message, Timer

\* A message that knows its sender or its command is a request.
LEMMA MessageIsRequest ==
  ASSUME NEW m \in Message, m # Timer
  PROVE  m \in Request
  BY DEF Message

LEMMA RequestFields ==
  ASSUME NEW m \in Request
  PROVE  /\ m.seq \in Nat /\ m.from \in Thread \cup {NoThread} /\ m.cmd \in Cmd
         /\ Owner[m.cmd] \in Thread
  BY CallGraphAssumption DEF Request

LEMMA MessageFields ==
  ASSUME NEW m \in Message
  PROVE  /\ m.seq \in Nat /\ m.from \in Thread \cup {NoThread} /\ m.cmd \in Cmd \cup {NoCmd}
  BY DEF Message, Request, Timer

LEMMA NewRequestType ==
  ASSUME seqNo \in Nat, NEW f \in Thread \cup {NoThread}, NEW c \in Cmd
  PROVE  NewRequest(f, c) \in Request /\ NewRequest(f, c) \in Message
  BY DEF NewRequest, Request, Message

\* The request a running handler calls with.
LEMMA CalledType ==
  ASSUME NEW t \in Thread, cur[t] \in Message, CalledBy(t) # NoCmd
  PROVE  CalledBy(t) \in Cmd /\ cur[t] \in Request
<1>1. cur[t] # Timer
  BY DEF CalledBy
<1>2. cur[t] \in Request
  BY <1>1, MessageIsRequest
<1>3. Nested[cur[t].cmd] \in Cmd \cup {NoCmd}
  BY <1>2, RequestFields, CallGraphAssumption
<1> QED BY <1>1, <1>2, <1>3 DEF CalledBy

LEMMA AnswerType ==
  ASSUME NEW t \in Thread, NEW m \in Message
  PROVE  AnswerOf(t, m) \in Response
  BY MessageFields DEF AnswerOf, Response

----------------------------------------------------------------------------
(* Type correctness, by group of variables.                                *)

LEMMA InitType == Init => TypeOK
<1> SUFFICES ASSUME Init PROVE TypeOK
  OBVIOUS
<1>1. QueueType
  BY DEF Init, QueueType
<1>2. ThreadType
  <2>1. NoResponse \in Response
    BY DEF NoResponse, Response
  <2> QED BY <2>1, TimerIsMessage DEF Init, ThreadType, Locations
<1>3. ControlType
  BY DEF Init, ControlType
<1>4. GhostType
  <2>1. NoOutcome \in Outcome
    BY DEF NoOutcome, Outcome
  <2> QED BY <2>1 DEF Init, GhostType
<1> QED BY <1>1, <1>2, <1>3, <1>4 DEF TypeOK

\* Appending a request to one queue, and taking the first one out of it.
LEMMA InboxAppend ==
  ASSUME NEW q \in [Thread -> Seq(Request)], NEW t \in Thread, NEW m \in Request
  PROVE  [q EXCEPT ![t] = Append(@, m)] \in [Thread -> Seq(Request)]
<1>1. Append(q[t], m) \in Seq(Request)
  OBVIOUS
<1> QED BY <1>1

LEMMA InboxTail ==
  ASSUME NEW q \in [Thread -> Seq(Request)], NEW t \in Thread, q[t] # <<>>
  PROVE  /\ [q EXCEPT ![t] = Tail(@)] \in [Thread -> Seq(Request)]
         /\ Head(q[t]) \in Request
<1>1. Tail(q[t]) \in Seq(Request) /\ Head(q[t]) \in Request
  OBVIOUS
<1> QED BY <1>1

\* A thread inside SendAndWaitResp has a request of its own.
CallPending ==
    \A t \in Thread : pc[t] \in {"sending", "matching", "waiting"} =>
        call[t] \in Request /\ call[t].from = t

LEMMA StepCallPending == TypeOK /\ CallPending /\ [Next]_vars => CallPending'
<1> SUFFICES ASSUME TypeOK, CallPending, [Next]_vars PROVE CallPending'
  OBVIOUS
<1> USE DEF CallPending
<1>0. /\ seqNo \in Nat /\ cur \in [Thread -> Message] /\ call \in [Thread -> Message]
      /\ pc \in [Thread -> Locations]
  BY DEF TypeOK, ThreadType, ControlType
<1>1. ASSUME NEW t \in Thread, Call(t) PROVE CallPending'
  <2> DEFINE m == NewRequest(t, CalledBy(t))
  <2>1. m \in Request /\ m.from = t
    BY <1>0, <1>1, CalledType, NewRequestType DEF Call, NewRequest
  <2>2. call' = [call EXCEPT ![t] = m] /\ \E p \in Locations : pc' = [pc EXCEPT ![t] = p]
    BY <1>0, <1>1 DEF Call, Locations
  <2> HIDE DEF m
  <2> QED BY <1>0, <2>1, <2>2
<1>2. ASSUME NEW t \in Thread, SendInTime(t) PROVE CallPending'
  BY <1>0, <1>2 DEF SendInTime
<1>3. ASSUME NEW t \in Thread,
             \/ Enter(t) \/ ConsumeTimer(t) \/ ConsumeRequest(t) \/ Handle(t)
             \/ Retry(t) \/ Return(t) \/ Finish(t)
      PROVE  CallPending'
  <2>1. call' = call
    BY <1>3 DEF Enter, ConsumeTimer, ConsumeRequest, Handle, Retry, Return, Finish
  <2>2. \E p \in {"ready", "recv", "handle", "finish"} : pc' = [pc EXCEPT ![t] = p]
    BY <1>3 DEF Enter, ConsumeTimer, ConsumeRequest, Handle, Retry, Return, Finish, Begin
  <2> QED BY <1>0, <2>1, <2>2
<1>4. ASSUME \/ Send \/ \E r \in resend : Resend(r)
             \/ Operate \/ UNCHANGED vars
      PROVE  CallPending'
  <2>1. pc' = pc /\ call' = call
    BY <1>4 DEF Send, Post, Tick, Resend, Operate, Pause, Idling, Resume, SetState,
                AddIgnoreCmd, DelIgnoreCmd, SetIgnored, vars
  <2> QED BY <2>1
<1> QED BY <1>1, <1>2, <1>3, <1>4 DEF Next, Step

LEMMA StepQueueType == TypeOK /\ CallPending /\ [Next]_vars => QueueType'
<1> SUFFICES ASSUME TypeOK, CallPending, [Next]_vars PROVE QueueType'
  OBVIOUS
<1> USE DEF QueueType
<1>0. QueueType /\ seqNo \in Nat /\ cur \in [Thread -> Message] /\ call \in [Thread -> Message]
  BY DEF TypeOK, ThreadType, ControlType
<1>1. ASSUME NEW c \in Cmd, Post(c) PROVE QueueType'
  <2>1. Owner[c] \in Thread
    BY CallGraphAssumption
  <2> DEFINE m == NewRequest(NoThread, c)
  <2>2. m \in Request /\ m \in Message
    BY <1>0, NewRequestType
  <2>3. [inbox EXCEPT ![Owner[c]] = Append(@, m)] \in [Thread -> Seq(Request)]
    BY <1>0, <2>1, <2>2, InboxAppend
  <2>4. [to |-> Owner[c], msg |-> m] \in [to : Thread, msg : Message]
    BY <2>1, <2>2
  <2>5. ticks' = ticks
    BY <1>1 DEF Post
  <2>6. \/ inbox' = [inbox EXCEPT ![Owner[c]] = Append(@, m)] /\ resend' = resend
        \/ resend' = resend \cup {[to |-> Owner[c], msg |-> m]} /\ inbox' = inbox
    BY <1>1 DEF Post
  <2> HIDE DEF m
  <2> QED BY <1>0, <2>3, <2>4, <2>5, <2>6
<1>2. ASSUME NEW t \in Thread, Tick(t) PROVE QueueType'
  <2>1. [to |-> t, msg |-> Timer] \in [to : Thread, msg : Message]
    BY TimerIsMessage
  <2>2. \/ ticks' = [ticks EXCEPT ![t] = @ + 1] /\ resend' = resend
        \/ resend' = resend \cup {[to |-> t, msg |-> Timer]} /\ ticks' = ticks
    BY <1>2 DEF Tick
  <2>3. inbox' = inbox
    BY <1>2 DEF Tick
  <2>4. CASE ticks' = ticks
    BY <1>0, <2>1, <2>2, <2>3, <2>4
  <2>5. CASE ticks' = [ticks EXCEPT ![t] = @ + 1] /\ resend' = resend
    <3>1. ticks[t] + 1 \in Nat
      BY <1>0
    <3>2. ticks' \in [Thread -> Nat]
      BY <1>0, <2>5, <3>1
    <3> QED BY <1>0, <2>3, <2>5, <3>2
  <2> QED BY <2>2, <2>4, <2>5
<1>3. ASSUME NEW r \in resend, Resend(r) PROVE QueueType'
  <2>1. r.to \in Thread /\ r.msg \in Message /\ resend' \subseteq resend
    BY <1>0, <1>3 DEF Resend
  <2>2. CASE ~Room(r.to)
    BY <1>0, <1>3, <2>1, <2>2 DEF Resend
  <2>3. CASE Room(r.to) /\ r.msg = Timer
    BY <1>0, <1>3, <2>1, <2>3 DEF Resend
  <2>4. CASE Room(r.to) /\ r.msg # Timer
    <3>1. r.msg \in Request
      BY <2>1, <2>4, MessageIsRequest
    <3>2. [inbox EXCEPT ![r.to] = Append(@, r.msg)] \in [Thread -> Seq(Request)]
      BY <1>0, <2>1, <3>1, InboxAppend
    <3>3. inbox' = [inbox EXCEPT ![r.to] = Append(@, r.msg)] /\ ticks' = ticks
      BY <1>3, <2>4 DEF Resend
    <3> QED BY <1>0, <2>1, <3>2, <3>3
  <2> QED BY <2>2, <2>3, <2>4
<1>4. ASSUME NEW t \in Thread, ConsumeTimer(t) PROVE QueueType'
  BY <1>0, <1>4 DEF ConsumeTimer
<1>5. ASSUME NEW t \in Thread, ConsumeRequest(t) PROVE QueueType'
  <2>1. inbox[t] # <<>> /\ inbox' = [inbox EXCEPT ![t] = Tail(@)] /\ UNCHANGED <<ticks, resend>>
    BY <1>5 DEF ConsumeRequest
  <2>2. [inbox EXCEPT ![t] = Tail(@)] \in [Thread -> Seq(Request)]
    BY <1>0, <2>1, InboxTail
  <2> QED BY <1>0, <2>1, <2>2
<1>6. ASSUME NEW t \in Thread, Call(t) PROVE QueueType'
  <2> DEFINE m == NewRequest(t, CalledBy(t))
  <2>1. m \in Request
    BY <1>0, <1>6, CalledType, NewRequestType DEF Call
  <2>2. Owner[m.cmd] \in Thread
    BY <2>1, RequestFields
  <2>3. \/ inbox' = [inbox EXCEPT ![Owner[m.cmd]] = Append(@, m)]
        \/ inbox' = inbox
    BY <1>6 DEF Call
  <2>4. UNCHANGED <<ticks, resend>>
    BY <1>6 DEF Call
  <2> HIDE DEF m
  <2>5. [inbox EXCEPT ![Owner[m.cmd]] = Append(@, m)] \in [Thread -> Seq(Request)]
    BY <1>0, <2>1, <2>2, InboxAppend
  <2> QED BY <1>0, <2>3, <2>4, <2>5
<1>7. ASSUME NEW t \in Thread, SendInTime(t) \/ Retry(t) PROVE QueueType'
  <2>5. pc[t] = "sending"
    BY <1>7 DEF SendInTime, Retry
  <2>0. call[t] \in Request
    BY <2>5 DEF CallPending
  <2>1. Owner[call[t].cmd] \in Thread
    BY <2>0, RequestFields
  <2>2. \/ inbox' = [inbox EXCEPT ![Owner[call[t].cmd]] = Append(@, call[t])]
        \/ inbox' = inbox
    BY <1>7 DEF SendInTime, Retry
  <2>3. UNCHANGED <<ticks, resend>>
    BY <1>7 DEF SendInTime, Retry
  <2>4. [inbox EXCEPT ![Owner[call[t].cmd]] = Append(@, call[t])] \in [Thread -> Seq(Request)]
    BY <1>0, <2>0, <2>1, InboxAppend
  <2> QED BY <1>0, <2>2, <2>3, <2>4
<1>8. ASSUME \/ \E t \in Thread : Enter(t) \/ Handle(t) \/ Return(t) \/ Finish(t)
             \/ Operate \/ UNCHANGED vars
      PROVE  QueueType'
  <2>1. UNCHANGED <<inbox, ticks, resend>>
    BY <1>8 DEF Enter, Handle, Return, Finish, Operate, Pause, Idling, Resume, SetState,
                AddIgnoreCmd, DelIgnoreCmd, SetIgnored, vars, queues
  <2> QED BY <1>0, <2>1
<1> QED BY <1>1, <1>2, <1>3, <1>4, <1>5, <1>6, <1>7, <1>8 DEF Next, Send, Step

LEMMA StepThreadType == TypeOK /\ CallPending /\ [Next]_vars => ThreadType'
<1> SUFFICES ASSUME TypeOK, CallPending, [Next]_vars PROVE ThreadType'
  OBVIOUS
<1>0. /\ QueueType /\ ThreadType /\ seqNo \in Nat
  BY DEF TypeOK, ControlType
<1> USE DEF ThreadType
<1>1. ASSUME NEW t \in Thread, Enter(t) \/ Handle(t) PROVE ThreadType'
  BY <1>0, <1>1 DEF Enter, Handle, Locations
<1>2. ASSUME NEW t \in Thread, ConsumeTimer(t) PROVE ThreadType'
  BY <1>0, <1>2, TimerIsMessage DEF ConsumeTimer, Begin, Locations
<1>3. ASSUME NEW t \in Thread, ConsumeRequest(t) PROVE ThreadType'
  <2>1. Head(inbox[t]) \in Message
    BY <1>0, <1>3, InboxTail DEF ConsumeRequest, QueueType, Message
  <2> QED BY <1>0, <1>3, <2>1 DEF ConsumeRequest, Begin, Locations
<1>4. ASSUME NEW t \in Thread, Call(t) PROVE ThreadType'
  <2> DEFINE m == NewRequest(t, CalledBy(t))
  <2>1. m \in Message
    BY <1>0, <1>4, CalledType, NewRequestType DEF Call
  <2>2. call' = [call EXCEPT ![t] = m] /\ \E p \in Locations : pc' = [pc EXCEPT ![t] = p]
    BY <1>0, <1>4 DEF Call, Locations
  <2>3. UNCHANGED <<cur, slot, responded>>
    BY <1>4 DEF Call
  <2> HIDE DEF m
  <2> QED BY <1>0, <2>1, <2>2, <2>3
<1>5. ASSUME NEW t \in Thread, SendInTime(t) \/ Retry(t) \/ Return(t) PROVE ThreadType'
  <2>1. \E p \in Locations : pc' = [pc EXCEPT ![t] = p]
    BY <1>0, <1>5 DEF SendInTime, Retry, Return, Locations
  <2>2. responded' = responded \/ responded' = [responded EXCEPT ![t] = FALSE]
    BY <1>5 DEF SendInTime, Retry, Return
  <2>3. UNCHANGED <<cur, call, slot>>
    BY <1>5 DEF SendInTime, Retry, Return
  <2> QED BY <1>0, <2>1, <2>2, <2>3
<1>6. ASSUME NEW t \in Thread, Finish(t) PROVE ThreadType'
  <2>1. cur[t] \in Message
    BY <1>0
  <2>2. AnswerOf(t, cur[t]) \in Response
    BY <2>1, AnswerType
  <2>3. pc' = [pc EXCEPT ![t] = "ready"] /\ cur' = [cur EXCEPT ![t] = Timer] /\ call' = call
    BY <1>6 DEF Finish
  <2>4. \/ slot' = slot
        \/ slot' = [slot EXCEPT ![cur[t].from] = AnswerOf(t, cur[t])]
    BY <1>6 DEF Finish
  <2>5. \/ responded' = responded
        \/ responded' = [responded EXCEPT ![cur[t].from] = TRUE]
    BY <1>6 DEF Finish
  <2> QED BY <1>0, <2>2, <2>3, <2>4, <2>5, TimerIsMessage DEF Locations
<1>7. ASSUME \/ Send \/ \E r \in resend : Resend(r)
             \/ Operate \/ UNCHANGED vars
      PROVE  ThreadType'
  <2>1. UNCHANGED <<pc, cur, call, slot, responded>>
    BY <1>7 DEF Send, Post, Tick, Resend, Operate, Pause, Idling, Resume, SetState,
                AddIgnoreCmd, DelIgnoreCmd, SetIgnored, vars
  <2> QED BY <1>0, <2>1
<1> QED BY <1>1, <1>2, <1>3, <1>4, <1>5, <1>6, <1>7 DEF Next, Step

LEMMA StepControlType == TypeOK /\ [Next]_vars => ControlType'
<1> SUFFICES ASSUME TypeOK, [Next]_vars PROVE ControlType'
  OBVIOUS
<1>0. ControlType
  BY DEF TypeOK
<1> USE DEF ControlType
<1>1. CASE Send
  BY <1>0, <1>1 DEF Send, Post, Tick, control
<1>2. ASSUME NEW t \in Thread, Pause(t) \/ Idling(t) \/ Resume(t) PROVE ControlType'
  BY <1>0, <1>2 DEF Pause, Idling, Resume, SetState
<1>3. ASSUME NEW c \in Cmd, AddIgnoreCmd(c) \/ DelIgnoreCmd(c) PROVE ControlType'
  BY <1>0, <1>3 DEF AddIgnoreCmd, DelIgnoreCmd, SetIgnored
<1>4. ASSUME NEW t \in Thread, Call(t) PROVE ControlType'
  BY <1>0, <1>4 DEF Call, control
<1>5. ASSUME \/ \E r \in resend : Resend(r)
             \/ \E t \in Thread : \/ Enter(t) \/ ConsumeTimer(t) \/ ConsumeRequest(t) \/ Handle(t)
                                  \/ SendInTime(t) \/ Retry(t) \/ Return(t) \/ Finish(t)
             \/ UNCHANGED vars
      PROVE  ControlType'
  <2>1. UNCHANGED <<state, ignored, seqNo, sentCnt, ctlCnt>>
    BY <1>5 DEF Resend, Enter, ConsumeTimer, ConsumeRequest, Handle, SendInTime, Retry, Return,
                Finish, vars, control
  <2> QED BY <1>0, <2>1
<1> QED BY <1>1, <1>2, <1>3, <1>4, <1>5 DEF Next, Step, Operate

LEMMA StepGhostType == TypeOK /\ CallPending /\ [Next]_vars => GhostType'
<1> SUFFICES ASSUME TypeOK, CallPending, [Next]_vars PROVE GhostType'
  OBVIOUS
<1>0. GhostType /\ ThreadType /\ QueueType
  BY DEF TypeOK
<1> USE DEF GhostType
<1>1. ASSUME NEW r \in resend, Resend(r) PROVE GhostType'
  <2>1. r.msg \in Message
    BY <1>0 DEF QueueType
  <2>2. failed' = failed \/ failed' = failed \cup {r.msg.seq}
    BY <1>1 DEF Resend
  <2>3. UNCHANGED <<executed, swallowed, outcome, lag>>
    BY <1>1 DEF Resend
  <2> QED BY <1>0, <2>1, <2>2, <2>3, MessageFields
<1>2. ASSUME NEW t \in Thread, NEW m \in Message, Begin(t, m),
             UNCHANGED <<executed, failed, outcome>>
      PROVE  GhostType'
  <2>1. swallowed' = swallowed \/ swallowed' = swallowed \cup {m.seq}
    BY <1>2 DEF Begin
  <2>2. \/ lag' = lag
        \/ lag' = [lag EXCEPT ![t] = @ + 1]
        \/ lag' = [lag EXCEPT ![t] = 0]
    BY <1>2 DEF Begin
  <2>5. m.seq \in Nat
    BY MessageFields
  <2>3. swallowed' \subseteq Nat
    BY <1>0, <2>1, <2>5
  <2>4. lag' \in [Thread -> Nat]
    BY <1>0, <2>2
  <2> QED BY <1>0, <1>2, <2>3, <2>4
<1>3. ASSUME NEW t \in Thread, ConsumeTimer(t) PROVE GhostType'
  BY <1>2, <1>3, TimerIsMessage DEF ConsumeTimer
<1>4. ASSUME NEW t \in Thread, ConsumeRequest(t) PROVE GhostType'
  <2>1. Head(inbox[t]) \in Message
    BY <1>0, <1>4, InboxTail DEF ConsumeRequest, QueueType, Message
  <2> QED BY <1>2, <1>4, <2>1 DEF ConsumeRequest
<1>5. ASSUME NEW t \in Thread, Retry(t) \/ Return(t) PROVE GhostType'
  <2>1. call[t].seq \in Nat /\ slot[t].seq \in Nat
    BY <1>0, MessageFields DEF ThreadType, Response
  <2>2. \E o \in Outcome : outcome' = [outcome EXCEPT ![t] = o]
    BY <1>5, <2>1 DEF Retry, Return, Outcome
  <2>3. failed' = failed \/ failed' = failed \cup {call[t].seq}
    BY <1>5 DEF Retry, Return
  <2>4. UNCHANGED <<executed, swallowed, lag>>
    BY <1>5 DEF Retry, Return
  <2> QED BY <1>0, <2>1, <2>2, <2>3, <2>4
<1>6. ASSUME NEW t \in Thread, Finish(t) PROVE GhostType'
  <2>1. cur[t].seq \in Nat
    BY <1>0, MessageFields DEF ThreadType
  <2>2. executed' \subseteq executed \cup {cur[t].seq} /\ swallowed' \subseteq swallowed \cup {cur[t].seq}
    BY <1>6 DEF Finish
  <2>3. UNCHANGED <<failed, outcome, lag>>
    BY <1>6 DEF Finish
  <2> QED BY <1>0, <2>1, <2>2, <2>3
<1>7. ASSUME NEW t \in Thread, Pause(t) \/ Idling(t) \/ Resume(t) PROVE GhostType'
  <2>1. lag' = [lag EXCEPT ![t] = 0] /\ UNCHANGED <<executed, swallowed, failed, outcome>>
    BY <1>7 DEF Pause, Idling, Resume, SetState
  <2> QED BY <1>0, <2>1
<1>8. ASSUME \/ Send
             \/ \E t \in Thread : Enter(t) \/ Handle(t) \/ Call(t) \/ SendInTime(t)
             \/ \E c \in Cmd : AddIgnoreCmd(c) \/ DelIgnoreCmd(c)
             \/ UNCHANGED vars
      PROVE  GhostType'
  <2>1. UNCHANGED ghosts
    BY <1>8 DEF Send, Post, Tick, Enter, Handle, Call, SendInTime, AddIgnoreCmd, DelIgnoreCmd,
                SetIgnored, vars
  <2> QED BY <1>0, <2>1 DEF ghosts
<1> QED BY <1>1, <1>3, <1>4, <1>5, <1>6, <1>7, <1>8 DEF Next, Step, Operate

(* Queues, threads and the history stay in their types, and a thread in    *)
(* SendAndWaitResp has a request of its own, however sends are refused,    *)
(* retried and interleaved with operator commands.                         *)
THEOREM TypeInvariant == Spec => [](TypeOK /\ CallPending)
<1>1. Init => TypeOK /\ CallPending
  BY InitType DEF Init, CallPending
<1>2. TypeOK /\ CallPending /\ [Next]_vars => TypeOK' /\ CallPending'
  BY StepCallPending, StepQueueType, StepThreadType, StepControlType, StepGhostType DEF TypeOK
<1> QED BY <1>1, <1>2, PTL DEF Spec

----------------------------------------------------------------------------
(* The answer a caller is handed.                                          *)

\* A response in a slot answers a request that has run.
SlotHonest == \A t \in Thread : slot[t].from # NoThread => slot[t].seq \in executed

LEMMA StepAnswer ==
  TypeOK /\ CallPending /\ SlotHonest /\ OwnAnswer /\ [Next]_vars => SlotHonest' /\ OwnAnswer'
<1> SUFFICES ASSUME TypeOK, CallPending, SlotHonest, OwnAnswer, [Next]_vars
             PROVE  SlotHonest' /\ OwnAnswer'
  OBVIOUS
<1>0. GhostType /\ ThreadType
  BY DEF TypeOK
<1>1. ASSUME NEW t \in Thread, Return(t) PROVE SlotHonest' /\ OwnAnswer'
  <2>1. slot' = slot /\ executed' = executed
    BY <1>1 DEF Return
  <2>2. call[t] \in Request
    BY <1>1 DEF Return, CallPending
  <2>3. Owner[call[t].cmd] # NoThread
    BY <2>2, RequestFields, NamesAssumption
  <2>4. IsMatched(call[t], slot[t]) => slot[t].seq = call[t].seq /\ call[t].seq \in executed
    BY <2>3 DEF IsMatched, SlotHonest
  <2>5. PICK o \in Outcome :
          /\ outcome' = [outcome EXCEPT ![t] = o]
          /\ o.kind \in {"ok", "oversized"} => o.data = o.seq /\ o.seq \in executed
    <3>1. call[t].seq \in Nat /\ slot[t].seq \in Nat
      BY <1>0, MessageFields DEF ThreadType, Response
    <3> DEFINE o == [seq  |-> call[t].seq,
                     kind |-> IF ~IsMatched(call[t], slot[t]) THEN "mismatch"
                              ELSE IF slot[t].cmd \in Oversized THEN "oversized" ELSE "ok",
                     data |-> IF IsMatched(call[t], slot[t]) THEN slot[t].seq ELSE 0]
    <3>2. outcome' = [outcome EXCEPT ![t] = o]
      BY <1>1 DEF Return
    <3>3. o \in Outcome
      BY <3>1 DEF Outcome
    <3>4. o.kind \in {"ok", "oversized"} => o.data = o.seq /\ o.seq \in executed
      BY <2>4
    <3> QED BY <3>2, <3>3, <3>4
  <2> QED BY <1>0, <2>1, <2>5 DEF SlotHonest, OwnAnswer, GhostType
<1>2. ASSUME NEW t \in Thread, Finish(t) PROVE SlotHonest' /\ OwnAnswer'
  <2>1. outcome' = outcome /\ executed \subseteq executed'
    BY <1>2 DEF Finish
  <2>2. cur[t] \in Message
    BY <1>0 DEF ThreadType
  <2>3. CASE slot' = slot
    BY <2>1, <2>3 DEF SlotHonest, OwnAnswer
  <2>4. CASE slot' # slot
    <3>1. /\ cur[t].from # NoThread
          /\ slot' = [slot EXCEPT ![cur[t].from] = AnswerOf(t, cur[t])]
      BY <1>2, <2>4 DEF Finish
    <3>2. cur[t] # Timer
      BY <3>1, TimerIsMessage
    <3>3. cur[t].seq \in executed'
      BY <1>2, <3>2 DEF Finish
    <3>4. AnswerOf(t, cur[t]).seq \in executed'
      BY <3>3 DEF AnswerOf
    <3> QED BY <1>0, <2>1, <3>1, <3>4 DEF SlotHonest, OwnAnswer, ThreadType
  <2> QED BY <2>3, <2>4
<1>3. ASSUME NEW t \in Thread, Retry(t) PROVE SlotHonest' /\ OwnAnswer'
  <2>1. slot' = slot /\ executed' = executed
    BY <1>3 DEF Retry
  <2>2. outcome' = [outcome EXCEPT ![t] = [seq |-> call[t].seq, kind |-> "unsent", data |-> 0]]
    BY <1>3 DEF Retry
  <2> QED BY <1>0, <2>1, <2>2 DEF SlotHonest, OwnAnswer, GhostType
<1>4. ASSUME UNCHANGED <<slot, executed, outcome>> PROVE SlotHonest' /\ OwnAnswer'
  BY <1>4 DEF SlotHonest, OwnAnswer
<1>5. CASE Send \/ Operate \/ UNCHANGED vars \/ \E r \in resend : Resend(r)
  BY <1>4, <1>5 DEF Send, Post, Tick, Resend, Operate, Pause, Idling, Resume, SetState,
                    AddIgnoreCmd, DelIgnoreCmd, SetIgnored, vars, ghosts
<1>6. ASSUME NEW t \in Thread,
             \/ Enter(t) \/ ConsumeTimer(t) \/ ConsumeRequest(t) \/ Handle(t)
             \/ Call(t) \/ SendInTime(t)
      PROVE  SlotHonest' /\ OwnAnswer'
  BY <1>4, <1>6 DEF Enter, ConsumeTimer, ConsumeRequest, Handle, Call, SendInTime, ghosts
<1> QED BY <1>1, <1>2, <1>3, <1>5, <1>6 DEF Next, Step

LEMMA AnswerAlways == Spec => [](SlotHonest /\ OwnAnswer)
<1>1. Init => SlotHonest /\ OwnAnswer
  BY DEF Init, SlotHonest, OwnAnswer, NoResponse, NoOutcome
<1> QED BY <1>1, TypeInvariant, StepAnswer, PTL DEF Spec

(* Whatever requests were misreported, whatever answers came late or were  *)
(* overwritten in the slot: a call that returns data returns the data of   *)
(* its own request, and that request has run.                              *)
THEOREM OwnAnswerTheorem == Spec => []OwnAnswer
<1> QED BY AnswerAlways, PTL

----------------------------------------------------------------------------
(* The lag of a pause.                                                     *)

\* The one message is spent before the thread blocks in ConsumerMsg again.
PauseBudget ==
    \A t \in Thread : lag[t] \in 0 .. 1 /\ (pc[t] = "recv" /\ state[t] = "pause" => lag[t] = 0)

LEMMA StepPause == TypeOK /\ PauseBudget /\ [Next]_vars => PauseBudget'
<1> SUFFICES ASSUME TypeOK, PauseBudget, [Next]_vars PROVE PauseBudget'
  OBVIOUS
<1>0. /\ lag \in [Thread -> Nat] /\ pc \in [Thread -> Locations]
      /\ state \in [Thread -> {"working", "idling", "pause"}]
  BY DEF TypeOK, ThreadType, ControlType, GhostType
<1> USE DEF PauseBudget
<1>1. ASSUME NEW t \in Thread, Enter(t) PROVE PauseBudget'
  <2>1. pc' = [pc EXCEPT ![t] = "recv"] /\ state[t] # "pause" /\ UNCHANGED <<state, lag>>
    BY <1>1 DEF Enter, control, ghosts
  <2> QED BY <1>0, <2>1
<1>2. ASSUME NEW t \in Thread, NEW m, pc[t] = "recv", Begin(t, m), state' = state
      PROVE  PauseBudget'
  <2>1. \E p \in {"ready", "handle"} : pc' = [pc EXCEPT ![t] = p]
    BY <1>2 DEF Begin
  <2>2. \/ lag' = lag
        \/ lag' = [lag EXCEPT ![t] = 0]
        \/ lag' = [lag EXCEPT ![t] = @ + 1] /\ lag[t] = 0
    BY <1>2 DEF Begin
  <2> QED BY <1>0, <1>2, <2>1, <2>2
<1>3. ASSUME NEW t \in Thread, ConsumeTimer(t) \/ ConsumeRequest(t) PROVE PauseBudget'
  BY <1>2, <1>3 DEF ConsumeTimer, ConsumeRequest, control
<1>4. ASSUME NEW t \in Thread,
             Handle(t) \/ Call(t) \/ SendInTime(t) \/ Retry(t) \/ Return(t) \/ Finish(t)
      PROVE  PauseBudget'
  <2>1. \E p \in Locations \ {"recv"} : pc' = [pc EXCEPT ![t] = p]
    BY <1>4 DEF Handle, Call, SendInTime, Retry, Return, Finish, Locations
  <2>2. UNCHANGED <<state, lag>>
    BY <1>4 DEF Handle, Call, SendInTime, Retry, Return, Finish, control, ghosts
  <2> QED BY <1>0, <2>1, <2>2
<1>5. ASSUME NEW t \in Thread, Pause(t) \/ Idling(t) \/ Resume(t) PROVE PauseBudget'
  <2>1. lag' = [lag EXCEPT ![t] = 0] /\ pc' = pc
    BY <1>5 DEF Pause, Idling, Resume, SetState
  <2>2. \A u \in Thread \ {t} : state'[u] = state[u]
    BY <1>0, <1>5 DEF Pause, Idling, Resume, SetState
  <2> QED BY <1>0, <2>1, <2>2
<1>6. ASSUME NEW c \in Cmd, AddIgnoreCmd(c) \/ DelIgnoreCmd(c) PROVE PauseBudget'
  <2>1. UNCHANGED <<state, lag, pc>>
    BY <1>6 DEF AddIgnoreCmd, DelIgnoreCmd, SetIgnored, ghosts
  <2> QED BY <2>1
<1>7. CASE \E t \in Thread : Step(t)
  BY <1>1, <1>3, <1>4, <1>7 DEF Step
<1>8. CASE Operate
  BY <1>5, <1>6, <1>8 DEF Operate
<1>9. CASE Send \/ UNCHANGED vars \/ \E r \in resend : Resend(r)
  <2>1. UNCHANGED <<state, lag, pc>>
    BY <1>9 DEF Send, Post, Tick, Resend, vars, control, ghosts
  <2> QED BY <2>1
<1> QED BY <1>7, <1>8, <1>9 DEF Next

(* A pause takes effect after at most one more message, whichever way it   *)
(* falls between the test of _state and the blocking receive.              *)
THEOREM PauseTheorem == Spec => []PauseLag
<1>1. ASSUME Init PROVE PauseBudget
  <2>1. ASSUME NEW t \in Thread PROVE lag[t] \in 0 .. 1 /\ lag[t] = 0
    BY <1>1 DEF Init
  <2> QED BY <2>1, Zenon DEF PauseBudget
<1>2. ASSUME PauseBudget PROVE PauseLag
  <2>1. ASSUME NEW t \in Thread PROVE lag[t] <= 1
    BY <1>2 DEF PauseBudget
  <2> QED BY <2>1, Zenon DEF PauseLag
<1> QED BY <1>1, <1>2, TypeInvariant, StepPause, PTL DEF Spec

----------------------------------------------------------------------------
(* At most once.  A number leaves the queues for good: outside of them it  *)
(* is held for a retry, sent for the first time, handled or executed, and  *)
(* only the first two lead into a queue.                                   *)

Calling(t) == pc[t] \in {"sending", "matching", "waiting"}

Outside(n) ==
    \/ n \in executed
    \/ Resending(n)
    \/ \E t \in Thread : cur[t].seq = n
    \/ \E t \in Thread : pc[t] = "sending" /\ call[t].seq = n

QueuedOnce ==
    \A t \in Thread : \A i \in DOMAIN inbox[t] :
        /\ inbox[t][i].seq \in 1 .. seqNo
        /\ ~Outside(inbox[t][i].seq)
        /\ \A u \in Thread : \A j \in DOMAIN inbox[u] :
              inbox[u][j].seq = inbox[t][i].seq => u = t /\ j = i

RetriedOnce ==
    \A r \in resend : r.msg # Timer =>
        /\ r.msg.seq \in 1 .. seqNo /\ r.msg.seq \notin executed
        /\ \A t \in Thread : cur[t].seq # r.msg.seq
        /\ \A t \in Thread : pc[t] = "sending" => call[t].seq # r.msg.seq
        /\ \A s \in resend : s.msg.seq = r.msg.seq => s = r

HandledOnce ==
    \A t \in Thread : cur[t] # Timer =>
        /\ cur[t].seq \in 1 .. seqNo /\ cur[t].seq \notin executed
        /\ pc[t] \notin {"ready", "recv"}
        /\ \A u \in Thread : cur[u].seq = cur[t].seq => u = t
        /\ \A u \in Thread : pc[u] = "sending" => call[u].seq # cur[t].seq

SentOnce ==
    \A t \in Thread :
        /\ Calling(t) => call[t].seq \in 1 .. seqNo
        /\ pc[t] = "sending" =>
              /\ call[t].seq \notin executed
              /\ \A u \in Thread : pc[u] = "sending" /\ call[u].seq = call[t].seq => u = t

OnceInv == executed \subseteq 1 .. seqNo /\ QueuedOnce /\ RetriedOnce /\ HandledOnce /\ SentOnce

\* The entries of the queues after a send and after a receive.
LEMMA EntriesAppend ==
  ASSUME NEW q \in [Thread -> Seq(Request)], NEW t \in Thread, NEW m \in Request, NEW p,
         p = [q EXCEPT ![t] = Append(@, m)], NEW u \in Thread, NEW i \in DOMAIN p[u]
  PROVE  \/ i \in DOMAIN q[u] /\ p[u][i] = q[u][i]
         \/ u = t /\ i = Len(q[t]) + 1 /\ i \notin DOMAIN q[u] /\ p[u][i] = m
<1>1. CASE u # t
  BY <1>1
<1>2. CASE u = t
  <2>1. p[u] = Append(q[t], m) /\ q[t] \in Seq(Request)
    BY <1>2
  <2>2. DOMAIN p[u] = 1 .. Len(q[t]) + 1 /\ DOMAIN q[t] = 1 .. Len(q[t]) /\ Len(q[t]) \in Nat
    BY <2>1, AppendProperties
  <2>3. p[u][Len(q[t]) + 1] = m /\ \A k \in 1 .. Len(q[t]) : p[u][k] = q[t][k]
    BY <2>1, AppendProperties
  <2> QED BY <1>2, <2>2, <2>3
<1> QED BY <1>1, <1>2

LEMMA EntriesTail ==
  ASSUME NEW q \in [Thread -> Seq(Request)], NEW t \in Thread, q[t] # <<>>, NEW p,
         p = [q EXCEPT ![t] = Tail(@)], NEW u \in Thread, NEW i \in DOMAIN p[u]
  PROVE  LET k == IF u = t THEN i + 1 ELSE i IN
         i \in Nat /\ k \in DOMAIN q[u] /\ p[u][i] = q[u][k] /\ (u = t => k # 1)
<1>1. CASE u # t
  <2>1. p[u] = q[u] /\ q[u] \in Seq(Request)
    BY <1>1
  <2>2. i \in Nat
    BY <2>1
  <2> QED BY <1>1, <2>1, <2>2
<1>2. CASE u = t
  <2>1. p[u] = Tail(q[t]) /\ q[t] \in Seq(Request) /\ q[t] # <<>> /\ Len(q[t]) \in Nat \ {0}
    BY <1>2, EmptySeq
  <2>2. /\ Tail(q[t]) \in Seq(Request) /\ Len(Tail(q[t])) = Len(q[t]) - 1
        /\ \A k \in 1 .. Len(Tail(q[t])) : Tail(q[t])[k] = q[t][k + 1]
    BY <2>1, HeadTailProperties
  <2>3. DOMAIN Tail(q[t]) = 1 .. Len(Tail(q[t])) /\ DOMAIN q[t] = 1 .. Len(q[t])
    BY <2>1, <2>2
  <2>4. i \in 1 .. Len(q[t]) - 1 /\ p[u][i] = q[t][i + 1]
    BY <2>1, <2>2, <2>3
  <2> QED BY <1>2, <2>1, <2>3, <2>4
<1> QED BY <1>1, <1>2

\* The queues keep every number once when nothing enters, when a new number or
\* one from outside enters, and when the oldest entry leaves.
LEMMA QueuedSame ==
  ASSUME QueuedOnce, UNCHANGED inbox, seqNo \in Nat, seqNo' \in Nat, seqNo <= seqNo',
         \A n \in 1 .. seqNo : Outside(n)' => Outside(n)
  PROVE  QueuedOnce'
<1> SUFFICES ASSUME NEW t \in Thread, NEW i \in DOMAIN inbox[t]
             PROVE  /\ inbox[t][i].seq \in 1 .. seqNo'
                    /\ ~Outside(inbox[t][i].seq)'
                    /\ \A u \in Thread : \A j \in DOMAIN inbox[u] :
                          inbox[u][j].seq = inbox[t][i].seq => u = t /\ j = i
  BY DEF QueuedOnce
<1>1. /\ inbox[t][i].seq \in 1 .. seqNo /\ ~Outside(inbox[t][i].seq)
      /\ \A u \in Thread : \A j \in DOMAIN inbox[u] :
            inbox[u][j].seq = inbox[t][i].seq => u = t /\ j = i
  BY DEF QueuedOnce
<1> QED BY <1>1

LEMMA QueuedAppend ==
  ASSUME QueuedOnce, inbox \in [Thread -> Seq(Request)], seqNo \in Nat, seqNo' \in Nat, seqNo <= seqNo',
         NEW t \in Thread, NEW m \in Request, inbox' = [inbox EXCEPT ![t] = Append(@, m)],
         m.seq \in 1 .. seqNo', ~Outside(m.seq)',
         m.seq > seqNo \/ Outside(m.seq),
         \A n \in 1 .. seqNo : Outside(n)' => Outside(n)
  PROVE  QueuedOnce'
<1>1. ASSUME NEW u \in Thread, NEW i \in DOMAIN inbox'[u]
      PROVE  \/ i \in DOMAIN inbox[u] /\ inbox'[u][i] = inbox[u][i]
             \/ u = t /\ i = Len(inbox[t]) + 1 /\ inbox'[u][i] = m
  BY EntriesAppend
<1>2. ASSUME NEW u \in Thread, NEW i \in DOMAIN inbox[u]
      PROVE  /\ inbox[u][i].seq \in 1 .. seqNo /\ ~Outside(inbox[u][i].seq)
             /\ inbox[u][i].seq # m.seq
             /\ \A v \in Thread : \A j \in DOMAIN inbox[v] :
                   inbox[v][j].seq = inbox[u][i].seq => v = u /\ j = i
  BY DEF QueuedOnce
<1>3. ASSUME NEW u \in Thread, NEW i \in DOMAIN inbox'[u]
      PROVE  inbox'[u][i].seq \in 1 .. seqNo' /\ ~Outside(inbox[u][i].seq)'
  <2>1. CASE i \in DOMAIN inbox[u] /\ inbox'[u][i] = inbox[u][i]
    BY <1>2, <2>1
  <2>2. CASE inbox'[u][i] = m
    BY <2>2
  <2> QED BY <1>1, <2>1, <2>2
<1>4. ASSUME NEW u \in Thread, NEW i \in DOMAIN inbox'[u],
             NEW v \in Thread, NEW j \in DOMAIN inbox'[v], inbox'[v][j].seq = inbox'[u][i].seq
      PROVE  v = u /\ j = i
  BY <1>1, <1>2, <1>4
<1> QED BY <1>3, <1>4 DEF QueuedOnce

LEMMA QueuedTail ==
  ASSUME QueuedOnce, inbox \in [Thread -> Seq(Request)], UNCHANGED seqNo,
         NEW t \in Thread, inbox[t] # <<>>, inbox' = [inbox EXCEPT ![t] = Tail(@)],
         \A n \in 1 .. seqNo : Outside(n)' => Outside(n) \/ n = Head(inbox[t]).seq
  PROVE  /\ QueuedOnce'
         /\ Head(inbox[t]).seq \in 1 .. seqNo /\ ~Outside(Head(inbox[t]).seq)
<1>1. 1 \in DOMAIN inbox[t] /\ Head(inbox[t]) = inbox[t][1]
  BY EmptySeq, LenProperties
<1>2. ASSUME NEW u \in Thread, NEW i \in DOMAIN inbox'[u]
      PROVE  \E k \in DOMAIN inbox[u] :
                k = (IF u = t THEN i + 1 ELSE i) /\ i \in Nat /\ inbox'[u][i] = inbox[u][k] /\ (u = t => k # 1)
  BY EntriesTail
<1>3. ASSUME NEW u \in Thread, NEW i \in DOMAIN inbox'[u]
      PROVE  inbox'[u][i].seq \in 1 .. seqNo /\ ~Outside(inbox[u][i].seq)'
  <2>1. PICK k \in DOMAIN inbox[u] : inbox'[u][i] = inbox[u][k] /\ (u = t => k # 1)
    BY <1>2
  <2>2. inbox[u][k].seq \in 1 .. seqNo /\ ~Outside(inbox[u][k].seq) /\ inbox[u][k].seq # inbox[t][1].seq
    BY <1>1, <2>1 DEF QueuedOnce
  <2> QED BY <1>1, <2>1, <2>2
<1>4. ASSUME NEW u \in Thread, NEW i \in DOMAIN inbox'[u],
             NEW v \in Thread, NEW j \in DOMAIN inbox'[v], inbox'[v][j].seq = inbox'[u][i].seq
      PROVE  v = u /\ j = i
  <2>1. PICK k \in DOMAIN inbox[u] : k = (IF u = t THEN i + 1 ELSE i) /\ i \in Nat /\ inbox'[u][i] = inbox[u][k]
    BY <1>2
  <2>2. PICK l \in DOMAIN inbox[v] : l = (IF v = t THEN j + 1 ELSE j) /\ j \in Nat /\ inbox'[v][j] = inbox[v][l]
    BY <1>2
  <2>3. v = u /\ l = k
    BY <1>4, <2>1, <2>2 DEF QueuedOnce
  <2> QED BY <2>1, <2>2, <2>3
<1>5. Head(inbox[t]).seq \in 1 .. seqNo /\ ~Outside(Head(inbox[t]).seq)
  BY <1>1 DEF QueuedOnce
<1> QED BY <1>3, <1>4, <1>5 DEF QueuedOnce

\* What is outside of the queues depends on four places only.
LEMMA OutsideSame ==
  ASSUME UNCHANGED <<executed, resend, cur, pc, call>>, NEW n
  PROVE  Outside(n)' <=> Outside(n)
BY DEF Outside, Resending

LEMMA HandledNumber ==
  ASSUME OnceInv, NEW t \in Thread
  PROVE  cur[t].seq = 0 \/ cur[t].seq \in 1 .. seqNo
BY DEF OnceInv, HandledOnce, Timer

LEMMA OnceFresh ==
  ASSUME OnceInv, TypeOK, NEW n \in Nat, n > seqNo
  PROVE  ~Outside(n)
<1>1. n # 0 /\ seqNo \in Nat
  BY DEF TypeOK, ControlType
<1>2. n \notin executed
  BY <1>1 DEF OnceInv
<1>3. ~Resending(n)
  BY <1>1 DEF OnceInv, RetriedOnce, Resending, Timer
<1>4. ASSUME NEW t \in Thread PROVE cur[t].seq # n
  <2>1. cur[t].seq = 0 \/ cur[t].seq \in 1 .. seqNo
    BY HandledNumber
  <2> QED BY <1>1, <2>1
<1>5. \A t \in Thread : pc[t] = "sending" => call[t].seq # n
  BY <1>1 DEF OnceInv, SentOnce, Calling
<1> QED BY <1>2, <1>3, <1>4, <1>5 DEF Outside

\* One lemma per kind of step.  A new request gets a number nobody has.
LEMMA OncePost ==
  ASSUME TypeOK, OnceInv, NEW c \in Cmd, Post(c)
  PROVE  OnceInv'
<1> PICK m : m = NewRequest(NoThread, c)
  OBVIOUS
<1>1. /\ seqNo \in Nat /\ seqNo' = seqNo + 1 /\ inbox \in [Thread -> Seq(Request)]
      /\ Owner[c] \in Thread /\ UNCHANGED <<pc, cur, call, executed>>
      /\ cur \in [Thread -> Message]
  BY CallGraphAssumption DEF Post, TypeOK, ControlType, QueueType, ThreadType, ghosts
<1>2. m \in Request /\ m.seq = seqNo + 1 /\ m # Timer
  <2>1. m \in Request /\ m.seq = seqNo + 1
    BY <1>1, NewRequestType DEF NewRequest
  <2>2. Timer.seq = 0
    BY DEF Timer
  <2> QED BY <1>1, <2>1, <2>2
<1>3. ~Outside(m.seq) /\ m.seq \in 1 .. seqNo'
  <2> QED BY <1>1, <1>2, OnceFresh
<1>4. CASE inbox' = [inbox EXCEPT ![Owner[c]] = Append(@, m)] /\ resend' = resend
  <2>1. \A n : Outside(n)' <=> Outside(n)
    BY <1>1, <1>4, OutsideSame
  <2>2. QueuedOnce'
    <3>1. QueuedOnce /\ seqNo <= seqNo' /\ ~Outside(m.seq)' /\ m.seq > seqNo
      BY <1>1, <1>2, <1>3, <2>1 DEF OnceInv
    <3>2. \A n \in 1 .. seqNo : Outside(n)' => Outside(n)
      BY <2>1
    <3>3. seqNo' \in Nat /\ m \in Request /\ m.seq \in 1 .. seqNo'
      BY <1>1, <1>2, <1>3
    <3> QED BY <1>1, <1>4, <3>1, <3>2, <3>3, QueuedAppend
  <2>3. RetriedOnce' /\ HandledOnce' /\ SentOnce' /\ executed' \subseteq 1 .. seqNo'
    BY <1>1, <1>4 DEF OnceInv, RetriedOnce, HandledOnce, SentOnce, Calling
  <2> QED BY <2>2, <2>3 DEF OnceInv
<1>5. CASE inbox' = inbox /\ resend' = resend \cup {[to |-> Owner[c], msg |-> m]}
  <2> DEFINE s == [to |-> Owner[c], msg |-> m]
  <2>1. s.msg = m
    OBVIOUS
  <2>2. \A n : Outside(n)' => Outside(n) \/ n = m.seq
    BY <1>1, <1>5, <2>1 DEF Outside, Resending
  <2>3. QueuedOnce'
    BY <1>1, <1>2, <1>5, <2>2, QueuedSame DEF OnceInv
  <2>4. /\ m.seq \notin executed
        /\ \A t \in Thread : cur[t].seq # m.seq
        /\ \A t \in Thread : pc[t] = "sending" => call[t].seq # m.seq
        /\ \A r \in resend : r.msg.seq # m.seq
    BY <1>3 DEF Outside, Resending
  <2>5. \A r \in resend' : r \in resend \/ r = s
    BY <1>5
  <2> HIDE DEF s
  <2>6. RetriedOnce'
    BY <1>1, <1>2, <1>3, <2>1, <2>4, <2>5 DEF OnceInv, RetriedOnce
  <2>7. HandledOnce' /\ SentOnce' /\ executed' \subseteq 1 .. seqNo'
    BY <1>1 DEF OnceInv, HandledOnce, SentOnce, Calling
  <2> QED BY <2>3, <2>6, <2>7 DEF OnceInv
<1> QED BY <1>4, <1>5 DEF Post

LEMMA OnceTick ==
  ASSUME TypeOK, OnceInv, NEW t \in Thread, Tick(t)
  PROVE  OnceInv'
<1>1. /\ seqNo \in Nat /\ UNCHANGED <<inbox, seqNo, pc, cur, call, executed>>
      /\ \A r \in resend' : r \in resend \/ r.msg = Timer
      /\ resend \subseteq resend'
  BY DEF Tick, TypeOK, ControlType, ghosts
<1>2. \A n \in 1 .. seqNo : Outside(n)' => Outside(n)
  BY <1>1 DEF Outside, Resending, Timer
<1>3. QueuedOnce'
  BY <1>1, <1>2, QueuedSame DEF OnceInv
<1>4. RetriedOnce'
  BY <1>1 DEF OnceInv, RetriedOnce, Timer
<1>5. HandledOnce' /\ SentOnce' /\ executed' \subseteq 1 .. seqNo'
  BY <1>1 DEF OnceInv, HandledOnce, SentOnce, Calling
<1> QED BY <1>3, <1>4, <1>5 DEF OnceInv

LEMMA OnceResend ==
  ASSUME TypeOK, OnceInv, NEW r \in resend, Resend(r)
  PROVE  OnceInv'
<1>1. /\ seqNo \in Nat /\ UNCHANGED <<seqNo, pc, cur, call, executed>> /\ resend' = resend \ {r}
      /\ r.to \in Thread /\ r.msg \in Message /\ inbox \in [Thread -> Seq(Request)]
  BY DEF Resend, TypeOK, ControlType, QueueType
<1>2. \A n : Outside(n)' => Outside(n)
  BY <1>1 DEF Outside, Resending
<1>3. QueuedOnce'
  <2>1. CASE inbox' = inbox
    BY <1>1, <1>2, <2>1, QueuedSame DEF OnceInv
  <2>2. CASE inbox' # inbox
    <3>1. r.msg # Timer /\ inbox' = [inbox EXCEPT ![r.to] = Append(@, r.msg)]
      BY <2>2 DEF Resend
    <3>2. r.msg \in Request /\ r.msg.seq \in 1 .. seqNo /\ Outside(r.msg.seq)
      BY <1>1, <3>1, MessageIsRequest DEF OnceInv, RetriedOnce, Outside, Resending
    <3>3. ~Outside(r.msg.seq)'
      BY <1>1, <3>1 DEF OnceInv, RetriedOnce, Outside, Resending
    <3>4. QueuedOnce /\ seqNo <= seqNo'
      BY <1>1 DEF OnceInv
    <3> QED BY <1>1, <1>2, <3>1, <3>2, <3>3, <3>4, QueuedAppend
  <2> QED BY <2>1, <2>2
<1>4. RetriedOnce' /\ HandledOnce' /\ SentOnce' /\ executed' \subseteq 1 .. seqNo'
  BY <1>1 DEF OnceInv, RetriedOnce, HandledOnce, SentOnce, Calling
<1> QED BY <1>3, <1>4 DEF OnceInv

\* A receive: the oldest request leaves the queue and is handled or thrown away.
LEMMA OnceConsumeTimer ==
  ASSUME TypeOK, OnceInv, NEW t \in Thread, ConsumeTimer(t)
  PROVE  OnceInv'
<1>1. /\ seqNo \in Nat /\ UNCHANGED <<inbox, seqNo, resend, call, executed>>
      /\ pc \in [Thread -> Locations] /\ cur \in [Thread -> Message]
  BY DEF ConsumeTimer, TypeOK, ControlType, ThreadType
<1>2. /\ \E p \in {"ready", "handle"} : pc' = [pc EXCEPT ![t] = p]
      /\ cur' = cur
  <2>1. cur[t] = Timer
    BY DEF ConsumeTimer, OnceInv, HandledOnce
  <2>2. cur' = cur \/ cur' = [cur EXCEPT ![t] = Timer]
    BY DEF ConsumeTimer, Begin
  <2>3. \E p \in {"ready", "handle"} : pc' = [pc EXCEPT ![t] = p]
    BY DEF ConsumeTimer, Begin
  <2> QED BY <1>1, <2>1, <2>2, <2>3
<1>3. \A u \in Thread : pc'[u] = "sending" <=> pc[u] = "sending"
  BY <1>1, <1>2 DEF ConsumeTimer
<1>4. \A n : Outside(n)' <=> Outside(n)
  BY <1>1, <1>2, <1>3 DEF Outside, Resending
<1>5. QueuedOnce'
  BY <1>1, <1>4, QueuedSame DEF OnceInv
<1>6. RetriedOnce' /\ SentOnce' /\ executed' \subseteq 1 .. seqNo'
  BY <1>1, <1>2, <1>3 DEF OnceInv, RetriedOnce, SentOnce, Calling
<1>7. HandledOnce'
  BY <1>1, <1>2, <1>3 DEF OnceInv, HandledOnce, ConsumeTimer
<1> QED BY <1>5, <1>6, <1>7 DEF OnceInv

LEMMA OnceConsumeRequest ==
  ASSUME TypeOK, OnceInv, NEW t \in Thread, ConsumeRequest(t)
  PROVE  OnceInv'
<1> PICK m : m = Head(inbox[t])
  OBVIOUS
<1>1. /\ seqNo \in Nat /\ UNCHANGED <<seqNo, resend, call, executed>>
      /\ pc \in [Thread -> Locations] /\ cur \in [Thread -> Message] /\ pc[t] = "recv"
      /\ inbox \in [Thread -> Seq(Request)] /\ inbox[t] # <<>> /\ inbox' = [inbox EXCEPT ![t] = Tail(@)]
  BY DEF ConsumeRequest, TypeOK, ControlType, ThreadType, QueueType
<1>2. /\ \E p \in {"ready", "handle"} : pc' = [pc EXCEPT ![t] = p]
      /\ cur' = cur \/ (cur' = [cur EXCEPT ![t] = m] /\ pc'[t] = "handle")
  <2>1. \E p \in {"ready", "handle"} : pc' = [pc EXCEPT ![t] = p]
    BY DEF ConsumeRequest, Begin
  <2>2. cur' = cur \/ (cur' = [cur EXCEPT ![t] = m] /\ pc' = [pc EXCEPT ![t] = "handle"])
    BY DEF ConsumeRequest, Begin
  <2> QED BY <1>1, <2>1, <2>2
<1>3. \A u \in Thread : pc'[u] = "sending" <=> pc[u] = "sending"
  BY <1>1, <1>2
<1>4. \A n : Outside(n)' => Outside(n) \/ n = m.seq
  BY <1>1, <1>2, <1>3 DEF Outside, Resending
<1>5. QueuedOnce' /\ m.seq \in 1 .. seqNo /\ ~Outside(m.seq)
  BY <1>1, <1>4, QueuedTail DEF OnceInv
<1>6. cur[t] = Timer
  BY <1>1 DEF OnceInv, HandledOnce
<1>7. /\ m.seq \notin executed
      /\ \A u \in Thread : cur[u].seq # m.seq
      /\ \A u \in Thread : pc[u] = "sending" => call[u].seq # m.seq
      /\ \A r \in resend : r.msg.seq # m.seq
  BY <1>5 DEF Outside, Resending
<1>8. RetriedOnce' /\ SentOnce' /\ executed' \subseteq 1 .. seqNo'
  <2>1. \A u \in Thread : cur'[u].seq = cur[u].seq \/ cur'[u].seq = m.seq
    BY <1>1, <1>2
  <2>2. RetriedOnce'
    BY <1>1, <1>3, <1>7, <2>1 DEF OnceInv, RetriedOnce
  <2>3. \A u \in Thread : Calling(u)' => Calling(u)
    BY <1>1, <1>2 DEF Calling
  <2> QED BY <1>1, <1>3, <2>2, <2>3 DEF OnceInv, SentOnce
<1>9. HandledOnce'
  <2>1. CASE cur' = cur
    BY <1>1, <1>2, <1>3, <1>6, <2>1 DEF OnceInv, HandledOnce
  <2>2. CASE cur' = [cur EXCEPT ![t] = m] /\ pc'[t] = "handle"
    <3>1. \A u \in Thread : u # t => cur'[u] = cur[u] /\ pc'[u] = pc[u]
      BY <1>1, <1>2, <2>2
    <3>2. cur'[t] = m
      BY <1>1, <2>2
    <3> QED BY <1>1, <1>3, <1>5, <1>7, <2>2, <3>1, <3>2 DEF OnceInv, HandledOnce
  <2> QED BY <1>2, <2>1, <2>2
<1> QED BY <1>5, <1>8, <1>9 DEF OnceInv

LEMMA OnceCall ==
  ASSUME TypeOK, CallPending, OnceInv, NEW t \in Thread, Call(t)
  PROVE  OnceInv'
<1> PICK m : m = NewRequest(t, CalledBy(t))
  OBVIOUS
<1> PICK to : to = Owner[m.cmd]
  OBVIOUS
<1>1. /\ seqNo \in Nat /\ seqNo' = seqNo + 1 /\ UNCHANGED <<resend, cur, executed>>
      /\ pc \in [Thread -> Locations] /\ call \in [Thread -> Message] /\ pc[t] = "handle"
      /\ inbox \in [Thread -> Seq(Request)]
  BY DEF Call, TypeOK, ControlType, ThreadType, QueueType, ghosts
<1>2. m \in Request /\ to \in Thread /\ m.seq = seqNo + 1
  <2>1. CalledBy(t) \in Cmd
    BY CalledType DEF Call, TypeOK, ThreadType
  <2> QED BY <1>1, <2>1, NewRequestType, RequestFields DEF NewRequest
<1>3. ~Outside(m.seq) /\ m.seq \in 1 .. seqNo'
  BY <1>1, <1>2, OnceFresh
<1>4. /\ m.seq \notin executed
      /\ \A u \in Thread : cur[u].seq # m.seq
      /\ \A u \in Thread : pc[u] = "sending" => call[u].seq # m.seq
      /\ \A r \in resend : r.msg.seq # m.seq
  BY <1>3 DEF Outside, Resending
<1>5. /\ call' = [call EXCEPT ![t] = m]
      /\ \/ inbox' = [inbox EXCEPT ![to] = Append(@, m)] /\ \E p \in {"matching", "waiting"} : pc' = [pc EXCEPT ![t] = p]
         \/ inbox' = inbox /\ pc' = [pc EXCEPT ![t] = "sending"]
  BY DEF Call
<1>6. /\ call'[t] = m /\ pc'[t] \in {"sending", "matching", "waiting"}
      /\ \A u \in Thread : u # t => pc'[u] = pc[u] /\ call'[u] = call[u]
  BY <1>1, <1>5
<1>7. HandledOnce'
  BY <1>1, <1>4, <1>6 DEF OnceInv, HandledOnce
<1>8. RetriedOnce'
  <2> SUFFICES ASSUME NEW r \in resend, r.msg # Timer
               PROVE  /\ r.msg.seq \in 1 .. seqNo' /\ r.msg.seq \notin executed
                      /\ \A u \in Thread : cur[u].seq # r.msg.seq
                      /\ \A u \in Thread : pc'[u] = "sending" => call'[u].seq # r.msg.seq
                      /\ \A s \in resend : s.msg.seq = r.msg.seq => s = r
    BY <1>1 DEF RetriedOnce
  <2>1. /\ r.msg.seq \in 1 .. seqNo /\ r.msg.seq \notin executed
        /\ \A u \in Thread : cur[u].seq # r.msg.seq
        /\ \A u \in Thread : pc[u] = "sending" => call[u].seq # r.msg.seq
        /\ \A s \in resend : s.msg.seq = r.msg.seq => s = r
    BY DEF OnceInv, RetriedOnce
  <2> QED BY <1>1, <1>4, <1>6, <2>1
<1>9. SentOnce'
  <2> SUFFICES ASSUME NEW u \in Thread
               PROVE  /\ Calling(u)' => call'[u].seq \in 1 .. seqNo'
                      /\ pc'[u] = "sending" =>
                            /\ call'[u].seq \notin executed
                            /\ \A v \in Thread : pc'[v] = "sending" /\ call'[v].seq = call'[u].seq => v = u
    BY <1>1 DEF SentOnce
  <2>1. CASE u = t
    BY <1>3, <1>4, <1>6, <2>1
  <2>2. CASE u # t
    <3>1. /\ Calling(u) => call[u].seq \in 1 .. seqNo
          /\ pc[u] = "sending" =>
                /\ call[u].seq \notin executed
                /\ \A v \in Thread : pc[v] = "sending" /\ call[v].seq = call[u].seq => v = u
      BY DEF OnceInv, SentOnce
    <3>2. Calling(u)' <=> Calling(u)
      BY <1>6, <2>2 DEF Calling
    <3>3. pc'[u] = pc[u] /\ call'[u] = call[u]
      BY <1>6, <2>2
    <3>4. Calling(u)' => call'[u].seq \in 1 .. seqNo'
      BY <1>1, <3>1, <3>2, <3>3
    <3>5. ASSUME pc'[u] = "sending", NEW v \in Thread, pc'[v] = "sending", call'[v].seq = call'[u].seq
          PROVE  v = u
      <4>1. v # t
        BY <1>4, <1>6, <3>3, <3>5
      <4> QED BY <1>6, <3>1, <3>3, <3>5, <4>1
    <3> QED BY <3>1, <3>3, <3>4, <3>5
  <2> QED BY <2>1, <2>2
<1>10. executed' \subseteq 1 .. seqNo'
  BY <1>1 DEF OnceInv
<1>11. QueuedOnce'
  <2>0. QueuedOnce /\ seqNo <= seqNo' /\ seqNo' \in Nat /\ m.seq > seqNo
    BY <1>1, <1>2 DEF OnceInv
  <2>1. CASE inbox' = inbox /\ pc' = [pc EXCEPT ![t] = "sending"]
    <3>1. \A n : Outside(n)' => Outside(n) \/ n = m.seq
      BY <1>1, <1>6 DEF Outside, Resending
    <3> QED BY <1>1, <1>2, <2>0, <2>1, <3>1, QueuedSame
  <2>2. CASE inbox' = [inbox EXCEPT ![to] = Append(@, m)] /\ \E p \in {"matching", "waiting"} : pc' = [pc EXCEPT ![t] = p]
    <3>1. \A n : Outside(n)' => Outside(n)
      BY <1>1, <1>6, <2>2 DEF Outside, Resending
    <3>2. ~Outside(m.seq)' /\ \A n \in 1 .. seqNo : Outside(n)' => Outside(n)
      BY <1>3, <3>1
    <3> QED BY <1>1, <1>2, <1>3, <2>0, <2>2, <3>2, QueuedAppend
  <2> QED BY <1>5, <2>1, <2>2
<1> QED BY <1>7, <1>8, <1>9, <1>10, <1>11 DEF OnceInv

\* The first send is over, in time or not.
LEMMA OnceSent ==
  ASSUME TypeOK, CallPending, OnceInv, NEW t \in Thread, SendInTime(t) \/ Retry(t)
  PROVE  OnceInv'
<1> PICK m : m = call[t]
  OBVIOUS
<1> PICK to : to = Owner[m.cmd]
  OBVIOUS
<1>1. /\ seqNo \in Nat /\ UNCHANGED <<seqNo, resend, cur, executed, call>>
      /\ pc \in [Thread -> Locations] /\ pc[t] = "sending"
      /\ inbox \in [Thread -> Seq(Request)]
  BY DEF SendInTime, Retry, TypeOK, ControlType, ThreadType, QueueType, ghosts
<1>2. m \in Request /\ to \in Thread
  BY <1>1, RequestFields DEF CallPending
<1>3. /\ inbox' = inbox \/ inbox' = [inbox EXCEPT ![to] = Append(@, m)]
      /\ \E p \in {"matching", "waiting", "finish"} : pc' = [pc EXCEPT ![t] = p]
  BY DEF SendInTime, Retry
<1>4. /\ pc'[t] \in {"matching", "waiting", "finish"}
      /\ \A u \in Thread : u # t => pc'[u] = pc[u]
  BY <1>1, <1>3
<1>5. \A n : Outside(n)' => Outside(n)
  BY <1>1, <1>4 DEF Outside, Resending
<1>6. m.seq \in 1 .. seqNo /\ Outside(m.seq)
  BY <1>1 DEF Outside, OnceInv, SentOnce, Calling
<1>7. ~Outside(m.seq)'
  <2>1. m.seq \notin executed /\ \A u \in Thread : pc'[u] = "sending" => call[u].seq # m.seq
    BY <1>1, <1>4 DEF OnceInv, SentOnce
  <2>2. \A r \in resend : r.msg.seq # m.seq
    BY <1>1, <1>6 DEF OnceInv, RetriedOnce, Timer
  <2>3. \A u \in Thread : cur[u].seq # m.seq
    BY <1>1, <1>6 DEF OnceInv, HandledOnce, Timer
  <2> QED BY <1>1, <2>1, <2>2, <2>3 DEF Outside, Resending
<1>8. QueuedOnce'
  <2>1. QueuedOnce /\ \A n \in 1 .. seqNo : Outside(n)' => Outside(n)
    BY <1>5 DEF OnceInv
  <2>2. CASE inbox' = inbox
    BY <1>1, <2>1, <2>2, QueuedSame
  <2>3. CASE inbox' = [inbox EXCEPT ![to] = Append(@, m)]
    <3>1. seqNo' \in Nat /\ seqNo <= seqNo' /\ m.seq \in 1 .. seqNo'
      BY <1>1, <1>6
    <3> QED BY <1>1, <1>2, <1>6, <1>7, <2>1, <2>3, <3>1, QueuedAppend
  <2> QED BY <1>3, <2>2, <2>3
<1>9. RetriedOnce' /\ HandledOnce' /\ SentOnce' /\ executed' \subseteq 1 .. seqNo'
  BY <1>1, <1>4 DEF OnceInv, RetriedOnce, HandledOnce, SentOnce, Calling
<1> QED BY <1>8, <1>9 DEF OnceInv

\* A step of a thread that moves no request.
LEMMA OnceMove ==
  ASSUME TypeOK, OnceInv, NEW t \in Thread, Enter(t) \/ Handle(t) \/ Return(t)
  PROVE  OnceInv'
<1>1. /\ seqNo \in Nat /\ UNCHANGED <<inbox, seqNo, resend, cur, executed, call>>
      /\ pc \in [Thread -> Locations] /\ pc[t] # "sending"
  BY DEF Enter, Handle, Return, TypeOK, ControlType, ThreadType, queues, ghosts
<1>2. \/ pc[t] = "ready" /\ pc' = [pc EXCEPT ![t] = "recv"]
      \/ pc' = [pc EXCEPT ![t] = "finish"]
  BY DEF Enter, Handle, Return
<1>3. /\ \A u \in Thread : pc'[u] = "sending" <=> pc[u] = "sending"
      /\ \A u \in Thread : Calling(u)' => Calling(u)
      /\ \A u \in Thread : pc'[u] \in {"ready", "recv"} => pc[u] \in {"ready", "recv"}
  BY <1>1, <1>2 DEF Calling
<1>4. \A n : Outside(n)' => Outside(n)
  BY <1>1, <1>3 DEF Outside, Resending
<1>5. QueuedOnce'
  BY <1>1, <1>4, QueuedSame DEF OnceInv
<1>6. RetriedOnce' /\ HandledOnce' /\ SentOnce' /\ executed' \subseteq 1 .. seqNo'
  BY <1>1, <1>3 DEF OnceInv, RetriedOnce, HandledOnce, SentOnce
<1> QED BY <1>5, <1>6 DEF OnceInv

LEMMA OnceFinish ==
  ASSUME TypeOK, OnceInv, NEW t \in Thread, Finish(t)
  PROVE  OnceInv'
<1>1. /\ seqNo \in Nat /\ UNCHANGED <<inbox, seqNo, resend, call>>
      /\ pc \in [Thread -> Locations] /\ cur \in [Thread -> Message]
      /\ pc[t] = "finish" /\ pc' = [pc EXCEPT ![t] = "ready"] /\ cur' = [cur EXCEPT ![t] = Timer]
      /\ executed' = IF cur[t] = Timer THEN executed ELSE executed \cup {cur[t].seq}
  BY DEF Finish, TypeOK, ControlType, ThreadType, queues
<1>2. /\ pc'[t] = "ready" /\ cur'[t] = Timer
      /\ \A u \in Thread : u # t => pc'[u] = pc[u] /\ cur'[u] = cur[u]
  BY <1>1
<1>3. \A u \in Thread : (pc'[u] = "sending" <=> pc[u] = "sending") /\ (Calling(u)' => Calling(u))
  BY <1>1, <1>2 DEF Calling
<1>4. ASSUME NEW n \in 1 .. seqNo, Outside(n)' PROVE Outside(n)
  BY <1>1, <1>2, <1>3, <1>4 DEF Outside, Resending, Timer
<1>5. QueuedOnce'
  BY <1>1, <1>4, QueuedSame DEF OnceInv
<1>6. \A n \in executed' : n \in executed \/ (cur[t] # Timer /\ n = cur[t].seq)
  BY <1>1
<1>7. executed' \subseteq 1 .. seqNo'
  BY <1>1, <1>6 DEF OnceInv, HandledOnce
<1>8. RetriedOnce'
  <2>1. \A u \in Thread : cur'[u] = Timer \/ cur'[u] = cur[u]
    BY <1>2
  <2> QED BY <1>1, <1>3, <1>6, <2>1 DEF OnceInv, RetriedOnce, Timer
<1>9. SentOnce'
  BY <1>1, <1>3, <1>6 DEF OnceInv, SentOnce, HandledOnce
<1>10. HandledOnce'
  <2> SUFFICES ASSUME NEW u \in Thread, cur'[u] # Timer
               PROVE  /\ cur'[u].seq \in 1 .. seqNo' /\ cur'[u].seq \notin executed'
                      /\ pc'[u] \notin {"ready", "recv"}
                      /\ \A v \in Thread : cur'[v].seq = cur'[u].seq => v = u
                      /\ \A v \in Thread : pc'[v] = "sending" => call'[v].seq # cur'[u].seq
    BY DEF HandledOnce
  <2>1. u # t /\ cur'[u] = cur[u] /\ pc'[u] = pc[u]
    BY <1>2
  <2>2. /\ cur[u].seq \in 1 .. seqNo /\ cur[u].seq \notin executed
        /\ pc[u] \notin {"ready", "recv"}
        /\ \A v \in Thread : cur[v].seq = cur[u].seq => v = u
        /\ \A v \in Thread : pc[v] = "sending" => call[v].seq # cur[u].seq
    BY <2>1 DEF OnceInv, HandledOnce
  <2>3. \A v \in Thread : cur'[v] = cur[v] \/ cur'[v].seq = 0
    BY <1>2 DEF Timer
  <2> QED BY <1>1, <1>3, <1>6, <2>1, <2>2, <2>3
<1> QED BY <1>5, <1>7, <1>8, <1>9, <1>10 DEF OnceInv

LEMMA OnceStep == TypeOK /\ CallPending /\ OnceInv /\ [Next]_vars => OnceInv'
<1> SUFFICES ASSUME TypeOK, CallPending, OnceInv, [Next]_vars PROVE OnceInv'
  OBVIOUS
<1>1. CASE Send
  BY <1>1, OncePost, OnceTick DEF Send
<1>2. ASSUME NEW r \in resend, Resend(r) PROVE OnceInv'
  BY <1>2, OnceResend
<1>3. ASSUME NEW t \in Thread, Step(t) PROVE OnceInv'
  BY <1>3, OnceConsumeTimer, OnceConsumeRequest, OnceCall, OnceSent, OnceMove, OnceFinish DEF Step
<1>4. CASE Operate \/ UNCHANGED vars
  <2>1. UNCHANGED <<inbox, seqNo, resend, cur, executed, call, pc>>
    BY <1>4 DEF Operate, Pause, Idling, Resume, SetState, AddIgnoreCmd, DelIgnoreCmd, SetIgnored,
                vars, queues, ghosts
  <2>2. \A n : Outside(n)' => Outside(n)
    BY <2>1, OutsideSame
  <2>3. QueuedOnce'
    BY <2>1, <2>2, QueuedSame DEF OnceInv, TypeOK, ControlType
  <2>4. RetriedOnce' /\ HandledOnce' /\ SentOnce' /\ executed' \subseteq 1 .. seqNo'
    BY <2>1 DEF OnceInv, RetriedOnce, HandledOnce, SentOnce, Calling
  <2> QED BY <2>3, <2>4 DEF OnceInv
<1> QED BY <1>1, <1>2, <1>3, <1>4 DEF Next

LEMMA OnceAlways == Spec => []OnceInv
<1>1. Init => OnceInv
  BY DEF Init, OnceInv, QueuedOnce, RetriedOnce, HandledOnce, SentOnce, Calling
<1> QED BY <1>1, TypeInvariant, OnceStep, PTL DEF Spec

(* Two attempts at a send, a call that gave up and a late answer do not    *)
(* make a handler run twice: no request stands in two places, and none     *)
(* that was handled is in a queue again (eap_queue_send, SendAndWaitResp). *)
THEOREM OnceTheorem == Spec => []AtMostOnce
<1>1. OnceInv => AtMostOnce
  <2> SUFFICES ASSUME OnceInv, NEW t \in Thread, NEW i \in DOMAIN inbox[t]
               PROVE  LET n == inbox[t][i].seq IN
                      /\ n \notin executed
                      /\ ~Resending(n)
                      /\ \A u \in Thread : ~Handling(u, n)
                      /\ \A u \in Thread : \A j \in DOMAIN inbox[u] :
                            inbox[u][j].seq = n => u = t /\ j = i
    BY DEF AtMostOnce
  <2> QED BY DEF OnceInv, QueuedOnce, Outside, Handling
<1> QED BY <1>1, OnceAlways, PTL

----------------------------------------------------------------------------
(* A response that is not matched.  A request that is still under way for  *)
(* a caller is its present one, or one whose send was reported failed, or  *)
(* one that came after such an echo.                                       *)

Waiting(t) == pc[t] \in {"matching", "waiting"}

Explained(t, n) ==
    \/ n = call[t].seq /\ Waiting(t)
    \/ \E k \in failed : k <= n /\ (k = n \/ k \in executed)

\* The request m, held by the thread u, in terms of its caller.
Authentic(u, m) ==
    m.from # NoThread =>
        /\ Owner[m.cmd] = u
        /\ m.seq <= call[m.from].seq
        /\ m.seq = call[m.from].seq => m = call[m.from]
        /\ Explained(m.from, m.seq)

QueuedAuthentic == \A u \in Thread : \A i \in DOMAIN inbox[u] : Authentic(u, inbox[u][i])

SlotAuthentic ==
    \A t \in Thread :
        /\ slot[t].from # NoThread =>
              /\ slot[t].seq <= call[t].seq
              /\ slot[t].seq = call[t].seq => slot[t] = AnswerOf(Owner[call[t].cmd], call[t])
        /\ responded[t] => slot[t].from # NoThread /\ Explained(t, slot[t].seq)

EchoInv ==
    /\ \A r \in resend : r.msg.from = NoThread
    /\ QueuedAuthentic
    /\ \A t \in Thread : Authentic(t, cur[t])
    /\ SlotAuthentic

\* A caller that stays where it is keeps what is known of its requests.
LEMMA EchoKeep ==
  ASSUME call' = call, failed \subseteq failed', executed \subseteq executed',
         \A t \in Thread : Waiting(t) => Waiting(t)'
  PROVE  /\ \A t \in Thread : \A n : Explained(t, n) => Explained(t, n)'
         /\ \A u \in Thread, m \in Message : Authentic(u, m) => Authentic(u, m)'
<1>1. ASSUME NEW t \in Thread, NEW n, Explained(t, n) PROVE Explained(t, n)'
  BY <1>1 DEF Explained
<1>2. ASSUME NEW u \in Thread, NEW m \in Message, Authentic(u, m) PROVE Authentic(u, m)'
  <2>1. m.from \in Thread \cup {NoThread}
    BY MessageFields
  <2> QED BY <1>1, <1>2, <2>1 DEF Authentic
<1> QED BY <1>1, <1>2

\* The queues after a send and after a receive.
LEMMA EchoSame ==
  ASSUME UNCHANGED inbox,
         \A u \in Thread : \A i \in DOMAIN inbox[u] : \A m : m = inbox[u][i] => Authentic(u, m)'
  PROVE  QueuedAuthentic'
BY DEF QueuedAuthentic

LEMMA EchoAppend ==
  ASSUME inbox \in [Thread -> Seq(Request)], NEW t \in Thread, NEW m \in Request,
         inbox' = [inbox EXCEPT ![t] = Append(@, m)], Authentic(t, m)',
         \A u \in Thread : \A i \in DOMAIN inbox[u] : \A l : l = inbox[u][i] => Authentic(u, l)'
  PROVE  QueuedAuthentic'
<1> SUFFICES ASSUME NEW u \in Thread, NEW i \in DOMAIN inbox'[u], NEW l, l = inbox'[u][i]
             PROVE  Authentic(u, l)'
  BY DEF QueuedAuthentic
<1>1. \/ i \in DOMAIN inbox[u] /\ inbox'[u][i] = inbox[u][i]
      \/ u = t /\ inbox'[u][i] = m
  BY EntriesAppend
<1> QED BY <1>1

LEMMA EchoTail ==
  ASSUME inbox \in [Thread -> Seq(Request)], NEW t \in Thread, inbox[t] # <<>>,
         inbox' = [inbox EXCEPT ![t] = Tail(@)],
         \A u \in Thread : \A i \in DOMAIN inbox[u] : \A l : l = inbox[u][i] => Authentic(u, l)'
  PROVE  QueuedAuthentic'
<1> SUFFICES ASSUME NEW u \in Thread, NEW i \in DOMAIN inbox'[u], NEW l, l = inbox'[u][i]
             PROVE  Authentic(u, l)'
  BY DEF QueuedAuthentic
<1>1. \E k \in DOMAIN inbox[u] : inbox'[u][i] = inbox[u][k]
  BY EntriesTail
<1> QED BY <1>1

LEMMA EntryType ==
  ASSUME inbox \in [Thread -> Seq(Request)], NEW u \in Thread, NEW i \in DOMAIN inbox[u]
  PROVE  inbox[u][i] \in Request /\ inbox[u][i] \in Message
<1>1. inbox[u] \in Seq(Request)
  OBVIOUS
<1>2. inbox[u][i] \in Request
  BY <1>1
<1> QED BY <1>2 DEF Message

\* What every step needs for the entries it does not touch.
LEMMA EchoKept ==
  ASSUME TypeOK, EchoInv,
         \A u \in Thread, m \in Message : Authentic(u, m) => Authentic(u, m)'
  PROVE  /\ \A u \in Thread : \A i \in DOMAIN inbox[u] : \A m : m = inbox[u][i] => Authentic(u, m)'
         /\ \A u \in Thread : \A m : m = cur[u] => Authentic(u, m)'
<1>1. inbox \in [Thread -> Seq(Request)] /\ cur \in [Thread -> Message]
  BY DEF TypeOK, QueueType, ThreadType
<1>2. ASSUME NEW u \in Thread, NEW i \in DOMAIN inbox[u], NEW m, m = inbox[u][i]
      PROVE  Authentic(u, m)'
  <2>1. m \in Message
    BY <1>1, <1>2, EntryType
  <2>2. Authentic(u, m)
    BY <1>2 DEF EchoInv, QueuedAuthentic
  <2> QED BY <2>1, <2>2
<1>3. ASSUME NEW u \in Thread, NEW m, m = cur[u]
      PROVE  Authentic(u, m)'
  <2>1. m \in Message /\ Authentic(u, m)
    BY <1>1, <1>3 DEF EchoInv
  <2> QED BY <2>1
<1> QED BY <1>2, <1>3

\* Asynchronous senders have no part in it.
LEMMA EchoSend ==
  ASSUME TypeOK, EchoInv, Send \/ \E r \in resend : Resend(r)
  PROVE  EchoInv'
<1>1. /\ UNCHANGED <<call, executed, pc, cur, slot, responded>> /\ failed \subseteq failed'
      /\ inbox \in [Thread -> Seq(Request)] /\ seqNo \in Nat
  BY DEF Send, Post, Tick, Resend, ghosts, TypeOK, QueueType, ControlType
<1>2. /\ \A t \in Thread : \A n : Explained(t, n) => Explained(t, n)'
      /\ \A u \in Thread, m \in Message : Authentic(u, m) => Authentic(u, m)'
  BY <1>1, EchoKeep DEF Waiting
<1>3. /\ \A u \in Thread : \A i \in DOMAIN inbox[u] : \A m : m = inbox[u][i] => Authentic(u, m)'
      /\ \A u \in Thread : \A m : m = cur[u] => Authentic(u, m)'
  BY <1>2, EchoKept
<1>4. (\A t \in Thread : Authentic(t, cur[t]))'
  BY <1>1, <1>3
<1>5. SlotAuthentic'
  BY <1>1, <1>2 DEF EchoInv, SlotAuthentic
<1>6. ASSUME NEW t \in Thread, NEW m \in Request, m.from = NoThread,
             inbox' = [inbox EXCEPT ![t] = Append(@, m)]
      PROVE  QueuedAuthentic'
  <2>1. Authentic(t, m)'
    BY <1>6 DEF Authentic
  <2> QED BY <1>1, <1>3, <1>6, <2>1, EchoAppend
<1>7. ASSUME inbox' = inbox PROVE QueuedAuthentic'
  BY <1>3, <1>7, EchoSame
<1>8. ASSUME NEW c \in Cmd, Post(c)
      PROVE  QueuedAuthentic' /\ \A r \in resend' : r.msg.from = NoThread
  <2> PICK m : m = NewRequest(NoThread, c)
    OBVIOUS
  <2>1. m \in Request /\ m.from = NoThread /\ Owner[c] \in Thread
    BY <1>1, NewRequestType, CallGraphAssumption DEF NewRequest
  <2>2. \/ inbox' = [inbox EXCEPT ![Owner[c]] = Append(@, m)] /\ resend' = resend
        \/ inbox' = inbox /\ resend' = resend \cup {[to |-> Owner[c], msg |-> m]}
    BY <1>8 DEF Post
  <2>3. \A r \in resend' : r.msg.from = NoThread
    BY <2>1, <2>2 DEF EchoInv
  <2> QED BY <1>6, <1>7, <2>1, <2>2, <2>3
<1>9. ASSUME NEW t \in Thread, Tick(t)
      PROVE  QueuedAuthentic' /\ \A r \in resend' : r.msg.from = NoThread
  BY <1>7, <1>9, TimerIsMessage DEF Tick, EchoInv
<1>10. ASSUME NEW r \in resend, Resend(r)
       PROVE  QueuedAuthentic' /\ \A s \in resend' : s.msg.from = NoThread
  <2>1. r.to \in Thread /\ r.msg \in Message /\ r.msg.from = NoThread /\ resend' \subseteq resend
    BY <1>10 DEF TypeOK, QueueType, EchoInv, Resend
  <2>2. CASE inbox' = inbox
    BY <1>7, <2>1, <2>2 DEF EchoInv
  <2>3. CASE inbox' # inbox
    <3>1. r.msg # Timer /\ inbox' = [inbox EXCEPT ![r.to] = Append(@, r.msg)]
      BY <1>10, <2>3 DEF Resend
    <3>2. r.msg \in Request
      BY <2>1, <3>1, MessageIsRequest
    <3> QED BY <1>6, <2>1, <3>1, <3>2 DEF EchoInv
  <2> QED BY <2>2, <2>3
<1> QED BY <1>4, <1>5, <1>8, <1>9, <1>10 DEF EchoInv, Send

\* A message goes to the handler, or is thrown away.
LEMMA EchoConsume ==
  ASSUME TypeOK, EchoInv, NEW t \in Thread, ConsumeTimer(t) \/ ConsumeRequest(t)
  PROVE  EchoInv'
<1>1. /\ UNCHANGED <<call, executed, failed, slot, responded, resend>>
      /\ inbox \in [Thread -> Seq(Request)] /\ cur \in [Thread -> Message] /\ pc \in [Thread -> Locations]
      /\ pc[t] = "recv" /\ \E p : pc' = [pc EXCEPT ![t] = p]
  BY DEF ConsumeTimer, ConsumeRequest, Begin, TypeOK, QueueType, ThreadType
<1>2. \A u \in Thread : Waiting(u) => Waiting(u)'
  BY <1>1 DEF Waiting
<1>3. /\ \A u \in Thread : \A n : Explained(u, n) => Explained(u, n)'
      /\ \A u \in Thread, m \in Message : Authentic(u, m) => Authentic(u, m)'
  BY <1>1, <1>2, EchoKeep
<1>4. /\ \A u \in Thread : \A i \in DOMAIN inbox[u] : \A m : m = inbox[u][i] => Authentic(u, m)'
      /\ \A u \in Thread : \A m : m = cur[u] => Authentic(u, m)'
  BY <1>3, EchoKept
<1>5. SlotAuthentic'
  BY <1>1, <1>3 DEF EchoInv, SlotAuthentic
<1>6. ASSUME NEW m, Begin(t, m), Authentic(t, m)'
      PROVE  (\A u \in Thread : Authentic(u, cur[u]))'
  <2>1. cur' = cur \/ cur' = [cur EXCEPT ![t] = m]
    BY <1>6 DEF Begin
  <2>2. \A u \in Thread : cur'[u] = cur[u] \/ (u = t /\ cur'[u] = m)
    <3>1. CASE cur' = cur
      BY <3>1
    <3>2. CASE cur' = [cur EXCEPT ![t] = m]
      BY <1>1, <3>2
    <3> QED BY <2>1, <3>1, <3>2
  <2> SUFFICES ASSUME NEW u \in Thread, NEW l, l = cur'[u] PROVE Authentic(u, l)'
    OBVIOUS
  <2> QED BY <1>4, <1>6, <2>2
<1>7. CASE ConsumeTimer(t)
  <2>1. Begin(t, Timer) /\ inbox' = inbox
    BY <1>7 DEF ConsumeTimer
  <2>2. Authentic(t, Timer)'
    BY TimerIsMessage DEF Authentic
  <2>3. (\A u \in Thread : Authentic(u, cur[u]))'
    BY <1>6, <2>1, <2>2
  <2>4. QueuedAuthentic'
    BY <1>4, <2>1, EchoSame
  <2> QED BY <1>1, <1>5, <2>3, <2>4 DEF EchoInv
<1>8. CASE ConsumeRequest(t)
  <2> PICK m : m = Head(inbox[t])
    OBVIOUS
  <2>1. Begin(t, m) /\ inbox[t] # <<>> /\ inbox' = [inbox EXCEPT ![t] = Tail(@)]
    BY <1>8 DEF ConsumeRequest
  <2>2. 1 \in DOMAIN inbox[t] /\ m = inbox[t][1]
    BY <1>1, <2>1, EmptySeq, LenProperties
  <2>3. Authentic(t, m)'
    BY <1>4, <2>2
  <2>4. (\A u \in Thread : Authentic(u, cur[u]))'
    BY <1>6, <2>1, <2>3
  <2>5. QueuedAuthentic'
    BY <1>1, <1>4, <2>1, EchoTail
  <2> QED BY <1>1, <1>5, <2>4, <2>5 DEF EchoInv
<1> QED BY <1>7, <1>8

\* A new call: its number is above those of all requests under way, and what is
\* still under way for the caller has a reported failure behind it.
LEMMA EchoCall ==
  ASSUME TypeOK, CallPending, SlotHonest, OnceInv, EchoInv, NEW t \in Thread, Call(t)
  PROVE  EchoInv'
<1> PICK m : m = NewRequest(t, CalledBy(t))
  OBVIOUS
<1> PICK to : to = Owner[m.cmd]
  OBVIOUS
<1>1. /\ seqNo \in Nat /\ UNCHANGED <<resend, cur, executed, failed, slot, responded>>
      /\ pc \in [Thread -> Locations] /\ call \in [Thread -> Message] /\ cur \in [Thread -> Message]
      /\ slot \in [Thread -> Response] /\ pc[t] = "handle" /\ inbox \in [Thread -> Seq(Request)]
  BY DEF Call, TypeOK, ControlType, ThreadType, QueueType, ghosts
<1>2. m \in Request /\ to \in Thread /\ m.seq = seqNo + 1 /\ m.from = t
  <2>1. CalledBy(t) \in Cmd
    BY CalledType DEF Call, TypeOK, ThreadType
  <2> QED BY <1>1, <2>1, NewRequestType, RequestFields DEF NewRequest
<1>3. /\ call' = [call EXCEPT ![t] = m]
      /\ \/ inbox' = [inbox EXCEPT ![to] = Append(@, m)] /\ \E p \in {"matching", "waiting"} : pc' = [pc EXCEPT ![t] = p]
         \/ inbox' = inbox /\ pc' = [pc EXCEPT ![t] = "sending"]
  BY DEF Call
<1>4. call'[t] = m /\ \A u \in Thread : u # t => pc'[u] = pc[u] /\ call'[u] = call[u]
  BY <1>1, <1>3
<1>5. ASSUME NEW u \in Thread, NEW n, Explained(u, n) PROVE Explained(u, n)'
  <2>1. CASE u = t
    <3>1. \E k \in failed : k <= n /\ (k = n \/ k \in executed)
      BY <1>1, <1>5, <2>1 DEF Explained, Waiting
    <3> QED BY <1>1, <3>1 DEF Explained
  <2>2. CASE u # t
    BY <1>1, <1>4, <1>5, <2>2 DEF Explained, Waiting
  <2> QED BY <2>1, <2>2
<1>6. ASSUME NEW u \in Thread, NEW l \in Message, l.seq = 0 \/ l.seq \in 1 .. seqNo, Authentic(u, l)
      PROVE  Authentic(u, l)'
  <2> SUFFICES ASSUME l.from \in Thread
               PROVE  /\ Owner[l.cmd] = u
                      /\ l.seq <= call'[l.from].seq
                      /\ l.seq = call'[l.from].seq => l = call'[l.from]
                      /\ Explained(l.from, l.seq)'
    BY MessageFields DEF Authentic
  <2>1. /\ Owner[l.cmd] = u /\ l.seq <= call[l.from].seq
        /\ l.seq = call[l.from].seq => l = call[l.from]
        /\ Explained(l.from, l.seq)
    BY <1>6, NamesAssumption DEF Authentic
  <2>2. Explained(l.from, l.seq)'
    BY <1>5, <2>1
  <2>3. CASE l.from = t
    <3>1. l.seq <= m.seq /\ l.seq # m.seq
      BY <1>1, <1>2, <1>6
    <3> QED BY <1>4, <2>1, <2>2, <2>3, <3>1
  <2>4. CASE l.from # t
    BY <1>4, <2>1, <2>2, <2>4
  <2> QED BY <2>3, <2>4
<1>7. ASSUME NEW u \in Thread, NEW i \in DOMAIN inbox[u], NEW l, l = inbox[u][i]
      PROVE  Authentic(u, l)'
  <2>1. l \in Message
    BY <1>1, <1>7, EntryType
  <2>2. Authentic(u, l) /\ l.seq \in 1 .. seqNo
    BY <1>7 DEF EchoInv, QueuedAuthentic, OnceInv, QueuedOnce
  <2> QED BY <1>6, <2>1, <2>2
<1>8. ASSUME NEW u \in Thread, NEW l, l = cur[u]
      PROVE  Authentic(u, l)'
  <2>1. l \in Message /\ Authentic(u, l)
    BY <1>1, <1>8 DEF EchoInv
  <2>2. l.seq = 0 \/ l.seq \in 1 .. seqNo
    BY <1>8, HandledNumber
  <2> QED BY <1>6, <2>1, <2>2
<1>9. (\A u \in Thread : Authentic(u, cur[u]))'
  BY <1>1, <1>8
<1>10. QueuedAuthentic'
  <2>1. CASE inbox' = inbox
    BY <1>7, <2>1, EchoSame
  <2>2. CASE inbox' = [inbox EXCEPT ![to] = Append(@, m)] /\ \E p \in {"matching", "waiting"} : pc' = [pc EXCEPT ![t] = p]
    <3>1. Waiting(t)'
      BY <1>1, <2>2 DEF Waiting
    <3>2. m.seq <= m.seq
      BY <1>1, <1>2
    <3>3. Authentic(to, m)'
      BY <1>2, <1>4, <3>1, <3>2 DEF Authentic, Explained
    <3> QED BY <1>1, <1>2, <1>7, <2>2, <3>3, EchoAppend
  <2> QED BY <1>3, <2>1, <2>2
<1>11. SlotAuthentic'
  <2> SUFFICES ASSUME NEW u \in Thread
               PROVE  /\ slot[u].from # NoThread =>
                            /\ slot[u].seq <= call'[u].seq
                            /\ slot[u].seq = call'[u].seq => slot[u] = AnswerOf(Owner[call'[u].cmd], call'[u])
                      /\ responded[u] => slot[u].from # NoThread /\ Explained(u, slot[u].seq)'
    BY <1>1 DEF SlotAuthentic
  <2>1. /\ slot[u].from # NoThread =>
              /\ slot[u].seq <= call[u].seq
              /\ slot[u].seq = call[u].seq => slot[u] = AnswerOf(Owner[call[u].cmd], call[u])
        /\ responded[u] => slot[u].from # NoThread /\ Explained(u, slot[u].seq)
    BY DEF EchoInv, SlotAuthentic
  <2>2. ASSUME NEW n, n = slot[u].seq, responded[u] PROVE Explained(u, n)'
    BY <1>5, <2>1, <2>2
  <2>3. responded[u] => slot[u].from # NoThread /\ Explained(u, slot[u].seq)'
    BY <1>1, <2>1, <2>2
  <2>4. CASE u = t
    <3>1. slot[u].from # NoThread => slot[u].seq \in 1 .. seqNo
      BY DEF SlotHonest, OnceInv
    <3>2. slot[u].from # NoThread => slot[u].seq <= m.seq /\ slot[u].seq # m.seq
      BY <1>1, <1>2, <3>1
    <3> QED BY <1>1, <1>4, <2>3, <2>4, <3>2
  <2>5. CASE u # t
    BY <1>1, <1>4, <2>1, <2>3, <2>5
  <2> QED BY <2>4, <2>5
<1> QED BY <1>1, <1>9, <1>10, <1>11 DEF EchoInv

\* The first send is over: the request is waited for, or reported failed.
LEMMA EchoSent ==
  ASSUME TypeOK, CallPending, EchoInv, NEW t \in Thread, SendInTime(t) \/ Retry(t)
  PROVE  EchoInv'
<1> PICK m : m = call[t]
  OBVIOUS
<1> PICK to : to = Owner[m.cmd]
  OBVIOUS
<1>1. /\ UNCHANGED <<resend, cur, executed, call, slot, responded>> /\ failed \subseteq failed'
      /\ pc \in [Thread -> Locations] /\ pc[t] = "sending" /\ inbox \in [Thread -> Seq(Request)]
  BY DEF SendInTime, Retry, TypeOK, ThreadType, QueueType, ghosts
<1>2. m \in Request /\ to \in Thread /\ m.from = t /\ m.seq \in Nat
  BY <1>1, RequestFields DEF CallPending
<1>3. /\ inbox' = inbox \/ inbox' = [inbox EXCEPT ![to] = Append(@, m)]
      /\ \E p : pc' = [pc EXCEPT ![t] = p]
      /\ \/ \E p \in {"matching", "waiting"} : pc' = [pc EXCEPT ![t] = p]
         \/ m.seq \in failed'
  BY DEF SendInTime, Retry
<1>4. \A u \in Thread : Waiting(u) => Waiting(u)'
  BY <1>1, <1>3 DEF Waiting
<1>5. /\ \A u \in Thread : \A n : Explained(u, n) => Explained(u, n)'
      /\ \A u \in Thread, l \in Message : Authentic(u, l) => Authentic(u, l)'
  BY <1>1, <1>4, EchoKeep
<1>6. /\ \A u \in Thread : \A i \in DOMAIN inbox[u] : \A l : l = inbox[u][i] => Authentic(u, l)'
      /\ \A u \in Thread : \A l : l = cur[u] => Authentic(u, l)'
  BY <1>5, EchoKept
<1>7. Explained(t, m.seq)'
  <2>1. CASE \E p \in {"matching", "waiting"} : pc' = [pc EXCEPT ![t] = p]
    <3>1. Waiting(t)'
      BY <1>1, <2>1 DEF Waiting
    <3> QED BY <1>1, <3>1 DEF Explained
  <2>2. CASE m.seq \in failed'
    <3>1. m.seq <= m.seq
      BY <1>2
    <3> QED BY <2>2, <3>1 DEF Explained
  <2> QED BY <1>3, <2>1, <2>2
<1>8. Authentic(to, m)'
  <2>1. m.seq <= m.seq
    BY <1>2
  <2> QED BY <1>1, <1>2, <1>7, <2>1 DEF Authentic
<1>9. QueuedAuthentic'
  <2>1. CASE inbox' = inbox
    BY <1>6, <2>1, EchoSame
  <2>2. CASE inbox' = [inbox EXCEPT ![to] = Append(@, m)]
    BY <1>1, <1>2, <1>6, <1>8, <2>2, EchoAppend
  <2> QED BY <1>3, <2>1, <2>2
<1>10. SlotAuthentic' /\ (\A u \in Thread : Authentic(u, cur[u]))'
  BY <1>1, <1>5, <1>6 DEF EchoInv, SlotAuthentic
<1> QED BY <1>1, <1>9, <1>10 DEF EchoInv

\* A call returns: either its own request has run and nothing of it is left, or
\* what came is an echo, which also explains the request given up now.
LEMMA EchoExplained ==
  ASSUME TypeOK, CallPending, SlotHonest, EchoInv, NEW t \in Thread, Waiting(t), responded[t],
         ~IsMatched(call[t], slot[t])
  PROVE  \E k \in failed : k < call[t].seq /\ k \in executed
<1>1. /\ call[t] \in Request /\ call[t].from = t /\ call[t].seq \in Nat /\ failed \subseteq Nat
      /\ slot[t].seq \in Nat
  BY RequestFields DEF CallPending, Waiting, TypeOK, GhostType, ThreadType, Response
<1>2. /\ slot[t].from # NoThread /\ Explained(t, slot[t].seq)
      /\ slot[t].seq <= call[t].seq
      /\ slot[t].seq = call[t].seq => slot[t] = AnswerOf(Owner[call[t].cmd], call[t])
  BY DEF EchoInv, SlotAuthentic
<1>3. slot[t].seq # call[t].seq
  <2> SUFFICES ASSUME slot[t] = AnswerOf(Owner[call[t].cmd], call[t]) PROVE FALSE
    BY <1>2
  <2> QED BY <1>1 DEF AnswerOf, IsMatched
<1>4. slot[t].seq \in executed
  BY <1>2 DEF SlotHonest
<1>5. PICK k \in failed : k <= slot[t].seq /\ (k = slot[t].seq \/ k \in executed)
  BY <1>2, <1>3 DEF Explained
<1> QED BY <1>1, <1>2, <1>3, <1>4, <1>5

LEMMA EchoReturn ==
  ASSUME TypeOK, CallPending, SlotHonest, OnceInv, EchoInv, NEW t \in Thread, Return(t)
  PROVE  EchoInv'
<1>1. /\ UNCHANGED <<inbox, resend, cur, executed, failed, call, slot>>
      /\ pc \in [Thread -> Locations] /\ Waiting(t) /\ pc' = [pc EXCEPT ![t] = "finish"]
      /\ responded \in [Thread -> BOOLEAN] /\ responded[t] /\ responded' = [responded EXCEPT ![t] = FALSE]
      /\ inbox \in [Thread -> Seq(Request)] /\ cur \in [Thread -> Message] /\ failed \subseteq Nat
  BY DEF Return, TypeOK, ThreadType, QueueType, GhostType, queues, Waiting
<1>2. /\ ~responded'[t]
      /\ \A u \in Thread : u # t => pc'[u] = pc[u] /\ responded'[u] = responded[u]
  BY <1>1
<1>3. call[t].seq \in Nat
  BY <1>1, RequestFields DEF CallPending, Waiting
<1>4. call[t].seq \in executed \/ \E k \in failed : k <= call[t].seq /\ k \in executed
  <2>1. CASE IsMatched(call[t], slot[t])
    <3>1. slot[t].from # NoThread
      BY <1>1 DEF EchoInv, SlotAuthentic
    <3> QED BY <2>1, <3>1 DEF SlotHonest, IsMatched
  <2>2. CASE ~IsMatched(call[t], slot[t])
    <3>1. PICK k \in failed : k < call[t].seq /\ k \in executed
      BY <1>1, <2>2, EchoExplained
    <3>2. k <= call[t].seq
      BY <1>1, <1>3, <3>1
    <3> QED BY <3>1, <3>2
  <2> QED BY <2>1, <2>2
<1>5. ASSUME NEW u \in Thread, NEW n, Explained(u, n), u = t => n # call[t].seq \/ n \notin executed
      PROVE  Explained(u, n)'
  <2>1. CASE \E k \in failed : k <= n /\ (k = n \/ k \in executed)
    BY <1>1, <2>1 DEF Explained
  <2>2. CASE u # t
    BY <1>1, <1>2, <1>5, <2>2 DEF Explained, Waiting
  <2>3. CASE u = t /\ n = call[t].seq
    BY <1>1, <1>4, <1>5, <2>3 DEF Explained
  <2> QED BY <1>5, <2>1, <2>2, <2>3 DEF Explained
<1>6. ASSUME NEW u \in Thread, NEW l \in Message, l = Timer \/ l.seq \notin executed, Authentic(u, l)
      PROVE  Authentic(u, l)'
  <2> SUFFICES ASSUME l.from # NoThread, l.from \in Thread PROVE Explained(l.from, l.seq)'
    BY <1>1, <1>6, MessageFields DEF Authentic
  <2>1. l # Timer /\ Explained(l.from, l.seq)
    BY <1>6, TimerIsMessage DEF Authentic
  <2> QED BY <1>5, <1>6, <2>1
<1>7. ASSUME NEW u \in Thread, NEW i \in DOMAIN inbox[u], NEW l, l = inbox[u][i]
      PROVE  Authentic(u, l)'
  <2>1. l \in Message
    BY <1>1, <1>7, EntryType
  <2>2. Authentic(u, l) /\ l.seq \notin executed
    BY <1>7 DEF EchoInv, QueuedAuthentic, OnceInv, QueuedOnce, Outside
  <2> QED BY <1>6, <2>1, <2>2
<1>8. QueuedAuthentic'
  BY <1>1, <1>7, EchoSame
<1>9. ASSUME NEW u \in Thread, NEW l, l = cur[u]
      PROVE  Authentic(u, l)'
  <2>1. l \in Message /\ Authentic(u, l) /\ (l = Timer \/ l.seq \notin executed)
    BY <1>1, <1>9 DEF EchoInv, OnceInv, HandledOnce
  <2> QED BY <1>6, <2>1
<1>10. SlotAuthentic'
  <2> SUFFICES ASSUME NEW u \in Thread
               PROVE  /\ slot[u].from # NoThread =>
                            /\ slot[u].seq <= call[u].seq
                            /\ slot[u].seq = call[u].seq => slot[u] = AnswerOf(Owner[call[u].cmd], call[u])
                      /\ responded'[u] => slot[u].from # NoThread /\ Explained(u, slot[u].seq)'
    BY <1>1 DEF SlotAuthentic
  <2>1. /\ slot[u].from # NoThread =>
              /\ slot[u].seq <= call[u].seq
              /\ slot[u].seq = call[u].seq => slot[u] = AnswerOf(Owner[call[u].cmd], call[u])
        /\ responded[u] => slot[u].from # NoThread /\ Explained(u, slot[u].seq)
    BY DEF EchoInv, SlotAuthentic
  <2>2. ASSUME NEW n, n = slot[u].seq, responded'[u] PROVE u # t /\ responded[u] /\ Explained(u, n)'
    BY <1>2, <1>5, <2>1, <2>2
  <2> QED BY <1>1, <2>1, <2>2
<1> QED BY <1>1, <1>8, <1>9, <1>10 DEF EchoInv

\* The handler of a request is done: its answer goes to the caller it names.
LEMMA EchoFinish ==
  ASSUME TypeOK, EchoInv, NEW t \in Thread, Finish(t)
  PROVE  EchoInv'
<1> PICK m : m = cur[t]
  OBVIOUS
<1>1. /\ UNCHANGED <<inbox, resend, call, failed>> /\ executed \subseteq executed'
      /\ pc \in [Thread -> Locations] /\ pc[t] = "finish" /\ pc' = [pc EXCEPT ![t] = "ready"]
      /\ cur \in [Thread -> Message] /\ cur' = [cur EXCEPT ![t] = Timer]
      /\ slot \in [Thread -> Response] /\ responded \in [Thread -> BOOLEAN]
      /\ m \in Message
  BY DEF Finish, TypeOK, ThreadType, queues
<1>2. \A u \in Thread : Waiting(u) => Waiting(u)'
  BY <1>1 DEF Waiting
<1>3. /\ \A u \in Thread : \A n : Explained(u, n) => Explained(u, n)'
      /\ \A u \in Thread, l \in Message : Authentic(u, l) => Authentic(u, l)'
  BY <1>1, <1>2, EchoKeep
<1>4. /\ \A u \in Thread : \A i \in DOMAIN inbox[u] : \A l : l = inbox[u][i] => Authentic(u, l)'
      /\ \A u \in Thread : \A l : l = cur[u] => Authentic(u, l)'
  BY <1>3, EchoKept
<1>5. QueuedAuthentic'
  BY <1>1, <1>4, EchoSame
<1>6. ASSUME NEW u \in Thread, NEW l, l = cur'[u] PROVE Authentic(u, l)'
  <2>1. CASE u = t
    BY <1>1, <1>6, <2>1, TimerIsMessage DEF Authentic
  <2>2. CASE u # t
    BY <1>1, <1>4, <1>6, <2>2
  <2> QED BY <2>1, <2>2
<1>7. CASE slot' = slot /\ responded' = responded
  BY <1>1, <1>3, <1>5, <1>6, <1>7 DEF EchoInv, SlotAuthentic
<1>8. CASE ~(slot' = slot /\ responded' = responded)
  <2>1. /\ m.from # NoThread /\ slot' = [slot EXCEPT ![m.from] = AnswerOf(t, m)]
        /\ responded' = [responded EXCEPT ![m.from] = TRUE]
    BY <1>8 DEF Finish
  <2>2. m.from \in Thread /\ m.seq \in Nat /\ t # NoThread
    BY <1>1, <2>1, MessageFields, NamesAssumption
  <2>3. /\ Owner[m.cmd] = t /\ m.seq <= call[m.from].seq
        /\ m.seq = call[m.from].seq => m = call[m.from]
        /\ Explained(m.from, m.seq)
    BY <2>1 DEF EchoInv, Authentic
  <2>4. AnswerOf(t, m).seq = m.seq /\ AnswerOf(t, m).from = t
    BY DEF AnswerOf
  <2>5. SlotAuthentic'
    <3> SUFFICES ASSUME NEW u \in Thread, NEW s, s = slot'[u]
                 PROVE  /\ s.from # NoThread =>
                              /\ s.seq <= call[u].seq
                              /\ s.seq = call[u].seq => s = AnswerOf(Owner[call[u].cmd], call[u])
                        /\ responded'[u] => s.from # NoThread /\ Explained(u, s.seq)'
      BY <1>1 DEF SlotAuthentic
    <3>1. CASE u = m.from
      <4>1. s = AnswerOf(t, m)
        BY <1>1, <2>1, <2>2, <3>1
      <4>2. Explained(u, s.seq)'
        BY <1>3, <2>3, <2>4, <3>1, <4>1
      <4> QED BY <2>2, <2>3, <2>4, <3>1, <4>1, <4>2
    <3>2. CASE u # m.from
      <4>1. s = slot[u] /\ responded'[u] = responded[u]
        BY <1>1, <2>1, <2>2, <3>2
      <4>2. /\ slot[u].from # NoThread =>
                  /\ slot[u].seq <= call[u].seq
                  /\ slot[u].seq = call[u].seq => slot[u] = AnswerOf(Owner[call[u].cmd], call[u])
            /\ responded[u] => slot[u].from # NoThread /\ Explained(u, slot[u].seq)
        BY DEF EchoInv, SlotAuthentic
      <4> QED BY <1>3, <4>1, <4>2
    <3> QED BY <3>1, <3>2
  <2> QED BY <1>1, <1>5, <1>6, <2>5 DEF EchoInv
<1> QED BY <1>7, <1>8

LEMMA EchoStep ==
  TypeOK /\ CallPending /\ SlotHonest /\ OnceInv /\ EchoInv /\ [Next]_vars => EchoInv'
<1> SUFFICES ASSUME TypeOK, CallPending, SlotHonest, OnceInv, EchoInv, [Next]_vars PROVE EchoInv'
  OBVIOUS
<1>1. CASE Send \/ \E r \in resend : Resend(r)
  BY <1>1, EchoSend
<1>2. ASSUME UNCHANGED <<inbox, resend, cur, executed, failed, call, slot, responded>>,
             \A u \in Thread : Waiting(u) => Waiting(u)'
      PROVE  EchoInv'
  <2>1. /\ \A u \in Thread : \A n : Explained(u, n) => Explained(u, n)'
        /\ \A u \in Thread, m \in Message : Authentic(u, m) => Authentic(u, m)'
    BY <1>2, EchoKeep
  <2>2. /\ \A u \in Thread : \A i \in DOMAIN inbox[u] : \A m : m = inbox[u][i] => Authentic(u, m)'
        /\ \A u \in Thread : \A m : m = cur[u] => Authentic(u, m)'
    BY <2>1, EchoKept
  <2>3. QueuedAuthentic'
    BY <1>2, <2>2, EchoSame
  <2> QED BY <1>2, <2>1, <2>2, <2>3 DEF EchoInv, SlotAuthentic
<1>3. CASE Operate \/ UNCHANGED vars
  <2>1. UNCHANGED <<inbox, resend, cur, executed, failed, call, slot, responded, pc>>
    BY <1>3 DEF Operate, Pause, Idling, Resume, SetState, AddIgnoreCmd, DelIgnoreCmd, SetIgnored,
                vars, queues, ghosts
  <2> QED BY <1>2, <2>1 DEF Waiting
<1>4. ASSUME NEW t \in Thread, Enter(t) \/ Handle(t) PROVE EchoInv'
  <2>1. UNCHANGED <<inbox, resend, cur, executed, failed, call, slot, responded>>
    BY <1>4 DEF Enter, Handle, queues, ghosts
  <2>2. pc \in [Thread -> Locations] /\ pc[t] \in {"ready", "handle"} /\ \E p : pc' = [pc EXCEPT ![t] = p]
    BY <1>4 DEF Enter, Handle, TypeOK, ThreadType
  <2>3. \A u \in Thread : Waiting(u) => Waiting(u)'
    BY <2>2 DEF Waiting
  <2> QED BY <1>2, <2>1, <2>3
<1>5. ASSUME NEW t \in Thread, Step(t) PROVE EchoInv'
  BY <1>4, <1>5, EchoConsume, EchoCall, EchoSent, EchoReturn, EchoFinish DEF Step
<1> QED BY <1>1, <1>3, <1>5 DEF Next

\* Only the return of a call that is not matched adds a mismatch.
LEMMA MismatchStep ==
  /\ TypeOK /\ CallPending /\ SlotHonest /\ EchoInv /\ MismatchOnlyAfterFailure
  /\ [Next]_vars
  => MismatchOnlyAfterFailure'
<1> SUFFICES ASSUME TypeOK, CallPending, SlotHonest, EchoInv, MismatchOnlyAfterFailure, [Next]_vars
             PROVE  MismatchOnlyAfterFailure'
  OBVIOUS
<1>0. outcome \in [Thread -> Outcome]
  BY DEF TypeOK, GhostType
<1>1. failed \subseteq failed' /\ executed \subseteq executed'
  BY DEF Next, Send, Post, Tick, Resend, Step, Enter, ConsumeTimer, ConsumeRequest, Handle, Call,
         SendInTime, Retry, Return, Finish, Operate, Pause, Idling, Resume, SetState,
         AddIgnoreCmd, DelIgnoreCmd, SetIgnored, vars, ghosts
<1>2. ASSUME outcome' = outcome PROVE MismatchOnlyAfterFailure'
  BY <1>1, <1>2 DEF MismatchOnlyAfterFailure
<1>3. ASSUME NEW t \in Thread, NEW o, outcome' = [outcome EXCEPT ![t] = o],
             o.kind = "mismatch" => \E k \in failed : k < o.seq /\ k \in executed
      PROVE  MismatchOnlyAfterFailure'
  <2> SUFFICES ASSUME NEW u \in Thread, outcome'[u].kind = "mismatch"
               PROVE  \E n \in failed' : n < outcome'[u].seq /\ n \in executed'
    BY DEF MismatchOnlyAfterFailure
  <2>1. CASE u = t
    BY <1>0, <1>1, <1>3, <2>1
  <2>2. CASE u # t
    BY <1>0, <1>1, <1>3, <2>2 DEF MismatchOnlyAfterFailure
  <2> QED BY <2>1, <2>2
<1>4. ASSUME NEW t \in Thread, Return(t) PROVE MismatchOnlyAfterFailure'
  <2> DEFINE o == [seq  |-> call[t].seq,
                   kind |-> IF ~IsMatched(call[t], slot[t]) THEN "mismatch"
                            ELSE IF slot[t].cmd \in Oversized THEN "oversized" ELSE "ok",
                   data |-> IF IsMatched(call[t], slot[t]) THEN slot[t].seq ELSE 0]
  <2>1. outcome' = [outcome EXCEPT ![t] = o] /\ Waiting(t) /\ responded[t]
    BY <1>4 DEF Return, Waiting
  <2>2. o.kind = "mismatch" => ~IsMatched(call[t], slot[t])
    OBVIOUS
  <2>3. o.kind = "mismatch" => \E k \in failed : k < o.seq /\ k \in executed
    BY <2>1, <2>2, EchoExplained
  <2> QED BY <1>3, <2>1, <2>3
<1>5. ASSUME NEW t \in Thread, Retry(t) PROVE MismatchOnlyAfterFailure'
  BY <1>3, <1>5 DEF Retry
<1>6. ASSUME \/ Send \/ \E r \in resend : Resend(r)
             \/ \E t \in Thread : \/ Enter(t) \/ ConsumeTimer(t) \/ ConsumeRequest(t) \/ Handle(t)
                                  \/ Call(t) \/ SendInTime(t) \/ Finish(t)
             \/ Operate \/ UNCHANGED vars
      PROVE  MismatchOnlyAfterFailure'
  BY <1>2, <1>6 DEF Send, Post, Tick, Resend, Enter, ConsumeTimer, ConsumeRequest, Handle, Call,
                    SendInTime, Finish, Operate, Pause, Idling, Resume, SetState,
                    AddIgnoreCmd, DelIgnoreCmd, SetIgnored, vars, ghosts
<1> QED BY <1>4, <1>5, <1>6 DEF Next, Step

(* A call that fails with "Response is not matched with request" has heard *)
(* the echo of an earlier request that eap_queue_send stored on its second *)
(* attempt and reported failed; no other interleaving of late answers and  *)
(* the one response slot leads there (SendAndWaitResp, IsMatched).         *)
THEOREM MismatchTheorem == Spec => []MismatchOnlyAfterFailure
<1>1. Init => EchoInv /\ MismatchOnlyAfterFailure
  BY TimerIsMessage DEF Init, EchoInv, QueuedAuthentic, SlotAuthentic, Authentic,
     MismatchOnlyAfterFailure, NoResponse, NoOutcome
<1> QED BY <1>1, TypeInvariant, AnswerAlways, OnceAlways, EchoStep, MismatchStep, PTL DEF Spec

----------------------------------------------------------------------------
(* The core implements remote procedure calls: which request each thread   *)
(* waits for and what its last call returned.                              *)

OpenCalls == [t \in Thread |-> IF pc[t] \in {"sending", "matching", "waiting"} THEN call[t].seq ELSE 0]
Answers == [t \in Thread |-> [req |-> outcome[t].seq, data |-> outcome[t].data]]

\* The steps of EapRpc in these terms.
RpcIssue == seqNo' = seqNo + 1 /\ UNCHANGED <<executed, OpenCalls, Answers>>
RpcOpen(t) ==
    /\ OpenCalls[t] = 0
    /\ seqNo' = seqNo + 1
    /\ OpenCalls' = [OpenCalls EXCEPT ![t] = seqNo + 1]
    /\ UNCHANGED <<executed, Answers>>
RpcServe(n) == n \notin executed /\ executed' = executed \cup {n} /\ UNCHANGED <<seqNo, OpenCalls, Answers>>
RpcReturn(t, d) ==
    /\ Answers' = [Answers EXCEPT ![t] = [req |-> OpenCalls[t], data |-> d]]
    /\ OpenCalls' = [OpenCalls EXCEPT ![t] = 0]
    /\ UNCHANGED <<seqNo, executed>>
RpcStutter == UNCHANGED <<seqNo, executed, OpenCalls, Answers>>

LEMMA RpcTerms ==
  /\ RpcIssue <=> Rpc!Issue
  /\ \A t : RpcOpen(t) <=> Rpc!Open(t)
  /\ \A n : RpcServe(n) <=> Rpc!Serve(n)
  /\ \A t : OpenCalls[t] \in executed /\ RpcReturn(t, OpenCalls[t]) <=> Rpc!Return(t)
  /\ \A t : OpenCalls[t] # 0 /\ RpcReturn(t, 0) <=> Rpc!Fail(t)
  /\ RpcStutter <=> UNCHANGED Rpc!vars
<1> USE DEF OpenCalls, Answers
<1>1. RpcIssue <=> Rpc!Issue
  BY DEF RpcIssue, Rpc!Issue
<1>2. \A t : RpcOpen(t) <=> Rpc!Open(t)
  BY DEF RpcOpen, Rpc!Open
<1>3. \A n : RpcServe(n) <=> Rpc!Serve(n)
  BY DEF RpcServe, Rpc!Serve
<1>4. \A t : OpenCalls[t] \in executed /\ RpcReturn(t, OpenCalls[t]) <=> Rpc!Return(t)
  BY DEF RpcReturn, Rpc!Return
<1>5. \A t : OpenCalls[t] # 0 /\ RpcReturn(t, 0) <=> Rpc!Fail(t)
  BY DEF RpcReturn, Rpc!Fail
<1>6. RpcStutter <=> UNCHANGED Rpc!vars
  BY DEF RpcStutter, Rpc!vars
<1> QED BY <1>1, <1>2, <1>3, <1>4, <1>5, <1>6

LEMMA OpenCallsMove ==
  ASSUME TypeOK, NEW t \in Thread, NEW p, pc' = [pc EXCEPT ![t] = p],
         NEW m, call' = call \/ call' = [call EXCEPT ![t] = m]
  PROVE  OpenCalls' = [OpenCalls EXCEPT ![t] = IF p \in {"sending", "matching", "waiting"} THEN call'[t].seq ELSE 0]
BY DEF TypeOK, ThreadType, OpenCalls

LEMMA OpenCallsEnd ==
  ASSUME TypeOK, NEW t \in Thread, pc' = [pc EXCEPT ![t] = "finish"], call' = call
  PROVE  OpenCalls' = [OpenCalls EXCEPT ![t] = 0]
BY DEF TypeOK, ThreadType, OpenCalls

LEMMA OpenCallsStay ==
  ASSUME TypeOK, NEW t \in Thread, NEW p, pc' = [pc EXCEPT ![t] = p], call' = call,
         p \in {"sending", "matching", "waiting"} <=> pc[t] \in {"sending", "matching", "waiting"}
  PROVE  OpenCalls' = OpenCalls
BY DEF TypeOK, ThreadType, OpenCalls

LEMMA AnswersMove ==
  ASSUME TypeOK, NEW t \in Thread, NEW o, outcome' = [outcome EXCEPT ![t] = o]
  PROVE  Answers' = [Answers EXCEPT ![t] = [req |-> o.seq, data |-> o.data]]
BY DEF TypeOK, GhostType, Answers

LEMMA RpcStep ==
  TypeOK /\ CallPending /\ SlotHonest /\ OnceInv /\ [Next]_vars => [Rpc!Next]_(Rpc!vars)
<1> SUFFICES ASSUME TypeOK, CallPending, SlotHonest, OnceInv, [Next]_vars
             PROVE  Rpc!Next \/ UNCHANGED Rpc!vars
  OBVIOUS
<1>0. /\ pc \in [Thread -> Locations] /\ call \in [Thread -> Message] /\ cur \in [Thread -> Message]
      /\ slot \in [Thread -> Response] /\ seqNo \in Nat
  BY DEF TypeOK, ThreadType, ControlType
<1>1. ASSUME NEW c \in Cmd, Post(c) PROVE Rpc!Next
  <2>1. RpcIssue
    BY <1>1 DEF Post, RpcIssue, OpenCalls, Answers, ghosts
  <2> QED BY <2>1, RpcTerms DEF Rpc!Next
<1>2. ASSUME \/ \E t \in Thread : Tick(t)
             \/ \E r \in resend : Resend(r)
             \/ Operate \/ UNCHANGED vars
      PROVE  UNCHANGED Rpc!vars
  <2>1. UNCHANGED <<seqNo, executed, pc, call, outcome>>
    BY <1>2 DEF Tick, Resend, Operate, Pause, Idling, Resume, SetState, AddIgnoreCmd, DelIgnoreCmd,
                SetIgnored, vars, ghosts
  <2>2. RpcStutter
    BY <2>1 DEF RpcStutter, OpenCalls, Answers
  <2> QED BY <2>2, RpcTerms
<1>3. ASSUME NEW t \in Thread,
             Enter(t) \/ ConsumeTimer(t) \/ ConsumeRequest(t) \/ Handle(t) \/ SendInTime(t)
      PROVE  UNCHANGED Rpc!vars
  <2>1. UNCHANGED <<seqNo, executed, call, outcome>>
    BY <1>3 DEF Enter, ConsumeTimer, ConsumeRequest, Handle, SendInTime, ghosts
  <2>3. OpenCalls' = OpenCalls
    <3>1. CASE Enter(t)
      <4>1. pc' = [pc EXCEPT ![t] = "recv"] /\ pc[t] = "ready"
        BY <3>1 DEF Enter
      <4> QED BY <2>1, <4>1, OpenCallsStay
    <3>2. CASE ConsumeTimer(t) \/ ConsumeRequest(t)
      <4>1. pc[t] = "recv" /\ \E p \in {"ready", "handle"} : pc' = [pc EXCEPT ![t] = p]
        BY <3>2 DEF ConsumeTimer, ConsumeRequest, Begin
      <4> QED BY <2>1, <4>1, OpenCallsStay
    <3>3. CASE Handle(t)
      <4>1. pc' = [pc EXCEPT ![t] = "finish"] /\ pc[t] = "handle"
        BY <3>3 DEF Handle
      <4> QED BY <2>1, <4>1, OpenCallsStay
    <3>4. CASE SendInTime(t)
      <4>1. pc[t] = "sending" /\ \E p \in {"matching", "waiting"} : pc' = [pc EXCEPT ![t] = p]
        BY <3>4 DEF SendInTime
      <4> QED BY <2>1, <4>1, OpenCallsStay
    <3> QED BY <1>3, <3>1, <3>2, <3>3, <3>4
  <2>4. RpcStutter
    BY <2>1, <2>3 DEF RpcStutter, Answers
  <2> QED BY <2>4, RpcTerms
<1>4. ASSUME NEW t \in Thread, Call(t) PROVE Rpc!Next
  <2> PICK m : m = NewRequest(t, CalledBy(t))
    OBVIOUS
  <2>1. /\ seqNo' = seqNo + 1 /\ UNCHANGED <<executed, outcome>> /\ pc[t] = "handle"
        /\ call' = [call EXCEPT ![t] = m]
    BY <1>4 DEF Call, ghosts
  <2>2. PICK p : pc' = [pc EXCEPT ![t] = p] /\ p \in {"sending", "matching", "waiting"}
    BY <1>4 DEF Call
  <2>3. call'[t].seq = seqNo + 1
    <3>1. call'[t] = m
      BY <1>0, <2>1
    <3> QED BY <3>1 DEF NewRequest
  <2>4. OpenCalls' = [OpenCalls EXCEPT ![t] = seqNo + 1]
    BY <2>1, <2>2, <2>3, OpenCallsMove
  <2>5. OpenCalls[t] = 0
    BY <2>1 DEF OpenCalls
  <2>6. RpcOpen(t)
    BY <2>1, <2>4, <2>5 DEF RpcOpen, Answers
  <2> QED BY <2>6, RpcTerms DEF Rpc!Next
<1>5. ASSUME NEW t \in Thread, Calling(t) PROVE OpenCalls[t] = call[t].seq /\ call[t].seq # 0
  <2>1. call[t].seq \in 1 .. seqNo
    BY <1>5 DEF OnceInv, SentOnce
  <2> QED BY <1>0, <1>5, <2>1 DEF Calling, OpenCalls
<1>6. ASSUME NEW t \in Thread, Retry(t) PROVE Rpc!Next
  <2>1. /\ UNCHANGED <<seqNo, executed, call>> /\ pc[t] = "sending" /\ pc' = [pc EXCEPT ![t] = "finish"]
        /\ outcome' = [outcome EXCEPT ![t] = [seq |-> call[t].seq, kind |-> "unsent", data |-> 0]]
    BY <1>6 DEF Retry
  <2>2. OpenCalls' = [OpenCalls EXCEPT ![t] = 0]
    BY <2>1, OpenCallsEnd
  <2>3. Answers' = [Answers EXCEPT ![t] = [req |-> call[t].seq, data |-> 0]]
    BY <2>1, AnswersMove
  <2>4. OpenCalls[t] # 0 /\ RpcReturn(t, 0)
    BY <1>5, <2>1, <2>2, <2>3 DEF RpcReturn, Calling
  <2> QED BY <2>4, RpcTerms DEF Rpc!Next
<1>7. ASSUME NEW t \in Thread, Return(t) PROVE Rpc!Next
  <2> PICK d : d = IF IsMatched(call[t], slot[t]) THEN slot[t].seq ELSE 0
    OBVIOUS
  <2>1. /\ UNCHANGED <<seqNo, executed, call>> /\ Calling(t) /\ pc' = [pc EXCEPT ![t] = "finish"]
    BY <1>7 DEF Return, queues, Calling
  <2>2. \E k : outcome' = [outcome EXCEPT ![t] = [seq |-> call[t].seq, kind |-> k, data |-> d]]
    BY <1>7 DEF Return
  <2>3. OpenCalls' = [OpenCalls EXCEPT ![t] = 0]
    BY <2>1, OpenCallsEnd
  <2>4. Answers' = [Answers EXCEPT ![t] = [req |-> call[t].seq, data |-> d]]
    <3> PICK k : outcome' = [outcome EXCEPT ![t] = [seq |-> call[t].seq, kind |-> k, data |-> d]]
      BY <2>2
    <3> QED BY AnswersMove
  <2>5. RpcReturn(t, d)
    BY <1>5, <2>1, <2>3, <2>4 DEF RpcReturn
  <2>6. CASE IsMatched(call[t], slot[t])
    <3>1. Owner[call[t].cmd] # NoThread
      BY <2>1, RequestFields, NamesAssumption DEF CallPending, Calling
    <3>2. d = call[t].seq /\ call[t].seq \in executed
      BY <2>6, <3>1 DEF IsMatched, SlotHonest
    <3>3. OpenCalls[t] \in executed /\ RpcReturn(t, OpenCalls[t])
      BY <1>5, <2>1, <2>5, <3>2
    <3> QED BY <3>3, RpcTerms DEF Rpc!Next
  <2>7. CASE ~IsMatched(call[t], slot[t])
    <3>1. OpenCalls[t] # 0 /\ RpcReturn(t, 0)
      BY <1>5, <2>1, <2>5, <2>7
    <3> QED BY <3>1, RpcTerms DEF Rpc!Next
  <2> QED BY <2>6, <2>7
<1>8. ASSUME NEW t \in Thread, Finish(t) PROVE Rpc!Next \/ UNCHANGED Rpc!vars
  <2>1. UNCHANGED <<seqNo, call, outcome>> /\ pc[t] = "finish" /\ pc' = [pc EXCEPT ![t] = "ready"]
    BY <1>8 DEF Finish
  <2>2. UNCHANGED <<OpenCalls, Answers>>
    BY <2>1, OpenCallsStay DEF Answers
  <2>3. CASE cur[t] = Timer
    <3>1. RpcStutter
      BY <1>8, <2>1, <2>2, <2>3 DEF Finish, RpcStutter
    <3> QED BY <3>1, RpcTerms
  <2>4. CASE cur[t] # Timer
    <3>1. cur[t].seq \in 1 .. seqNo /\ cur[t].seq \notin executed
      BY <2>4 DEF OnceInv, HandledOnce
    <3>2. executed' = executed \cup {cur[t].seq}
      BY <1>8, <2>4 DEF Finish
    <3>3. RpcServe(cur[t].seq)
      BY <2>1, <2>2, <3>1, <3>2 DEF RpcServe
    <3> QED BY <3>1, <3>3, RpcTerms DEF Rpc!Next
  <2> QED BY <2>3, <2>4
<1> QED BY <1>1, <1>2, <1>3, <1>4, <1>6, <1>7, <1>8 DEF Next, Send, Step

(* Callers need not know of queues, of the second attempt of a send or of  *)
(* the one response slot: whatever the core does is a step of EapRpc, in   *)
(* which a request is served at most once and a call returns the caller's  *)
(* own result or an error.                                                 *)
THEOREM Implementation == Spec => ImplementsRpc
<1>1. Init => Rpc!Init
  BY DEF Init, Rpc!Init, NoOutcome
<1> QED BY <1>1, TypeInvariant, AnswerAlways, OnceAlways, RpcStep, PTL DEF Spec, ImplementsRpc, Rpc!Spec

----------------------------------------------------------------------------
(* A call that waits.  Its request is never forgotten, and behind it there *)
(* is a thread of no higher rank that can go on: no circle of calls waits  *)
(* for itself.                                                             *)

\* What became of the request t is waiting for.
UnderWay(t) ==
    LET u == Owner[call[t].cmd] IN
    \/ responded[t]
    \/ call[t].seq \in swallowed
    \/ \E i \in DOMAIN inbox[u] : inbox[u][i] = call[t]
    \/ cur[u] = call[t]

\* Whoever waits has a request under way or thrown away, or has its answer.
CallUnderWay ==
    \A t \in Thread :
        /\ pc[t] = "matching" => responded[t]
        /\ pc[t] = "waiting" => UnderWay(t)

\* A request is with the thread that registered its command, and a call goes
\* to a thread of lower rank.
RankInv ==
    /\ \A u \in Thread : \A i \in DOMAIN inbox[u] : Owner[inbox[u][i].cmd] = u
    /\ \A r \in resend : r.msg # Timer => Owner[r.msg.cmd] = r.to
    /\ \A u \in Thread : cur[u] # Timer => Owner[cur[u].cmd] = u
    /\ \A t \in Thread : Calling(t) => Rank[Owner[call[t].cmd]] < Rank[t]

\* The handler of u has an answer to deliver.
Owes(u) == cur[u].cmd \in Answered /\ cur[u].from # NoThread

\* What a step of the thread u asks for: the guards of Step(u).
Moves(u) ==
    \/ pc[u] = "ready" /\ state[u] # "pause"
    \/ pc[u] = "recv" /\ (ticks[u] > 0 \/ inbox[u] # <<>>)
    \/ pc[u] \in {"handle", "sending"}
    \/ pc[u] \in {"matching", "waiting"} /\ responded[u]
    \/ pc[u] = "finish" /\ (Owes(u) => ~HoldsRespMtx(cur[u].from))

\* The thread u waits for the mutex of a caller that can go on.
Held(u) ==
    /\ pc[u] = "finish" /\ Owes(u)
    /\ cur[u].from \in Thread /\ HoldsRespMtx(cur[u].from) /\ Moves(cur[u].from)

Stopped(u) == WaitsInVain(u) \/ (pc[u] = "ready" /\ state[u] = "pause")

CallGoesOn ==
    \A t \in Thread : Calling(t) =>
        \E u \in Thread : Rank[u] <= Rank[t] /\ (Moves(u) \/ Held(u) \/ Stopped(u))

\* The two steps that lead into a queue and out of it.
LEMMA OwnerAppend ==
  ASSUME TypeOK, RankInv, NEW t \in Thread, NEW m \in Request, Owner[m.cmd] = t,
         inbox' = [inbox EXCEPT ![t] = Append(@, m)]
  PROVE  \A u \in Thread : \A i \in DOMAIN inbox'[u] : Owner[inbox'[u][i].cmd] = u
<1> SUFFICES ASSUME NEW u \in Thread, NEW i \in DOMAIN inbox'[u] PROVE Owner[inbox'[u][i].cmd] = u
  OBVIOUS
<1>1. inbox \in [Thread -> Seq(Request)]
  BY DEF TypeOK, QueueType
<1>2. \/ i \in DOMAIN inbox[u] /\ inbox'[u][i] = inbox[u][i]
      \/ u = t /\ inbox'[u][i] = m
  BY <1>1, EntriesAppend
<1> QED BY <1>2 DEF RankInv

LEMMA OwnerTail ==
  ASSUME TypeOK, RankInv, NEW t \in Thread, inbox[t] # <<>>,
         inbox' = [inbox EXCEPT ![t] = Tail(@)]
  PROVE  /\ \A u \in Thread : \A i \in DOMAIN inbox'[u] : Owner[inbox'[u][i].cmd] = u
         /\ Owner[Head(inbox[t]).cmd] = t
<1>1. inbox \in [Thread -> Seq(Request)]
  BY DEF TypeOK, QueueType
<1>2. ASSUME NEW u \in Thread, NEW i \in DOMAIN inbox'[u] PROVE Owner[inbox'[u][i].cmd] = u
  <2>1. \E k \in DOMAIN inbox[u] : inbox'[u][i] = inbox[u][k]
    BY <1>1, EntriesTail
  <2> QED BY <2>1 DEF RankInv
<1>3. 1 \in DOMAIN inbox[t] /\ Head(inbox[t]) = inbox[t][1]
  BY <1>1, EmptySeq, LenProperties
<1> QED BY <1>2, <1>3 DEF RankInv

\* Nothing enters a queue, is held or is handled, and no call begins.
LEMMA RankSame ==
  ASSUME RankInv, UNCHANGED <<inbox, call>>, resend' \subseteq resend,
         \A u \in Thread : cur'[u] = cur[u] \/ cur'[u] = Timer,
         \A u \in Thread : Calling(u)' => Calling(u)
  PROVE  RankInv'
<1>1. /\ \A u \in Thread : \A i \in DOMAIN inbox'[u] : Owner[inbox'[u][i].cmd] = u
      /\ \A r \in resend' : r.msg # Timer => Owner[r.msg.cmd] = r.to
  BY DEF RankInv
<1>2. \A u \in Thread : cur'[u] # Timer => Owner[cur'[u].cmd] = u
  BY DEF RankInv
<1>3. \A t \in Thread : Calling(t)' => Rank[Owner[call'[t].cmd]] < Rank[t]
  BY DEF RankInv
<1> QED BY <1>1, <1>2, <1>3 DEF RankInv

LEMMA RankPost == ASSUME TypeOK, RankInv, NEW c \in Cmd, Post(c) PROVE RankInv'
<1> PICK m : m = NewRequest(NoThread, c)
  OBVIOUS
<1>1. m \in Request /\ m.cmd = c /\ Owner[c] \in Thread
  BY NewRequestType, CallGraphAssumption DEF NewRequest, TypeOK, ControlType
<1>2. UNCHANGED <<cur, call, pc>>
  BY DEF Post
<1>3. \A u \in Thread : \A i \in DOMAIN inbox'[u] : Owner[inbox'[u][i].cmd] = u
  <2>1. CASE inbox' = inbox
    BY <2>1 DEF RankInv
  <2>2. CASE inbox' = [inbox EXCEPT ![Owner[c]] = Append(@, m)]
    BY <1>1, <2>2, OwnerAppend
  <2> QED BY <2>1, <2>2 DEF Post
<1>4. \A r \in resend' : r.msg # Timer => Owner[r.msg.cmd] = r.to
  <2>1. \A r \in resend' : r \in resend \/ r = [to |-> Owner[c], msg |-> m]
    BY DEF Post
  <2> QED BY <1>1, <2>1 DEF RankInv
<1> QED BY <1>2, <1>3, <1>4 DEF RankInv, Calling

LEMMA RankTick == ASSUME RankInv, NEW t \in Thread, Tick(t) PROVE RankInv'
<1>1. UNCHANGED <<inbox, cur, call, pc>>
  BY DEF Tick
<1>2. \A r \in resend' : r \in resend \/ r.msg = Timer
  BY DEF Tick
<1> QED BY <1>1, <1>2 DEF RankInv, Calling

LEMMA RankResend == ASSUME TypeOK, RankInv, NEW r \in resend, Resend(r) PROVE RankInv'
<1>1. UNCHANGED <<cur, call, pc>> /\ resend' \subseteq resend
  BY DEF Resend
<1>2. \A u \in Thread : \A i \in DOMAIN inbox'[u] : Owner[inbox'[u][i].cmd] = u
  <2>1. CASE inbox' = inbox
    BY <2>1 DEF RankInv
  <2>2. CASE r.msg # Timer /\ inbox' = [inbox EXCEPT ![r.to] = Append(@, r.msg)]
    <3>1. r.msg \in Request /\ r.to \in Thread
      BY <2>2, MessageIsRequest DEF TypeOK, QueueType
    <3>2. Owner[r.msg.cmd] = r.to
      BY <2>2 DEF RankInv
    <3> QED BY <2>2, <3>1, <3>2, OwnerAppend
  <2> QED BY <2>1, <2>2 DEF Resend
<1> QED BY <1>1, <1>2 DEF RankInv, Calling

LEMMA RankConsume ==
  ASSUME TypeOK, RankInv, NEW t \in Thread, ConsumeTimer(t) \/ ConsumeRequest(t)
  PROVE  RankInv'
<1>1. /\ UNCHANGED <<call, resend>> /\ pc[t] = "recv" /\ cur \in [Thread -> Message]
      /\ pc \in [Thread -> Locations] /\ \E p \in {"ready", "handle"} : pc' = [pc EXCEPT ![t] = p]
  BY DEF ConsumeTimer, ConsumeRequest, Begin, TypeOK, ThreadType
<1>2. ASSUME NEW u \in Thread, Calling(u)' PROVE Calling(u)
  BY <1>1, <1>2 DEF Calling
<1>3. CASE ConsumeTimer(t)
  <2>1. inbox' = inbox /\ (cur' = cur \/ cur' = [cur EXCEPT ![t] = Timer])
    BY <1>3 DEF ConsumeTimer, Begin
  <2>2. \A u \in Thread : cur'[u] = cur[u] \/ cur'[u] = Timer
    BY <1>1, <2>1
  <2> QED BY <1>1, <1>2, <2>1, <2>2, RankSame
<1>4. CASE ConsumeRequest(t)
  <2> PICK m : m = Head(inbox[t])
    OBVIOUS
  <2>1. /\ inbox[t] # <<>> /\ inbox' = [inbox EXCEPT ![t] = Tail(@)]
        /\ cur' = cur \/ cur' = [cur EXCEPT ![t] = m]
    BY <1>4 DEF ConsumeRequest, Begin
  <2>2. /\ \A u \in Thread : \A i \in DOMAIN inbox'[u] : Owner[inbox'[u][i].cmd] = u
        /\ Owner[m.cmd] = t
    BY <2>1, OwnerTail
  <2>3. \A u \in Thread : cur'[u] = cur[u] \/ (u = t /\ cur'[u] = m)
    BY <1>1, <2>1
  <2>4. \A u \in Thread : cur'[u] # Timer => Owner[cur'[u].cmd] = u
    BY <2>2, <2>3 DEF RankInv
  <2> QED BY <1>1, <1>2, <2>2, <2>4 DEF RankInv
<1> QED BY <1>3, <1>4

\* A handler of t calls a command whose owner has a lower rank than t.
LEMMA RankCall == ASSUME TypeOK, RankInv, NEW t \in Thread, Call(t) PROVE RankInv'
<1> PICK m : m = NewRequest(t, CalledBy(t))
  OBVIOUS
<1>1. /\ seqNo \in Nat /\ UNCHANGED <<resend, cur>> /\ pc \in [Thread -> Locations]
      /\ call \in [Thread -> Message] /\ cur \in [Thread -> Message]
  BY DEF Call, TypeOK, ControlType, ThreadType, queues
<1>2. cur[t] \in Request /\ cur[t] # Timer /\ CalledBy(t) = Nested[cur[t].cmd] /\ CalledBy(t) \in Cmd
  BY <1>1, CalledType DEF Call, CalledBy
<1>3. m \in Request /\ m.cmd = CalledBy(t)
  BY <1>1, <1>2, NewRequestType DEF NewRequest
<1>4. Rank[Owner[m.cmd]] < Rank[t]
  <2>1. Owner[cur[t].cmd] = t /\ cur[t].cmd \in Cmd
    BY <1>2, RequestFields DEF RankInv
  <2> QED BY <1>2, <1>3, <2>1, AcyclicAssumption, NamesAssumption
<1>5. /\ call' = [call EXCEPT ![t] = m] /\ \E p : pc' = [pc EXCEPT ![t] = p]
      /\ inbox' = inbox \/ inbox' = [inbox EXCEPT ![Owner[m.cmd]] = Append(@, m)]
  BY DEF Call
<1>6. \A u \in Thread : \A i \in DOMAIN inbox'[u] : Owner[inbox'[u][i].cmd] = u
  <2>1. CASE inbox' = inbox
    BY <2>1 DEF RankInv
  <2>2. CASE inbox' = [inbox EXCEPT ![Owner[m.cmd]] = Append(@, m)]
    BY <1>3, <2>2, RequestFields, OwnerAppend
  <2> QED BY <1>5, <2>1, <2>2
<1>7. ASSUME NEW u \in Thread, Calling(u)' PROVE Rank[Owner[call'[u].cmd]] < Rank[u]
  <2>1. CASE u = t
    BY <1>1, <1>4, <1>5, <2>1
  <2>2. CASE u # t
    <3>1. call'[u] = call[u] /\ pc'[u] = pc[u]
      BY <1>1, <1>5, <2>2
    <3> QED BY <1>7, <3>1 DEF RankInv, Calling
  <2> QED BY <2>1, <2>2
<1> QED BY <1>1, <1>6, <1>7 DEF RankInv

LEMMA RankSent ==
  ASSUME TypeOK, CallPending, RankInv, NEW t \in Thread, SendInTime(t) \/ Retry(t)
  PROVE  RankInv'
<1>1. /\ UNCHANGED <<resend, cur, call>> /\ pc \in [Thread -> Locations] /\ pc[t] = "sending"
      /\ \E p : pc' = [pc EXCEPT ![t] = p]
      /\ inbox' = inbox \/ inbox' = [inbox EXCEPT ![Owner[call[t].cmd]] = Append(@, call[t])]
  BY DEF SendInTime, Retry, TypeOK, ThreadType
<1>2. call[t] \in Request
  BY <1>1 DEF CallPending
<1>3. \A u \in Thread : \A i \in DOMAIN inbox'[u] : Owner[inbox'[u][i].cmd] = u
  <2>1. CASE inbox' = inbox
    BY <2>1 DEF RankInv
  <2>2. CASE inbox' = [inbox EXCEPT ![Owner[call[t].cmd]] = Append(@, call[t])]
    BY <1>2, <2>2, RequestFields, OwnerAppend
  <2> QED BY <1>1, <2>1, <2>2
<1>4. ASSUME NEW u \in Thread, Calling(u)' PROVE Calling(u)
  BY <1>1, <1>4 DEF Calling
<1> QED BY <1>1, <1>3, <1>4 DEF RankInv

LEMMA RankStep == TypeOK /\ CallPending /\ RankInv /\ [Next]_vars => RankInv'
<1> SUFFICES ASSUME TypeOK, CallPending, RankInv, [Next]_vars PROVE RankInv'
  OBVIOUS
<1>1. CASE Send \/ \E r \in resend : Resend(r)
  BY <1>1, RankPost, RankTick, RankResend DEF Send
<1>2. ASSUME NEW t \in Thread, Enter(t) \/ Handle(t) \/ Return(t) \/ Finish(t) PROVE RankInv'
  <2>1. /\ UNCHANGED <<inbox, call, resend>> /\ pc \in [Thread -> Locations]
        /\ \E p \in {"recv", "finish", "ready"} : pc' = [pc EXCEPT ![t] = p]
    BY <1>2 DEF Enter, Handle, Return, Finish, queues, TypeOK, ThreadType
  <2>2. cur \in [Thread -> Message] /\ (cur' = cur \/ cur' = [cur EXCEPT ![t] = Timer])
    BY <1>2 DEF Enter, Handle, Return, Finish, TypeOK, ThreadType
  <2>3. \A u \in Thread : cur'[u] = cur[u] \/ cur'[u] = Timer
    BY <2>2
  <2>4. ASSUME NEW u \in Thread, Calling(u)' PROVE Calling(u)
    BY <2>1, <2>4 DEF Calling
  <2> QED BY <2>1, <2>3, <2>4, RankSame
<1>3. ASSUME NEW t \in Thread, Step(t) PROVE RankInv'
  BY <1>2, <1>3, RankConsume, RankCall, RankSent DEF Step
<1>4. CASE Operate \/ UNCHANGED vars
  <2>1. UNCHANGED <<inbox, resend, cur, call, pc>>
    BY <1>4 DEF Operate, Pause, Idling, Resume, SetState, AddIgnoreCmd, DelIgnoreCmd, SetIgnored,
                vars, queues
  <2> QED BY <2>1 DEF RankInv, Calling
<1> QED BY <1>1, <1>3, <1>4 DEF Next

\* What is in a queue stays there when a message enters.
LEMMA AppendKeeps ==
  ASSUME inbox \in [Thread -> Seq(Request)], NEW t \in Thread, NEW m \in Request,
         inbox' = [inbox EXCEPT ![t] = Append(@, m)]
  PROVE  /\ \A u \in Thread : \A i \in DOMAIN inbox[u] : i \in DOMAIN inbox'[u] /\ inbox'[u][i] = inbox[u][i]
         /\ \E i \in DOMAIN inbox'[t] : inbox'[t][i] = m
<1>1. /\ inbox'[t] = Append(inbox[t], m) /\ inbox[t] \in Seq(Request)
      /\ \A u \in Thread : u # t => inbox'[u] = inbox[u]
  OBVIOUS
<1>2. /\ DOMAIN inbox'[t] = 1 .. Len(inbox[t]) + 1 /\ DOMAIN inbox[t] = 1 .. Len(inbox[t])
      /\ Len(inbox[t]) \in Nat /\ inbox'[t][Len(inbox[t]) + 1] = m
      /\ \A i \in 1 .. Len(inbox[t]) : inbox'[t][i] = inbox[t][i]
  BY <1>1, AppendProperties
<1>3. ASSUME NEW u \in Thread, NEW i \in DOMAIN inbox[u]
      PROVE  i \in DOMAIN inbox'[u] /\ inbox'[u][i] = inbox[u][i]
  <2>1. CASE u = t
    <3>1. i \in 1 .. Len(inbox[t]) /\ i \in 1 .. Len(inbox[t]) + 1
      BY <1>2, <1>3, <2>1
    <3> QED BY <1>2, <2>1, <3>1
  <2>2. CASE u # t
    BY <1>1, <1>3, <2>2
  <2> QED BY <2>1, <2>2
<1>4. Len(inbox[t]) + 1 \in DOMAIN inbox'[t]
  BY <1>2
<1> QED BY <1>2, <1>3, <1>4

\* Messages enter, nothing else happens to the request of t.
LEMMA UnderWayKept ==
  ASSUME TypeOK, CallPending, NEW t \in Thread, Calling(t), UnderWay(t), call'[t] = call[t],
         responded[t] => responded'[t], swallowed \subseteq swallowed',
         \A u \in Thread : cur[u] = call[t] => cur'[u] = call[t],
         \A u \in Thread : \A i \in DOMAIN inbox[u] :
             i \in DOMAIN inbox'[u] /\ inbox'[u][i] = inbox[u][i]
  PROVE  UnderWay(t)'
<1>1. Owner[call[t].cmd] \in Thread
  BY RequestFields DEF CallPending, Calling
<1> QED BY <1>1 DEF UnderWay

LEMMA UnderWaySend ==
  ASSUME TypeOK, CallPending, CallUnderWay, Send \/ \E r \in resend : Resend(r)
  PROVE  CallUnderWay'
<1>1. UNCHANGED <<pc, cur, call, responded, swallowed>> /\ inbox \in [Thread -> Seq(Request)]
  BY DEF Send, Post, Tick, Resend, ghosts, TypeOK, QueueType
<1>2. inbox' = inbox \/ \E u \in Thread, m \in Request : inbox' = [inbox EXCEPT ![u] = Append(@, m)]
  <2>1. ASSUME NEW c \in Cmd, Post(c)
        PROVE  inbox' = inbox \/ \E u \in Thread, m \in Request : inbox' = [inbox EXCEPT ![u] = Append(@, m)]
    <3>1. NewRequest(NoThread, c) \in Request /\ Owner[NewRequest(NoThread, c).cmd] \in Thread
          /\ NewRequest(NoThread, c).cmd = c
      BY NewRequestType, RequestFields DEF TypeOK, ControlType, NewRequest
    <3> QED BY <2>1, <3>1 DEF Post
  <2>2. ASSUME NEW r \in resend, Resend(r)
        PROVE  inbox' = inbox \/ \E u \in Thread, m \in Request : inbox' = [inbox EXCEPT ![u] = Append(@, m)]
    <3>1. r.to \in Thread /\ r.msg \in Message
      BY DEF TypeOK, QueueType
    <3> QED BY <2>2, <3>1, MessageIsRequest DEF Resend
  <2>3. ASSUME NEW u \in Thread, Tick(u) PROVE inbox' = inbox
    BY <2>3 DEF Tick
  <2> QED BY <2>1, <2>2, <2>3 DEF Send
<1>3. \A u \in Thread : \A i \in DOMAIN inbox[u] : i \in DOMAIN inbox'[u] /\ inbox'[u][i] = inbox[u][i]
  BY <1>1, <1>2, AppendKeeps
<1>4. ASSUME NEW t \in Thread, pc[t] = "waiting" PROVE UnderWay(t)'
  BY <1>1, <1>3, <1>4, UnderWayKept DEF CallUnderWay, Calling
<1> QED BY <1>1, <1>4 DEF CallUnderWay

\* The oldest request leaves the queue: it is thrown away or handled.
LEMMA UnderWayConsume ==
  ASSUME TypeOK, CallPending, OnceInv, CallUnderWay, NEW t \in Thread,
         ConsumeTimer(t) \/ ConsumeRequest(t)
  PROVE  CallUnderWay'
<1>1. /\ UNCHANGED <<call, responded>> /\ pc[t] = "recv" /\ cur \in [Thread -> Message]
      /\ pc \in [Thread -> Locations] /\ \E p \in {"ready", "handle"} : pc' = [pc EXCEPT ![t] = p]
      /\ inbox \in [Thread -> Seq(Request)]
  BY DEF ConsumeTimer, ConsumeRequest, Begin, TypeOK, ThreadType, QueueType
<1>2. PICK m : /\ Begin(t, m)
               /\ \/ inbox' = inbox
                  \/ inbox[t] # <<>> /\ m = Head(inbox[t]) /\ inbox' = [inbox EXCEPT ![t] = Tail(@)]
  BY DEF ConsumeTimer, ConsumeRequest
<1>3. cur[t] = Timer
  BY <1>1 DEF OnceInv, HandledOnce
<1>4. swallowed \subseteq swallowed' /\ \A u \in Thread : u # t => cur'[u] = cur[u]
  BY <1>1, <1>2 DEF Begin
<1>5. ASSUME NEW s \in Thread, pc'[s] = "waiting" PROVE UnderWay(s)'
  <2>1. pc[s] = "waiting"
    BY <1>1, <1>5
  <2>2. UnderWay(s) /\ Calling(s)
    BY <2>1 DEF CallUnderWay, Calling
  <2> PICK u : u = Owner[call[s].cmd]
    OBVIOUS
  <2>3. call[s] \in Request /\ call[s].from = s /\ u \in Thread
    BY <2>2, RequestFields DEF CallPending, Calling
  <2>4. call[s] # Timer
    BY <2>3, NamesAssumption DEF Timer
  <2>5. CASE responded[s] \/ call[s].seq \in swallowed
    BY <1>1, <1>4, <2>5 DEF UnderWay
  <2>6. CASE cur[u] = call[s]
    <3>1. cur'[u] = call[s]
      BY <1>3, <1>4, <2>3, <2>4, <2>6
    <3> QED BY <1>1, <3>1 DEF UnderWay
  <2>7. ASSUME NEW i \in DOMAIN inbox[u], inbox[u][i] = call[s] PROVE UnderWay(s)'
    <3>1. CASE inbox' = inbox
      BY <1>1, <2>7, <3>1 DEF UnderWay
    <3>2. CASE u # t
      <4>1. inbox'[u] = inbox[u]
        BY <1>1, <1>2, <2>3, <3>2
      <4> QED BY <1>1, <2>7, <4>1 DEF UnderWay
    <3>3. CASE u = t /\ i = 1 /\ inbox' # inbox
      <4>1. m = call[s]
        BY <1>1, <1>2, <2>7, <3>3
      <4>2. CASE cur' = [cur EXCEPT ![t] = m]
        <5>1. cur'[u] = call[s]
          BY <1>1, <2>3, <3>3, <4>1, <4>2
        <5> QED BY <1>1, <5>1 DEF UnderWay
      <4>3. CASE call[s].seq \in swallowed'
        BY <1>1, <4>3 DEF UnderWay
      <4> QED BY <1>2, <2>3, <4>1, <4>2, <4>3, NamesAssumption DEF Begin
    <3>4. CASE u = t /\ i # 1 /\ inbox' # inbox
      <4>1. inbox'[u] = Tail(inbox[u]) /\ inbox[u] \in Seq(Request) /\ inbox[u] # <<>>
        BY <1>1, <1>2, <2>3, <3>4
      <4>2. i - 1 \in DOMAIN inbox'[u] /\ inbox'[u][i - 1] = inbox[u][i]
        BY <2>7, <3>4, <4>1
      <4> QED BY <1>1, <2>7, <4>2 DEF UnderWay
    <3> QED BY <3>1, <3>2, <3>3, <3>4
  <2> QED BY <2>2, <2>5, <2>6, <2>7 DEF UnderWay
<1>6. ASSUME NEW s \in Thread, pc'[s] = "matching" PROVE responded'[s]
  BY <1>1, <1>6 DEF CallUnderWay
<1> QED BY <1>5, <1>6 DEF CallUnderWay

\* A call begins: its request is in the queue of its owner, or still to be sent.
LEMMA UnderWayCall ==
  ASSUME TypeOK, CallPending, CallUnderWay, NEW t \in Thread,
         Call(t) \/ SendInTime(t) \/ Retry(t)
  PROVE  CallUnderWay'
<1>1. /\ UNCHANGED <<cur, responded, swallowed>> /\ pc \in [Thread -> Locations]
      /\ call \in [Thread -> Message] /\ inbox \in [Thread -> Seq(Request)]
  BY DEF Call, SendInTime, Retry, ghosts, TypeOK, ThreadType, QueueType
<1>2. PICK m : /\ m \in Request /\ call' = [call EXCEPT ![t] = m]
               /\ \/ /\ pc' = [pc EXCEPT ![t] = IF responded[t] THEN "matching" ELSE "waiting"]
                     /\ inbox' = [inbox EXCEPT ![Owner[m.cmd]] = Append(@, m)]
                  \/ /\ \E p \in {"sending", "finish"} : pc' = [pc EXCEPT ![t] = p]
                     /\ inbox' = inbox \/ inbox' = [inbox EXCEPT ![Owner[m.cmd]] = Append(@, m)]
  <2>1. CASE Call(t)
    <3>1. NewRequest(t, CalledBy(t)) \in Request
      BY <2>1, CalledType, NewRequestType DEF Call, TypeOK, ThreadType, ControlType
    <3> QED BY <2>1, <3>1 DEF Call
  <2>2. CASE SendInTime(t) \/ Retry(t)
    <3>1. call[t] \in Request /\ call' = [call EXCEPT ![t] = call[t]]
      BY <1>1, <2>2 DEF SendInTime, Retry, CallPending
    <3> QED BY <2>2, <3>1 DEF SendInTime, Retry
  <2> QED BY <2>1, <2>2
<1>3. /\ Owner[m.cmd] \in Thread /\ call'[t] = m
      /\ \A u \in Thread : u # t => call'[u] = call[u] /\ pc'[u] = pc[u]
  BY <1>1, <1>2, RequestFields
<1>4. \A u \in Thread : \A i \in DOMAIN inbox[u] : i \in DOMAIN inbox'[u] /\ inbox'[u][i] = inbox[u][i]
  <2>1. CASE inbox' = inbox
    BY <2>1
  <2>2. CASE inbox' = [inbox EXCEPT ![Owner[m.cmd]] = Append(@, m)]
    <3> PICK q \in Thread : q = Owner[m.cmd]
      BY <1>3
    <3>1. inbox' = [inbox EXCEPT ![q] = Append(@, m)] /\ inbox \in [Thread -> Seq(Request)] /\ m \in Request
      BY <1>1, <1>2, <2>2
    <3> QED BY <3>1, AppendKeeps
  <2>3. inbox' = inbox \/ inbox' = [inbox EXCEPT ![Owner[m.cmd]] = Append(@, m)]
    BY <1>2
  <2> QED BY <2>1, <2>2, <2>3
<1>5. ASSUME NEW s \in Thread, s # t, pc'[s] = "waiting" PROVE UnderWay(s)'
  <2>1. pc[s] = "waiting" /\ call'[s] = call[s]
    BY <1>3, <1>5
  <2> QED BY <1>1, <1>4, <2>1, UnderWayKept DEF CallUnderWay, Calling
<1>6. ASSUME pc'[t] = "waiting" PROVE UnderWay(t)'
  <2> PICK q \in Thread : q = Owner[m.cmd]
    BY <1>3
  <2>1. inbox' = [inbox EXCEPT ![q] = Append(@, m)] /\ inbox \in [Thread -> Seq(Request)] /\ m \in Request
    BY <1>1, <1>2, <1>6
  <2>2. \E i \in DOMAIN inbox'[q] : inbox'[q][i] = m
    BY <2>1, AppendKeeps
  <2> QED BY <1>3, <2>2 DEF UnderWay
<1>7. ASSUME NEW s \in Thread, pc'[s] = "matching" PROVE responded'[s]
  BY <1>1, <1>2, <1>3, <1>7 DEF CallUnderWay
<1> QED BY <1>5, <1>6, <1>7 DEF CallUnderWay

\* The handler of a request is done: the answer is in the slot, or there is none.
LEMMA UnderWayFinish ==
  ASSUME TypeOK, CallPending, CallUnderWay, NEW t \in Thread, Finish(t)
  PROVE  CallUnderWay'
<1>1. /\ UNCHANGED <<call, inbox>> /\ pc' = [pc EXCEPT ![t] = "ready"] /\ cur' = [cur EXCEPT ![t] = Timer]
      /\ pc \in [Thread -> Locations] /\ cur \in [Thread -> Message] /\ responded \in [Thread -> BOOLEAN]
  BY DEF Finish, queues, TypeOK, ThreadType
<1>2. /\ swallowed \subseteq swallowed' /\ \A s \in Thread : responded[s] => responded'[s]
      /\ cur[t].from \in Thread => responded'[cur[t].from] \/ cur[t].seq \in swallowed'
  <2>1. CASE Owes(t)
    <3>1. responded' = [responded EXCEPT ![cur[t].from] = TRUE] /\ swallowed' = swallowed
      BY <2>1 DEF Finish, Owes
    <3>2. cur[t].from \in Thread
      BY <1>1, <2>1, MessageFields DEF Owes
    <3> QED BY <1>1, <3>1, <3>2
  <2>2. CASE ~Owes(t)
    <3>1. responded' = responded /\ (cur[t].from # NoThread => swallowed' = swallowed \cup {cur[t].seq})
          /\ swallowed \subseteq swallowed'
      BY <2>2 DEF Finish, Owes
    <3> QED BY <3>1, NamesAssumption
  <2> QED BY <2>1, <2>2
<1>3. ASSUME NEW s \in Thread, pc'[s] = "waiting" PROVE UnderWay(s)'
  <2>1. pc[s] = "waiting"
    BY <1>1, <1>3
  <2>2. UnderWay(s) /\ Calling(s)
    BY <2>1 DEF CallUnderWay, Calling
  <2>3. call[s] \in Request /\ call[s].from = s
    BY <2>2 DEF CallPending, Calling
  <2>4. CASE cur[t] = call[s]
    <3>1. responded'[s] \/ call[s].seq \in swallowed'
      BY <1>2, <2>3, <2>4
    <3> QED BY <1>1, <3>1 DEF UnderWay
  <2>5. CASE cur[t] # call[s]
    <3>1. \A u \in Thread : cur[u] = call[s] => cur'[u] = call[s]
      BY <1>1, <2>5
    <3> QED BY <1>1, <1>2, <2>2, <3>1, UnderWayKept
  <2> QED BY <2>4, <2>5
<1>4. ASSUME NEW s \in Thread, pc'[s] = "matching" PROVE responded'[s]
  BY <1>1, <1>2, <1>4 DEF CallUnderWay
<1> QED BY <1>3, <1>4 DEF CallUnderWay

LEMMA UnderWayStep ==
  TypeOK /\ CallPending /\ OnceInv /\ CallUnderWay /\ [Next]_vars => CallUnderWay'
<1> SUFFICES ASSUME TypeOK, CallPending, OnceInv, CallUnderWay, [Next]_vars PROVE CallUnderWay'
  OBVIOUS
<1>1. ASSUME UNCHANGED <<inbox, cur, call, responded, swallowed, pc>> PROVE CallUnderWay'
  BY <1>1 DEF CallUnderWay, UnderWay
<1>2. CASE Operate \/ UNCHANGED vars
  BY <1>1, <1>2 DEF Operate, Pause, Idling, Resume, SetState, AddIgnoreCmd, DelIgnoreCmd, SetIgnored,
                    vars, queues, ghosts
<1>3. ASSUME NEW t \in Thread, Enter(t) \/ Handle(t) PROVE CallUnderWay'
  <2>1. UNCHANGED <<inbox, cur, call, responded, swallowed>> /\ pc \in [Thread -> Locations]
        /\ \E p \in {"recv", "finish"} : pc' = [pc EXCEPT ![t] = p]
    BY <1>3 DEF Enter, Handle, queues, ghosts, TypeOK, ThreadType
  <2>2. \A s \in Thread, p \in {"matching", "waiting"} : pc'[s] = p => pc[s] = p
    BY <2>1
  <2> QED BY <2>1, <2>2 DEF CallUnderWay, UnderWay
<1>4. ASSUME NEW t \in Thread, Return(t) PROVE CallUnderWay'
  <2>1. UNCHANGED <<inbox, cur, call, swallowed>> /\ pc \in [Thread -> Locations]
        /\ pc' = [pc EXCEPT ![t] = "finish"] /\ responded' = [responded EXCEPT ![t] = FALSE]
        /\ responded \in [Thread -> BOOLEAN]
    BY <1>4 DEF Return, queues, TypeOK, ThreadType
  <2>2. \A s \in Thread : s # t => pc'[s] = pc[s] /\ responded'[s] = responded[s]
    BY <2>1
  <2>3. pc'[t] = "finish"
    BY <2>1
  <2> QED BY <2>1, <2>2, <2>3 DEF CallUnderWay, UnderWay
<1>5. ASSUME NEW t \in Thread, Step(t) PROVE CallUnderWay'
  BY <1>3, <1>4, <1>5, UnderWayConsume, UnderWayCall, UnderWayFinish DEF Step
<1> QED BY <1>2, <1>5, UnderWaySend DEF Next

(* The request of a caller that waits is not forgotten, full queues, late  *)
(* answers and handlers that call in turn included: it is in the queue of  *)
(* its owner, with its handler, answered, or it was thrown away - and only *)
(* then does nobody owe an answer (SendAndWaitResp, Dispatch, RecvRespMsg).*)
THEOREM UnderWayTheorem == Spec => []CallUnderWay
<1>1. Init => CallUnderWay
  BY DEF Init, CallUnderWay
<1> QED BY <1>1, TypeInvariant, OnceAlways, UnderWayStep, PTL DEF Spec

\* Every nonempty set of naturals has a least element.
LEMMA LeastNat ==
  ASSUME NEW T \in SUBSET Nat, T # {}
  PROVE  \E n \in T : \A m \in T : n <= m
<1>1. PICK n \in T : \A m \in T : ~ (<<m, n>> \in OpToRel(<, Nat))
  BY NatLessThanWellFounded, WFMin
<1>2. ASSUME NEW m \in T PROVE n <= m
  <2>1. ~ (m < n)
    BY <1>1 DEF OpToRel
  <2> QED BY <2>1
<1> QED BY <1>2

\* Behind a call there is a thread that can go on: otherwise take one of those
\* without with the least rank; the owner of its request has a lower one.
LEMMA GoesOn == TypeOK /\ CallPending /\ OnceInv /\ RankInv /\ CallUnderWay => CallGoesOn
<1> SUFFICES ASSUME TypeOK, CallPending, OnceInv, RankInv, CallUnderWay PROVE CallGoesOn
  OBVIOUS
<1> DEFINE Free(u) == Moves(u) \/ Held(u) \/ Stopped(u)
           Bad(t) == Calling(t) /\ \A u \in Thread : Rank[u] <= Rank[t] => ~Free(u)
           T == {n \in Nat : \E t \in Thread : Rank[t] = n /\ Bad(t)}
<1>1. \A u \in Thread : Rank[u] \in Nat
  BY CallGraphAssumption
<1>2. (\A t \in Thread : ~Bad(t)) => CallGoesOn
  BY DEF CallGoesOn
<1>3. SUFFICES ASSUME NEW t0 \in Thread, Bad(t0) PROVE FALSE
  BY <1>2
<1>4. T # {} /\ T \in SUBSET Nat
  BY <1>1, <1>3
<1>5. PICK n \in T : \A k \in T : n <= k
  <2> HIDE DEF T
  <2> QED BY <1>4, LeastNat
<1>6. PICK t \in Thread : Rank[t] = n /\ Bad(t)
  OBVIOUS
<1>7. ASSUME NEW u \in Thread, Calling(u) PROVE Rank[t] <= Rank[u] \/ ~Bad(u)
  BY <1>1, <1>5, <1>6
<1>8. ~Free(t)
  BY <1>1, <1>6
<1>9. pc[t] = "waiting" /\ ~responded[t]
  <2>1. pc[t] # "sending" /\ (pc[t] \in {"matching", "waiting"} => ~responded[t])
    BY <1>8 DEF Moves
  <2> QED BY <1>6, <2>1 DEF Calling, CallUnderWay
<1>10. call[t].seq \notin swallowed
  BY <1>8, <1>9 DEF Stopped, WaitsInVain
<1> PICK u : u = Owner[call[t].cmd]
  OBVIOUS
<1>11. u \in Thread /\ Rank[u] < Rank[t] /\ call[t] \in Request /\ call[t].from = t
  <2>1. Calling(t)
    BY <1>6
  <2>2. call[t] \in Request /\ call[t].from = t
    BY <2>1 DEF CallPending, Calling
  <2>3. u \in Thread
    BY <2>2, RequestFields
  <2>4. Rank[u] < Rank[t]
    BY <2>1 DEF RankInv
  <2> QED BY <2>2, <2>3, <2>4
<1>12. cur[u] = call[t] \/ \E i \in DOMAIN inbox[u] : inbox[u][i] = call[t]
  BY <1>9, <1>10 DEF CallUnderWay, UnderWay
<1>13. ~Free(u)
  BY <1>1, <1>6, <1>11
<1>14. pc[u] \in Locations
  BY <1>11 DEF TypeOK, ThreadType
<1>15. CASE pc[u] = "ready"
  <2>1. state[u] = "pause"
    BY <1>13, <1>15 DEF Moves
  <2> QED BY <1>13, <1>15, <2>1 DEF Stopped
<1>16. CASE pc[u] = "recv"
  <2>1. cur[u] = Timer
    BY <1>11, <1>16 DEF OnceInv, HandledOnce
  <2>2. call[t] # Timer
    BY <1>11, NamesAssumption DEF Timer
  <2>3. inbox[u] # <<>>
    BY <1>12, <2>1, <2>2
  <2> QED BY <1>13, <1>16, <2>3 DEF Moves
<1>17. CASE pc[u] \in {"handle", "sending"}
  BY <1>13, <1>17 DEF Moves
<1>18. CASE pc[u] \in {"matching", "waiting"}
  <2>1. Calling(u)
    BY <1>18 DEF Calling
  <2>2. ~Bad(u)
    BY <1>1, <1>7, <1>11, <2>1
  <2>3. PICK v \in Thread : Rank[v] <= Rank[u] /\ Free(v)
    BY <2>1, <2>2
  <2>4. Rank[v] <= Rank[t]
    BY <1>1, <1>11, <2>3
  <2> QED BY <1>6, <2>3, <2>4
<1>19. CASE pc[u] = "finish"
  <2>1. Owes(u) /\ HoldsRespMtx(cur[u].from)
    BY <1>13, <1>19 DEF Moves
  <2>2. cur[u].from \in Thread
    BY <1>11, <2>1, MessageFields DEF Owes, TypeOK, ThreadType
  <2>3. Moves(cur[u].from)
    BY <2>1, <2>2 DEF HoldsRespMtx, Moves, CallUnderWay
  <2> QED BY <1>13, <1>19, <2>1, <2>2, <2>3 DEF Held
<1> QED BY <1>14, <1>15, <1>16, <1>17, <1>18, <1>19 DEF Locations

(* No circle of waiting threads: behind every synchronous call there is a  *)
(* thread of no higher rank whose next step is open, or one that waits for *)
(* the response mutex of a caller whose next step is, unless the operator  *)
(* paused it or its own call was thrown away.  Capacity, the retries and   *)
(* nested calls do not matter; that calls go down in rank does.            *)
THEOREM GoesOnTheorem == Spec => []CallGoesOn
<1>1. Init => RankInv
  BY DEF Init, RankInv, Calling
<1> QED BY <1>1, TypeInvariant, OnceAlways, RankStep, UnderWayTheorem, GoesOn, PTL DEF Spec
=============================================================================
