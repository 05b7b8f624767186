---------------------------- MODULE AlinkStream ----------------------------
(***************************************************************************)
(* The bytes of a host become ALINK messages: c2_network_cbk_data, called  *)
(* by the thread of a link whenever the socket or the Type-C port can be   *)
(* read.  It appends what it reads to a buffer, takes the complete         *)
(* messages off its front, one by one, and moves the rest to the front.    *)
(* A message whose head or data fails its checksum takes everything that   *)
(* was read with it.                                                       *)
(*                                                                         *)
(* A byte is a cell that knows its message; the checksums find every       *)
(* damage.  The clock is reduced to what the callback asks of it: whether  *)
(* msg_rcv_start_tick is zero or more than ALINK_MSG_RCV_TIMEOUT_MS ago.   *)
(***************************************************************************)
EXTENDS Integers, Sequences, SequencesExt

CONSTANTS
    HeadSize,       \* ALINK_MSG_HEAD_SIZE
    Sizes,      \* lengths of messages: head, payload and checksum
    EapSize,    \* the longest message send_alinkmsg_to_eap has room for
    BufSize,    \* ALINK_MSG_BUF_MAX
    MaxSend,    \* bound on the messages of the host
    MaxFault    \* bound on the faults of the link

\* A message has data after its head, if only a checksum, and the buffer
\* "can store at least two msgs".
ASSUME AlinkAssumption ==
    /\ HeadSize \in Nat \ {0}
    /\ Sizes \subseteq Nat /\ Sizes # {}
    /\ BufSize \in Nat /\ EapSize \in Nat
    /\ \A s \in Sizes : HeadSize < s /\ 2 * s <= BufSize
    /\ MaxSend \in Nat /\ MaxFault \in Nat

VARIABLES
    lens,       \* the lengths of the messages the host has sent
    wire,       \* what was sent and not yet read
    buf,        \* buf, of length buf_len
    at,         \* the offset of msg_head in buf
    msgLen,     \* msg_len: what the message in front needs, 0 if not known
    start,      \* msg_rcv_start_tick: zero, recent or longer ago than the time-out
    pc,         \* waiting for select, or in the loop over the messages
    delivered,  \* history: the messages handed to EAP
    faults,     \* faults so far
    clean       \* history: number of messages sent before the first of those
                \* that no fault has touched, or Dirty

link == <<lens, wire, faults, clean>>
vars == <<link, buf, at, msgLen, start, pc, delivered>>

Dirty == -1
Noise == [msg |-> 0, pos |-> 0, len |-> 0]
Message(n, s) == [k \in 1 .. s |-> [msg |-> n, pos |-> k, len |-> s]]
Cell == [msg : Nat, pos : Nat, len : Nat]

Init ==
    /\ lens = <<>> /\ wire = <<>>
    /\ buf = <<>> /\ at = 0 /\ msgLen = 0 /\ start = "zero"
    /\ pc = "select"
    /\ delivered = <<>>
    /\ faults = 0 /\ clean = 0

---------------------------------------------------------------------------
(* The host and the link.                                                  *)

\* A host that sends when all it sent before was taken starts afresh.
SendMessage(s) ==
    /\ Len(lens) < MaxSend
    /\ lens' = Append(lens, s)
    /\ wire' = wire \o Message(Len(lens) + 1, s)
    /\ clean' = IF clean = Dirty /\ wire = <<>> /\ buf = <<>> THEN Len(lens) ELSE clean
    /\ UNCHANGED <<buf, at, msgLen, start, pc, delivered, faults>>

Fault ==
    /\ faults < MaxFault
    /\ faults' = faults + 1
    /\ clean' = Dirty
    /\ UNCHANGED lens

\* A byte is damaged, or lost.
Damage(k) ==
    /\ Fault
    /\ wire' = [wire EXCEPT ![k] = Noise] \/ wire' = RemoveAt(wire, k)
    /\ UNCHANGED <<buf, at, msgLen, start, pc, delivered>>

\* HEARTBEAT has the port closed and opened again, or the host connects again:
\* what came meanwhile is lost, what was read stays in the buffer.
Reopened ==
    /\ Fault
    /\ pc = "select"
    /\ wire' = <<>>
    /\ UNCHANGED <<buf, at, msgLen, start, pc, delivered>>

TimePasses ==
    /\ start = "recent"
    /\ start' = "old"
    /\ UNCHANGED <<link, buf, at, msgLen, pc, delivered>>

---------------------------------------------------------------------------
(* The callback.                                                           *)

\* Mutant: msg_len keeps its value.
ResetKeepsLength ==
    /\ buf' = <<>> /\ at' = 0 /\ start' = "zero"
    /\ pc' = "select"
    /\ UNCHANGED msgLen

\* _c2_network_reset_buf
Reset ==
    /\ buf' = <<>> /\ at' = 0 /\ start' = "zero" /\ msgLen' = 0
    /\ pc' = "select"

\* Mutant: the room does not depend on what is in the buffer.
LeftWhole == BufSize

Left == BufSize - Len(buf)

\* Something is read.  A time-out forgets the length and the time of the
\* message, but not its bytes: buf_len was copied to a local variable before.
Receive(n) ==
    /\ pc = "select" /\ n <= Left
    /\ LET expired == buf # <<>> /\ start = "old"
           need == IF expired THEN 0 ELSE msgLen
       IN /\ buf' = buf \o SubSeq(wire, 1, n)
          /\ msgLen' = need
          /\ start' = IF buf = <<>> THEN "recent" ELSE IF expired THEN "zero" ELSE start
          /\ pc' = IF Len(buf) + n < (IF need # 0 THEN need ELSE HeadSize)
                   THEN "select" ELSE "parse"
    /\ wire' = SubSeq(wire, n + 1, Len(wire))
    /\ at' = 0
    /\ UNCHANGED <<lens, delivered, faults, clean>>

\* Nothing is read: the peer has gone, or there was nothing after all.
ReceiveNothing ==
    /\ pc = "select"
    /\ Fault
    /\ wire' = <<>>
    /\ Reset
    /\ UNCHANGED delivered

\* What the loop has not looked at yet, and the checks of its front.
Rest == SubSeq(buf, at + 1, Len(buf))
HeadOk(s) == \A k \in 1 .. HeadSize : s[k].pos = k /\ s[k].msg = s[1].msg
DataOk(s) == SubSeq(s, 1, s[1].len) = Message(s[1].msg, s[1].len)

\* Mutant: the rest stays where it is.
AwaitUnmoved(need) ==
    /\ pc' = "select" /\ at' = 0
    /\ msgLen' = need
    /\ start' = IF at # 0 THEN "recent" ELSE start
    /\ UNCHANGED <<link, buf, delivered>>

\* The message in front is not complete: it moves to the start of the buffer.
Await(need) ==
    /\ buf' = Rest /\ at' = 0
    /\ msgLen' = need
    /\ start' = IF at # 0 THEN "recent" ELSE start
    /\ pc' = "select"
    /\ UNCHANGED <<link, delivered>>

AwaitHead == pc = "parse" /\ Len(Rest) < HeadSize /\ Await(0)

AwaitData ==
    /\ pc = "parse" /\ Len(Rest) >= HeadSize /\ HeadOk(Rest)
    /\ Len(Rest) < Rest[1].len
    /\ Await(Rest[1].len)

BadHead ==
    /\ pc = "parse" /\ Len(Rest) >= HeadSize /\ ~HeadOk(Rest)
    /\ Reset
    /\ UNCHANGED <<link, delivered>>

Complete == pc = "parse" /\ Len(Rest) >= HeadSize /\ HeadOk(Rest) /\ Len(Rest) >= Rest[1].len

BadData ==
    /\ Complete /\ ~DataOk(Rest)
    /\ Reset
    /\ UNCHANGED <<link, delivered>>

\* Mutant: the messages behind it are forgotten.
DeliverOnly ==
    /\ Complete /\ DataOk(Rest)
    /\ delivered' = IF Rest[1].len <= EapSize THEN Append(delivered, Rest[1].msg) ELSE delivered
    /\ Reset
    /\ UNCHANGED link

\* The message goes to EAP, if it is short enough; the loop goes on behind it.
Deliver ==
    /\ Complete /\ DataOk(Rest)
    /\ delivered' = IF Rest[1].len <= EapSize THEN Append(delivered, Rest[1].msg) ELSE delivered
    /\ IF Len(Rest) = Rest[1].len
       THEN Reset
       ELSE /\ at' = at + Rest[1].len
            /\ start' = "recent" /\ msgLen' = 0
            /\ UNCHANGED <<buf, pc>>
    /\ UNCHANGED link

Callback ==
    \/ \E n \in 1 .. Len(wire) : Receive(n)
    \/ AwaitHead \/ AwaitData \/ BadHead \/ BadData \/ Deliver

Next ==
    \/ \E s \in Sizes : SendMessage(s)
    \/ \E k \in 1 .. Len(wire) : Damage(k)
    \/ Reopened
    \/ TimePasses
    \/ ReceiveNothing
    \/ Callback

Spec == Init /\ [][Next]_vars

---------------------------------------------------------------------------
TypeOK ==
    /\ lens \in Seq(Sizes)
    /\ wire \in Seq(Cell)
    /\ buf \in Seq(Cell) /\ Len(buf) <= BufSize
    /\ at \in 0 .. BufSize
    /\ msgLen \in {0} \cup Sizes
    /\ start \in {"zero", "recent", "old"}
    /\ pc \in {"select", "parse"}
    /\ delivered \in Seq(Nat)
    /\ faults \in 0 .. MaxFault
    /\ clean \in Nat \cup {Dirty}

(* When the callback returns, what it leaves is the beginning of a message *)
(* that has not come yet, it waits for no more than that message needs,    *)
(* and the rest of it has room: a buffer without room would make the next  *)
(* recv return 0, which counts as the end of the connection.               *)
NoneHeldBack ==
    pc = "select" =>
        /\ Len(buf) >= HeadSize => HeadOk(buf) /\ Len(buf) < buf[1].len
        /\ msgLen # 0 => Len(buf) >= HeadSize /\ msgLen = buf[1].len
        /\ Len(buf) < BufSize

(* Whatever the link does, EAP is given messages of the host that fit, in  *)
(* the order they were sent and none of them twice.                        *)
InOrderOnce ==
    /\ \A i \in DOMAIN delivered : delivered[i] \in DOMAIN lens /\ lens[delivered[i]] <= EapSize
    /\ \A i, j \in DOMAIN delivered : i < j => delivered[i] < delivered[j]

(* A message that no fault has touched, sent when the bytes before it were *)
(* untouched as well or all taken, is not lost: it was handed to EAP or    *)
(* all its bytes are under way, however the reads cut the stream and       *)
(* however long the host pauses in the middle of it.                       *)
UnderWay == ToSet(Rest) \cup ToSet(wire)

CleanLosesNothing ==
    clean # Dirty =>
        \A n \in clean + 1 .. Len(lens) : lens[n] <= EapSize =>
            n \in ToSet(delivered) \/ ToSet(Message(n, lens[n])) \subseteq UnderWay
=============================================================================
