---------------------------- MODULE C2Link_proofs ----------------------------
(***************************************************************************)
(* The table of links for any number of hosts, clients, entries and        *)
(* sending threads: it holds open sockets only, no socket is closed under  *)
(* a sender, the lock is with its sender, and a connection that is no use  *)
(* for sending stays so until it is taken down.                            *)
(***************************************************************************)
EXTENDS C2Link, WellFoundedInduction, SequenceTheorems, TLAPS

Before == OpToRel(<, Nat)

\* Min of a set of natural numbers is one of them.
LEMMA MinIn ==
  ASSUME NEW S \in SUBSET Nat, S # {}
  PROVE  Min(S) \in S
<1>1. IsWellFoundedOn(Before, Nat)
  BY NatLessThanWellFounded DEF Before
<1>2. PICK x \in S : \A y \in S : <<y, x>> \notin Before
  BY <1>1, WFMin
<1>3. \A y \in S : ~(y < x)
  BY <1>2 DEF Before, OpToRel
<1>4. \A y \in S : x =< y
  BY <1>3
<1> QED BY <1>2, <1>4 DEF Min

-----------------------------------------------------------------------------
(* Types.                                                                  *)

\* A client tries to connect only while it has an attempt left, and counts
\* from zero after a connection.
TriesLeft ==
    \A c \in Client :
        /\ clients[c].pc \in {"callback", "loop", "down"} => clients[c].tries = 0
        /\ clients[c].pc = "top" => clients[c].tries < ConnectTime

TypeInv == TypeOK /\ TriesLeft

\* Taking a client off the list leaves a list of clients.
LEMMA UnlinkType ==
  ASSUME list \in Seq(Client), NEW c \in Client
  PROVE  Unlink(c) \in Seq(Client)
<1>1. CASE c \notin Range(list)
  BY <1>1 DEF Unlink
<1>2. CASE c \in Range(list)
  <2> DEFINE k == CHOOSE j \in 1 .. Len(list) : list[j] = c
             rest == SubSeq(list, k + 1, Len(list))
  <2>1. \E j \in 1 .. Len(list) : list[j] = c
    BY <1>2 DEF Range
  <2>2. k \in 1 .. Len(list)
    BY <2>1
  <2>3. rest \in Seq(Client)
    <3>1. Len(list) \in Nat /\ k + 1 \in 1 .. Len(list) + 1
      BY <2>2
    <3> HIDE DEF k
    <3> QED BY <3>1, SubSeqProperties
  <2>4. <<list[1]>> \in Seq(Client)
    BY <2>2
  <2>5. <<list[1]>> \o rest \in Seq(Client)
    BY <2>3, <2>4
  <2>6. Unlink(c) = IF k = 1 THEN rest ELSE <<list[1]>> \o rest
    BY <1>2 DEF Unlink
  <2> HIDE DEF k, rest
  <2> QED BY <2>3, <2>5, <2>6
<1> QED BY <1>1, <1>2

\* The record of a client after a change of some of its fields.
LEMMA ClientType ==
  ASSUME clients \in [Client -> ClientRecord], NEW c \in Client,
         NEW r \in ClientRecord, clients' = [clients EXCEPT ![c] = r]
  PROVE  /\ clients' \in [Client -> ClientRecord]
         /\ clients'[c] = r
         /\ \A d \in Client \ {c} : clients'[d] = clients[d]
  OBVIOUS

\* A change of one client keeps the types when the new record is one.
LEMMA OneClient ==
  ASSUME TypeInv, NEW c \in Client, NEW r \in ClientRecord,
         clients' = [clients EXCEPT ![c] = r],
         r.pc \in {"callback", "loop", "down"} => r.tries = 0,
         r.pc = "top" => r.tries < ConnectTime
  PROVE  clients' \in [Client -> ClientRecord] /\ TriesLeft'
<1>1. clients \in [Client -> ClientRecord] /\ TriesLeft
  BY DEF TypeInv, TypeOK
<1>2. clients' \in [Client -> ClientRecord] /\ clients'[c] = r
      /\ \A d \in Client \ {c} : clients'[d] = clients[d]
  BY <1>1, ClientType
<1>3. TriesLeft'
  BY <1>1, <1>2 DEF TriesLeft
<1> QED BY <1>2, <1>3

LEMMA TypeInit == Init => TypeInv
<1> SUFFICES ASSUME Init PROVE TypeInv
  OBVIOUS
<1>1. 0 \in 0 .. ConnectTime /\ 0 \in 0 .. MaxConnect
  BY C2LinkAssumption
<1>2. Gone \in ClientRecord
  BY <1>1 DEF Gone, ClientRecord, Conn
<1>3. clients \in [Client -> ClientRecord]
  BY <1>2 DEF Init
<1>4. list \in Seq(Client) /\ udp \in [new : Client \cup {None}, last : Client \cup {None}]
  BY DEF Init
<1>5. slots \in [Slot -> [sock : Client \cup {None}, on : BOOLEAN]] /\ mtx \in Thread \cup {None}
  BY DEF Init, Empty
<1>6. senders \in [Thread -> [pc : {"idle", "wait", "send"}, to : Client \cup {All, None}, i : 0 .. MaxConnect]]
  BY <1>1 DEF Init, Idle
<1>7. TriesLeft
  BY DEF Init, TriesLeft, Gone
<1> QED BY <1>3, <1>4, <1>5, <1>6, <1>7 DEF TypeInv, TypeOK

\* The steps of a client and of its connection.
LEMMA ClientStepType ==
  ASSUME TypeInv, NEW c \in Client,
         ClientTask(c) \/ Stall(c) \/ Resume(c) \/ Break(c)
  PROVE  clients' \in [Client -> ClientRecord] /\ TriesLeft'
<1> DEFINE r == clients[c]
<1>1. r \in ClientRecord /\ clients \in [Client -> ClientRecord]
  BY DEF TypeInv, TypeOK
<1>2. r.pc \in {"callback", "loop", "down"} => r.tries = 0
  BY DEF TypeInv, TriesLeft
<1>3. r.pc = "top" => r.tries < ConnectTime
  BY DEF TypeInv, TriesLeft
<1>4. ConnectTime \in Nat \ {0} /\ r.tries \in 0 .. ConnectTime
  BY <1>1, C2LinkAssumption DEF ClientRecord
<1>5. CASE Connect(c)
  <2> DEFINE s == [r EXCEPT !.pc = "callback", !.conn = "up", !.tries = 0]
  <2>1. clients' = [clients EXCEPT ![c] = s]
    BY <1>1, <1>5 DEF Connect
  <2>2. s.pc = "callback" /\ s.tries = 0
    BY <1>1 DEF ClientRecord
  <2>3. 0 \in 0 .. ConnectTime
    BY <1>4
  <2>4. s \in ClientRecord
    BY <1>1, <2>3 DEF ClientRecord, Conn
  <2> HIDE DEF s
  <2> QED BY <2>1, <2>2, <2>4, OneClient
<1>6. CASE ConnectFails(c)
  <2> DEFINE n == r.tries + 1
             s == [r EXCEPT !.tries = n, !.pc = IF ConnectTime <= n THEN "end" ELSE "top"]
  <2>1. clients' = [clients EXCEPT ![c] = s]
    BY <1>1, <1>6 DEF ConnectFails
  <2>2. n \in 0 .. ConnectTime
    BY <1>3, <1>4, <1>6 DEF ConnectFails, At
  <2>3. s \in ClientRecord
    BY <1>1, <2>2 DEF ClientRecord
  <2>4. s.tries = n /\ s.pc = IF ConnectTime <= n THEN "end" ELSE "top"
    BY <1>1 DEF ClientRecord
  <2>5. s.pc = "top" => s.tries < ConnectTime
    BY <2>2, <2>4, <1>4
  <2>6. s.pc \notin {"callback", "loop", "down"}
    BY <2>4
  <2> HIDE DEF s
  <2> QED BY <2>1, <2>3, <2>5, <2>6, OneClient
<1>7. CASE Register(c)
  <2> DEFINE s == [r EXCEPT !.pc = "loop"]
  <2>1. clients' = [clients EXCEPT ![c] = s] /\ r.pc = "callback"
    BY <1>1, <1>7 DEF Register, At
  <2>2. s \in ClientRecord /\ s.pc = "loop" /\ s.tries = r.tries
    BY <1>1 DEF ClientRecord
  <2> HIDE DEF s
  <2> QED BY <1>2, <2>1, <2>2, OneClient
<1>8. CASE PeerGone(c)
  <2> DEFINE s == [r EXCEPT !.pc = "down"]
  <2>1. clients' = [clients EXCEPT ![c] = s] /\ r.pc = "loop"
    BY <1>1, <1>8 DEF PeerGone, At
  <2>2. s \in ClientRecord /\ s.pc = "down" /\ s.tries = r.tries
    BY <1>1 DEF ClientRecord
  <2> HIDE DEF s
  <2> QED BY <1>2, <2>1, <2>2, OneClient
<1>9. CASE TurnedOff(c)
  <2> DEFINE s == [r EXCEPT !.pc = "down", !.close = TRUE]
  <2>1. clients' = [clients EXCEPT ![c] = s] /\ r.pc = "loop"
    BY <1>1, <1>9 DEF TurnedOff, At
  <2>2. s \in ClientRecord /\ s.pc = "down" /\ s.tries = r.tries
    BY <1>1 DEF ClientRecord
  <2> HIDE DEF s
  <2> QED BY <1>2, <2>1, <2>2, OneClient
<1>10. CASE Disconnect(c)
  <2> DEFINE s == [r EXCEPT !.pc = "top", !.conn = "none"]
  <2>1. clients' = [clients EXCEPT ![c] = s] /\ r.pc = "down"
    BY <1>1, <1>10 DEF Disconnect, At
  <2>2. s \in ClientRecord /\ s.pc = "top" /\ s.tries = r.tries
    BY <1>1 DEF ClientRecord, Conn
  <2>3. s.tries < ConnectTime
    BY <1>2, <1>4, <2>1, <2>2
  <2> HIDE DEF s
  <2> QED BY <2>1, <2>2, <2>3, OneClient
<1>11. CASE Closed(c)
  <2> DEFINE s == [r EXCEPT !.pc = "end"]
  <2>1. clients' = [clients EXCEPT ![c] = s]
    BY <1>1, <1>11 DEF Closed
  <2>2. s \in ClientRecord /\ s.pc = "end"
    BY <1>1 DEF ClientRecord
  <2> HIDE DEF s
  <2> QED BY <2>1, <2>2, OneClient
<1>12. CASE Delete(c)
  <2>1. clients' = [clients EXCEPT ![c] = Gone]
    BY <1>12 DEF Delete
  <2>2. Gone \in ClientRecord /\ Gone.pc = "free"
    BY <1>4 DEF Gone, ClientRecord, Conn
  <2> QED BY <2>1, <2>2, OneClient
<1>13. ASSUME NEW conn \in {"up", "stalled", "broken"}, Network(c, conn)
       PROVE  clients' \in [Client -> ClientRecord] /\ TriesLeft'
  <2> DEFINE s == [r EXCEPT !.conn = conn]
  <2>1. clients' = [clients EXCEPT ![c] = s]
    BY <1>1, <1>13 DEF Network
  <2>2. s \in ClientRecord /\ s.pc = r.pc /\ s.tries = r.tries
    BY <1>1, <1>13 DEF ClientRecord, Conn
  <2> HIDE DEF s
  <2> QED BY <1>2, <1>3, <2>1, <2>2, OneClient
<1> QED
  BY <1>5, <1>6, <1>7, <1>8, <1>9, <1>10, <1>11, <1>12, <1>13 DEF ClientTask, Stall, Resume, Break

\* What a sender does to the lock and to itself.
LEMMA SendOnType ==
  ASSUME TypeInv, NEW t \in Thread, NEW channel \in Client \cup {All, None},
         NEW next \in SUBSET Slot, SendOn(t, channel, next)
  PROVE  /\ mtx' \in Thread \cup {None}
         /\ senders' \in [Thread -> [pc : {"idle", "wait", "send"},
                                     to : Client \cup {All, None}, i : 0 .. MaxConnect]]
<1>1. senders \in [Thread -> [pc : {"idle", "wait", "send"}, to : Client \cup {All, None}, i : 0 .. MaxConnect]]
      /\ mtx \in Thread \cup {None}
  BY DEF TypeInv, TypeOK
<1>2. mtx' \in Thread \cup {None}
  BY <1>1 DEF SendOn
<1>3. 0 \in 0 .. MaxConnect /\ MaxConnect \in Nat
  BY C2LinkAssumption
<1>4. CASE next = {}
  <2>1. senders' = [senders EXCEPT ![t] = Idle]
    BY <1>4 DEF SendOn
  <2>2. Idle \in [pc : {"idle", "wait", "send"}, to : Client \cup {All, None}, i : 0 .. MaxConnect]
    BY <1>3 DEF Idle
  <2> QED BY <1>1, <1>2, <2>1, <2>2
<1>5. CASE next # {}
  <2>1. Slot \subseteq Nat /\ Slot \subseteq 0 .. MaxConnect
    BY <1>3 DEF Slot
  <2>2. Min(next) \in 0 .. MaxConnect
    BY <1>5, <2>1, MinIn
  <2>3. senders' = [senders EXCEPT ![t] = [pc |-> "send", to |-> channel, i |-> Min(next)]]
    BY <1>5 DEF SendOn
  <2> QED BY <1>1, <1>2, <2>2, <2>3
<1> QED BY <1>4, <1>5

\* Every step keeps the types.
LEMMA TypeStep == TypeInv /\ [Next]_vars => TypeInv'
<1> SUFFICES ASSUME TypeInv, [Next]_vars PROVE TypeInv'
  OBVIOUS
<1>1. clients \in [Client -> ClientRecord] /\ TriesLeft
  BY DEF TypeInv, TypeOK
<1>2. list \in Seq(Client) /\ udp \in [new : Client \cup {None}, last : Client \cup {None}]
  BY DEF TypeInv, TypeOK
<1>3. slots \in [Slot -> [sock : Client \cup {None}, on : BOOLEAN]]
  BY DEF TypeInv, TypeOK
<1>4. mtx \in Thread \cup {None}
      /\ senders \in [Thread -> [pc : {"idle", "wait", "send"}, to : Client \cup {All, None}, i : 0 .. MaxConnect]]
  BY DEF TypeInv, TypeOK
<1> DEFINE LinkType == list \in Seq(Client) /\ udp \in [new : Client \cup {None}, last : Client \cup {None}]
           SlotType == slots \in [Slot -> [sock : Client \cup {None}, on : BOOLEAN]]
           LockType == /\ mtx \in Thread \cup {None}
                       /\ senders \in [Thread -> [pc : {"idle", "wait", "send"},
                                           to : Client \cup {All, None}, i : 0 .. MaxConnect]]
<1>5. SUFFICES /\ clients' \in [Client -> ClientRecord] /\ TriesLeft'
               /\ LinkType' /\ SlotType' /\ LockType'
  BY DEF TypeInv, TypeOK
<1>6. ASSUME NEW h \in Host, Announce(h)
      PROVE  /\ clients' \in [Client -> ClientRecord] /\ TriesLeft'
             /\ LinkType' /\ SlotType' /\ LockType'
  <2> DEFINE c == Min(Free)
             r == [Gone EXCEPT !.pc = "top", !.host = h]
  <2>1. Free \in SUBSET Client /\ Free # {} /\ Client \subseteq Nat
    BY <1>6, C2LinkAssumption DEF Announce, Free
  <2>2. c \in Client
    BY <2>1, MinIn
  <2>3. ConnectTime \in Nat \ {0}
    BY C2LinkAssumption
  <2>4. Gone \in ClientRecord /\ Gone.tries = 0
    BY <2>3 DEF Gone, ClientRecord, Conn
  <2>5. r \in ClientRecord /\ r.pc = "top" /\ r.tries < ConnectTime
    <3>1. r \in ClientRecord
      BY <2>4 DEF ClientRecord
    <3>2. r.pc = "top" /\ r.tries = Gone.tries
      BY <2>4 DEF ClientRecord
    <3> QED BY <2>3, <2>4, <3>1, <3>2
  <2>6. clients' = [clients EXCEPT ![c] = r]
        /\ udp' = [new |-> c, last |-> IF list = << >> THEN None ELSE Last(list)]
    BY <1>6 DEF Announce
  <2>7. clients' \in [Client -> ClientRecord] /\ TriesLeft'
    <3> HIDE DEF c, r
    <3> QED BY <2>2, <2>5, <2>6, OneClient
  <2>8. list # << >> => Last(list) \in Client
    BY <1>2 DEF Last
  <2>9. LinkType'
    <3>1. list' = list
      BY <1>6 DEF Announce
    <3> HIDE DEF c
    <3> QED BY <1>2, <2>2, <2>6, <2>8, <3>1
  <2>10. SlotType' /\ LockType'
    BY <1>3, <1>4, <1>6 DEF Announce
  <2> QED BY <2>7, <2>9, <2>10
<1>7. CASE Link
  <2>1. udp.new \in Client
    BY <1>2, <1>7 DEF Link
  <2>2. list' \in Seq(Client)
    BY <1>2, <1>7, <2>1 DEF Link
  <2>3. udp' \in [new : Client \cup {None}, last : Client \cup {None}]
    BY <1>7 DEF Link
  <2>4. clients' \in [Client -> ClientRecord] /\ TriesLeft' /\ SlotType' /\ LockType'
    BY <1>1, <1>3, <1>4, <1>7 DEF Link, TriesLeft
  <2> QED BY <2>2, <2>3, <2>4
<1>8. ASSUME NEW c \in Client, ClientTask(c) \/ Stall(c) \/ Resume(c) \/ Break(c)
      PROVE  /\ clients' \in [Client -> ClientRecord] /\ TriesLeft'
             /\ LinkType' /\ SlotType' /\ LockType'
  <2>1. clients' \in [Client -> ClientRecord] /\ TriesLeft'
    BY <1>8, ClientStepType
  <2>2. LockType'
    BY <1>4, <1>8 DEF ClientTask, Connect, ConnectFails, Register, PeerGone, TurnedOff, Disconnect,
                      Closed, Delete, Stall, Resume, Break, Network
  <2>3. udp' = udp /\ list' \in {list, Unlink(c)}
    BY <1>8 DEF ClientTask, Connect, ConnectFails, Register, PeerGone, TurnedOff, Disconnect,
                Closed, Delete, Stall, Resume, Break, Network
  <2>4. LinkType'
    BY <1>2, <2>3, UnlinkType
  <2>5. \/ slots' = slots
        \/ \E i \in Slot : slots' = [slots EXCEPT ![i] = [sock |-> c, on |-> TRUE]]
        \/ slots' = [i \in Slot |-> IF slots[i].sock = c THEN Empty ELSE slots[i]]
    <3>1. CASE Register(c)
      <4> DEFINE empty == {i \in Slot : slots[i].sock = None}
      <4>1. empty # {} => Min(empty) \in Slot
        BY MinIn, C2LinkAssumption DEF Slot
      <4>2. slots' = slots \/ TcpConnect(c)
        BY <3>1 DEF Register
      <4> QED BY <4>1, <4>2 DEF TcpConnect
    <3>2. CASE Disconnect(c)
      BY <3>2 DEF Disconnect, TcpDisconnect
    <3>3. CASE ~Register(c) /\ ~Disconnect(c)
      BY <1>8, <3>3 DEF ClientTask, Connect, ConnectFails, PeerGone, TurnedOff,
                        Closed, Delete, Stall, Resume, Break, Network
    <3> QED BY <3>1, <3>2, <3>3
  <2>6. SlotType'
    <3>1. Empty \in [sock : Client \cup {None}, on : BOOLEAN]
      BY DEF Empty
    <3>2. [sock |-> c, on |-> TRUE] \in [sock : Client \cup {None}, on : BOOLEAN]
      OBVIOUS
    <3> QED BY <1>3, <2>5, <3>1, <3>2
  <2> QED BY <2>1, <2>2, <2>4, <2>6
<1>9. ASSUME NEW t \in Thread, Send(t) \/ Locked(t)
      PROVE  /\ clients' \in [Client -> ClientRecord] /\ TriesLeft'
             /\ LinkType' /\ SlotType' /\ LockType'
  <2>1. UNCHANGED <<clients, list, udp, slots>>
    BY <1>9 DEF Send, Locked, Enter, Sent, SendOn
  <2>2. LockType'
    <3>1. CASE Send(t)
      BY <1>4, <3>1 DEF Send
    <3>2. ASSUME NEW channel \in {All} \cup Client, Enter(t, channel) PROVE LockType'
      BY <3>2, SendOnType DEF Enter, Addressed
    <3>3. CASE Sent(t)
      <4>1. senders[t].to \in Client \cup {All, None} /\ After(senders[t]) \in SUBSET Slot
        BY <1>4 DEF After, Addressed
      <4>2. SendOn(t, senders[t].to, After(senders[t]))
        BY <3>3 DEF Sent
      <4> QED BY <4>1, <4>2, SendOnType
    <3> QED BY <1>9, <3>1, <3>2, <3>3 DEF Locked
  <2>3. LinkType' /\ SlotType'
    BY <1>2, <1>3, <2>1
  <2>4. clients' \in [Client -> ClientRecord] /\ TriesLeft'
    BY <1>1, <2>1 DEF TriesLeft
  <2> QED BY <2>2, <2>3, <2>4
<1>10. CASE TimeOut
  <2>1. SlotType'
    BY <1>3, <1>10 DEF TimeOut
  <2>2. LinkType' /\ LockType'
    BY <1>2, <1>4, <1>10 DEF TimeOut
  <2>3. clients' \in [Client -> ClientRecord] /\ TriesLeft'
    BY <1>1, <1>10 DEF TimeOut, TriesLeft
  <2> QED BY <2>1, <2>2, <2>3
<1>11. CASE UNCHANGED vars
  BY <1>1, <1>2, <1>3, <1>4, <1>11 DEF vars, TriesLeft
<1> HIDE DEF LinkType, SlotType, LockType
<1> QED BY <1>6, <1>7, <1>8, <1>9, <1>10, <1>11 DEF Next

\* The values of the variables stay in their types.
THEOREM TypeTheorem == Spec => []TypeOK
<1>1. TypeInv => TypeOK
  BY DEF TypeInv
<1> QED BY <1>1, TypeInit, TypeStep, PTL DEF Spec

-----------------------------------------------------------------------------
(* The table holds open sockets.                                           *)

\* The client being created is not in the table: its callbacks are not set.
NewIsNotInTable == udp.new # None => SlotsOf(udp.new) = {}

Safe == SlotIsLive /\ SendOnOpenSocket /\ NewIsNotInTable
IInv == TypeInv /\ Safe

\* A client that is not connected has no entry.
LEMMA NotLiveNoEntry ==
  ASSUME SlotIsLive, NEW c \in Client, c \notin Live
  PROVE  SlotsOf(c) = {}
<1>1. c # None
  BY C2LinkAssumption
<1> QED BY <1>1 DEF SlotIsLive, SlotsOf

\* A step that leaves the table and the senders alone and ends no connection.
LEMMA LiveKept ==
  ASSUME Safe, UNCHANGED <<slots, mtx, senders>>, Live \subseteq Live'
  PROVE  SlotIsLive' /\ SendOnOpenSocket'
<1>1. SlotIsLive /\ SendOnOpenSocket
  BY DEF Safe
<1>2. SlotIsLive'
  <2> SUFFICES ASSUME NEW i \in Slot, slots'[i].sock # None
               PROVE  slots'[i].sock \in Live' /\ SlotsOf(slots[i].sock)' = {i}
    BY DEF SlotIsLive
  <2>1. slots[i].sock \in Live /\ SlotsOf(slots[i].sock) = {i}
    BY <1>1 DEF SlotIsLive
  <2> QED BY <2>1 DEF SlotsOf
<1>3. SendOnOpenSocket'
  <2> SUFFICES ASSUME NEW t \in Thread, senders'[t].pc = "send"
               PROVE  mtx' = t /\ senders'[t].i \in Slot /\ slots'[senders'[t].i].sock \in Live'
    BY DEF SendOnOpenSocket
  <2> QED BY <1>1 DEF SendOnOpenSocket
<1> QED BY <1>2, <1>3

\* Where nobody holds the lock nobody is sending.
LEMMA LockFree ==
  ASSUME Safe, mtx = None
  PROVE  \A t \in Thread : senders[t].pc # "send"
BY C2LinkAssumption DEF Safe, SendOnOpenSocket

\* Which clients are connected after a step of one of them.
LEMMA LiveAfter ==
  ASSUME TypeInv, NEW c \in Client, NEW r \in ClientRecord,
         clients' = [clients EXCEPT ![c] = r]
  PROVE  Live' = IF r.pc \in {"loop", "down"} THEN Live \cup {c} ELSE Live \ {c}
<1>1. clients \in [Client -> ClientRecord]
  BY DEF TypeInv, TypeOK
<1>2. clients'[c] = r /\ \A d \in Client \ {c} : clients'[d] = clients[d]
  BY <1>1
<1> QED BY <1>2 DEF Live

\* The steps of a client that leave the table alone.
LEMMA QuietStep ==
  ASSUME IInv, NEW c \in Client,
         \/ Connect(c) \/ ConnectFails(c) \/ PeerGone(c) \/ TurnedOff(c)
         \/ Closed(c) \/ Delete(c) \/ Stall(c) \/ Resume(c) \/ Break(c)
  PROVE  Safe'
<1>1. clients \in [Client -> ClientRecord] /\ Safe
  BY DEF IInv, TypeInv, TypeOK
<1>2. UNCHANGED <<slots, mtx, senders, udp>>
  BY DEF Connect, ConnectFails, PeerGone, TurnedOff, Closed, Delete, Stall, Resume, Break, Network
<1>3. \A d \in Client \ {c} : clients'[d] = clients[d]
  BY <1>1 DEF Connect, ConnectFails, PeerGone, TurnedOff, Closed, Delete, Stall, Resume, Break, Network
<1>4. c \in Live => clients'[c].pc \in {"loop", "down"}
  <2>1. CASE PeerGone(c) \/ TurnedOff(c)
    BY <1>1, <2>1 DEF PeerGone, TurnedOff, ClientRecord
  <2>2. CASE Stall(c) \/ Resume(c) \/ Break(c)
    BY <1>1, <2>2 DEF Stall, Resume, Break, Network, Live, ClientRecord
  <2>3. CASE Connect(c) \/ ConnectFails(c) \/ Closed(c) \/ Delete(c)
    BY <2>3 DEF Connect, ConnectFails, Closed, Delete, At, Live
  <2> QED BY <2>1, <2>2, <2>3
<1>5. Live \subseteq Live'
  BY <1>3, <1>4 DEF Live
<1>6. NewIsNotInTable'
  BY <1>1, <1>2 DEF Safe, NewIsNotInTable, SlotsOf
<1> QED BY <1>1, <1>2, <1>5, <1>6, LiveKept DEF Safe

\* A new client, and its entry on the list.
LEMMA CreationStep ==
  ASSUME IInv, (\E h \in Host : Announce(h)) \/ Link
  PROVE  Safe'
<1>1. clients \in [Client -> ClientRecord] /\ Safe /\ TypeInv
  BY DEF IInv, TypeInv, TypeOK
<1>2. ASSUME NEW h \in Host, Announce(h) PROVE Safe'
  <2> DEFINE c == Min(Free)
  <2>1. Free \in SUBSET Client /\ Free # {} /\ Client \subseteq Nat
    BY <1>2, C2LinkAssumption DEF Announce, Free
  <2>2. c \in Free /\ c \in Client
    BY <2>1, MinIn
  <2>3. UNCHANGED <<slots, mtx, senders>> /\ udp'.new = c
    BY <1>2 DEF Announce
  <2>4. \A d \in Client \ {c} : clients'[d] = clients[d]
    BY <1>1, <1>2 DEF Announce
  <2>5. c \notin Live
    BY <2>2 DEF Free, Live
  <2> HIDE DEF c
  <2>6. Live \subseteq Live'
    BY <2>4, <2>5 DEF Live
  <2>7. SlotsOf(c) = {}
    BY <1>1, <2>2, <2>5, NotLiveNoEntry DEF Safe
  <2>8. NewIsNotInTable'
    BY <2>3, <2>7 DEF NewIsNotInTable, SlotsOf
  <2> QED BY <1>1, <2>3, <2>6, <2>8, LiveKept DEF Safe
<1>3. CASE Link
  <2>1. UNCHANGED <<clients, slots, mtx, senders>> /\ udp'.new = None
    BY <1>3 DEF Link
  <2>2. Live \subseteq Live'
    BY <2>1 DEF Live
  <2>3. NewIsNotInTable'
    BY <2>1 DEF NewIsNotInTable
  <2> QED BY <1>1, <2>1, <2>2, <2>3, LiveKept DEF Safe
<1> QED BY <1>2, <1>3

\* A connection enters its socket into the table.
LEMMA RegisterStep ==
  ASSUME IInv, NEW c \in Client, Register(c)
  PROVE  Safe'
<1>1. clients \in [Client -> ClientRecord] /\ Safe /\ TypeInv
  BY DEF IInv, TypeInv, TypeOK
<1>2. clients'[c].pc = "loop" /\ \A d \in Client \ {c} : clients'[d] = clients[d]
  BY <1>1 DEF Register, ClientRecord
<1>3. c \notin Live /\ Live' = Live \cup {c}
  BY <1>2 DEF Register, At, Live
<1>4. UNCHANGED <<mtx, senders, udp>>
  BY DEF Register
<1>5. CASE slots' = slots
  <2>1. NewIsNotInTable'
    BY <1>1, <1>4, <1>5 DEF Safe, NewIsNotInTable, SlotsOf
  <2> QED BY <1>1, <1>3, <1>4, <1>5, <2>1, LiveKept DEF Safe
<1>6. CASE slots' # slots
  <2> DEFINE empty == {i \in Slot : slots[i].sock = None}
             e == Min(empty)
  <2>1. udp.new # c /\ mtx = None /\ TcpConnect(c)
    BY <1>6 DEF Register, HasCallbacks
  <2>2. e \in empty
    BY <1>6, <2>1, MinIn, C2LinkAssumption DEF TcpConnect, Slot
  <2>3. slots' = [slots EXCEPT ![e] = [sock |-> c, on |-> TRUE]]
    BY <2>1, <2>2 DEF TcpConnect
  <2>4. e \in Slot /\ slots[e].sock = None
    BY <2>2
  <2> HIDE DEF e, empty
  <2>5. slots \in [Slot -> [sock : Client \cup {None}, on : BOOLEAN]]
    BY <1>1 DEF TypeInv, TypeOK
  <2>6. slots'[e].sock = c /\ \A i \in Slot \ {e} : slots'[i] = slots[i]
    BY <2>3, <2>4, <2>5
  <2>7. SlotsOf(c) = {} /\ c # None
    BY <1>1, <1>3, NotLiveNoEntry, C2LinkAssumption DEF Safe
  <2>8. SlotIsLive'
    <3> SUFFICES ASSUME NEW i \in Slot, slots'[i].sock # None
                 PROVE  slots'[i].sock \in Live' /\ {j \in Slot : slots'[j].sock = slots'[i].sock} = {i}
      BY DEF SlotIsLive, SlotsOf
    <3>1. CASE i = e
      BY <1>3, <2>4, <2>6, <2>7, <3>1 DEF SlotsOf
    <3>2. CASE i # e
      <4>1. slots'[i] = slots[i] /\ slots[i].sock # None
        BY <2>6, <3>2
      <4>2. slots[i].sock \in Live /\ {j \in Slot : slots[j].sock = slots[i].sock} = {i}
        BY <1>1, <4>1 DEF Safe, SlotIsLive, SlotsOf
      <4>3. slots[i].sock # c
        BY <2>7 DEF SlotsOf
      <4> QED BY <1>3, <2>4, <2>6, <4>1, <4>2, <4>3
    <3> QED BY <3>1, <3>2
  <2>9. SendOnOpenSocket'
    BY <1>1, <1>4, <2>1, LockFree DEF SendOnOpenSocket
  <2>10. NewIsNotInTable'
    <3>1. udp'.new # None => \A i \in Slot : slots'[i].sock # udp'.new
      BY <1>1, <1>4, <2>1, <2>6 DEF Safe, NewIsNotInTable, SlotsOf
    <3> QED BY <3>1 DEF NewIsNotInTable, SlotsOf
  <2> QED BY <2>8, <2>9, <2>10 DEF Safe
<1> QED BY <1>5, <1>6

\* A connection that ends takes its socket out of the table first.
LEMMA DisconnectStep ==
  ASSUME IInv, NEW c \in Client, Disconnect(c)
  PROVE  Safe'
<1>1. clients \in [Client -> ClientRecord] /\ Safe /\ TypeInv
  BY DEF IInv, TypeInv, TypeOK
<1>2. \A d \in Client \ {c} : clients'[d] = clients[d]
  BY <1>1 DEF Disconnect
<1>3. Live \ {c} \subseteq Live'
  BY <1>2 DEF Live
<1>4. UNCHANGED <<mtx, senders, udp>>
  BY DEF Disconnect
<1>5. slots \in [Slot -> [sock : Client \cup {None}, on : BOOLEAN]]
  BY <1>1 DEF TypeInv, TypeOK
<1>6. c # None
  BY C2LinkAssumption
<1>7. CASE HasCallbacks(c)
  <2>1. mtx = None /\ slots' = [i \in Slot |-> IF slots[i].sock = c THEN Empty ELSE slots[i]]
    BY <1>7 DEF Disconnect, TcpDisconnect
  <2>2. \A i \in Slot : IF slots[i].sock = c THEN slots'[i].sock = None ELSE slots'[i] = slots[i]
    BY <2>1 DEF Empty
  <2>3. SlotIsLive'
    <3> SUFFICES ASSUME NEW i \in Slot, slots'[i].sock # None
                 PROVE  slots'[i].sock \in Live' /\ {j \in Slot : slots'[j].sock = slots'[i].sock} = {i}
      BY DEF SlotIsLive, SlotsOf
    <3>1. slots'[i] = slots[i] /\ slots[i].sock # c /\ slots[i].sock # None
      BY <2>2
    <3>2. slots[i].sock \in Live /\ {j \in Slot : slots[j].sock = slots[i].sock} = {i}
      BY <1>1, <3>1 DEF Safe, SlotIsLive, SlotsOf
    <3> QED BY <1>3, <2>2, <3>1, <3>2
  <2>4. SendOnOpenSocket'
    BY <1>1, <1>4, <2>1, LockFree DEF SendOnOpenSocket
  <2>5. NewIsNotInTable'
    <3>1. udp'.new # None => \A i \in Slot : slots'[i].sock # udp'.new
      BY <1>1, <1>4, <2>2 DEF Safe, NewIsNotInTable, SlotsOf
    <3> QED BY <3>1 DEF NewIsNotInTable, SlotsOf
  <2> QED BY <2>3, <2>4, <2>5 DEF Safe
<1>8. CASE ~HasCallbacks(c)
  <2>1. slots' = slots /\ udp.new = c
    BY <1>8 DEF Disconnect, HasCallbacks
  <2>2. \A i \in Slot : slots[i].sock # c
    BY <1>1, <1>6, <2>1 DEF Safe, NewIsNotInTable, SlotsOf
  <2>3. SlotIsLive'
    <3> SUFFICES ASSUME NEW i \in Slot, slots[i].sock # None
                 PROVE  slots[i].sock \in Live' /\ SlotsOf(slots[i].sock) = {i}
      BY <2>1 DEF SlotIsLive, SlotsOf
    <3> QED BY <1>1, <1>3, <2>2 DEF Safe, SlotIsLive
  <2>4. SendOnOpenSocket'
    <3> SUFFICES ASSUME NEW t \in Thread, senders[t].pc = "send"
                 PROVE  mtx = t /\ senders[t].i \in Slot /\ slots[senders[t].i].sock \in Live'
      BY <1>4, <2>1 DEF SendOnOpenSocket
    <3>1. mtx = t /\ senders[t].i \in Slot /\ slots[senders[t].i].sock \in Live
      BY <1>1 DEF Safe, SendOnOpenSocket
    <3>2. slots[senders[t].i].sock # c
      BY <2>2, <3>1
    <3> QED BY <1>3, <3>1, <3>2
  <2>5. NewIsNotInTable'
    BY <1>1, <1>4, <2>1 DEF Safe, NewIsNotInTable, SlotsOf
  <2> QED BY <2>3, <2>4, <2>5 DEF Safe
<1> QED BY <1>7, <1>8

\* A sender goes to its next link, or lets go of the lock.
LEMMA SendOnStep ==
  ASSUME IInv, NEW t \in Thread, NEW channel, NEW from \in Nat,
         NEW next \in SUBSET Addressed(channel, from), SendOn(t, channel, next),
         mtx \in {None, t}
  PROVE  Safe'
<1>1. Safe /\ senders \in [Thread -> [pc : {"idle", "wait", "send"}, to : Client \cup {All, None}, i : 0 .. MaxConnect]]
  BY DEF IInv, TypeInv, TypeOK
<1>2. UNCHANGED <<clients, list, udp, slots>>
  BY DEF SendOn
<1>3. Live' = Live /\ SlotIsLive' /\ NewIsNotInTable'
  BY <1>1, <1>2 DEF Safe, SlotIsLive, NewIsNotInTable, SlotsOf, Live
<1>4. \A u \in Thread \ {t} : senders'[u] = senders[u] /\ senders[u].pc # "send"
  <2>1. \A u \in Thread \ {t} : senders[u].pc # "send"
    BY <1>1, C2LinkAssumption DEF Safe, SendOnOpenSocket
  <2>2. \A u \in Thread \ {t} : senders'[u] = senders[u]
    BY <1>1 DEF SendOn
  <2> QED BY <2>1, <2>2
<1>5. senders'[t].pc = "send" =>
        mtx' = t /\ senders'[t].i \in Slot /\ slots'[senders'[t].i].sock \in Live'
  <2>1. CASE next = {}
    <3>1. senders'[t] = Idle
      BY <1>1, <2>1 DEF SendOn
    <3> QED BY <3>1 DEF Idle
  <2>2. CASE next # {}
    <3>1. next \in SUBSET Nat
      BY C2LinkAssumption DEF Addressed, Slot
    <3>2. Min(next) \in next
      BY <2>2, <3>1, MinIn
    <3>3. Min(next) \in Slot /\ slots[Min(next)].sock # None
      BY <3>2 DEF Addressed
    <3>4. slots[Min(next)].sock \in Live
      BY <1>1, <3>3 DEF Safe, SlotIsLive
    <3>5. mtx' = t /\ senders'[t] = [pc |-> "send", to |-> channel, i |-> Min(next)]
      BY <1>1, <2>2 DEF SendOn
    <3>6. senders'[t].i = Min(next)
      BY <3>5
    <3> QED BY <1>2, <1>3, <3>3, <3>4, <3>5, <3>6
  <2> QED BY <2>1, <2>2
<1>6. SendOnOpenSocket'
  <2> SUFFICES ASSUME NEW u \in Thread, senders'[u].pc = "send"
               PROVE  mtx' = u /\ senders'[u].i \in Slot /\ slots'[senders'[u].i].sock \in Live'
    BY DEF SendOnOpenSocket
  <2> QED BY <1>4, <1>5
<1> QED BY <1>3, <1>6 DEF Safe

\* The steps of a sender, and the time-out of the links.
LEMMA SenderStep ==
  ASSUME IInv, NEW t \in Thread, Send(t) \/ Locked(t)
  PROVE  Safe'
<1>1. Safe /\ senders \in [Thread -> [pc : {"idle", "wait", "send"}, to : Client \cup {All, None}, i : 0 .. MaxConnect]]
  BY DEF IInv, TypeInv, TypeOK
<1>2. CASE Send(t)
  <2>1. UNCHANGED <<clients, udp, slots, mtx>>
    BY <1>2 DEF Send
  <2>2. \A u \in Thread : senders'[u].pc = "send" => senders'[u] = senders[u]
    BY <1>1, <1>2 DEF Send
  <2>3. Live' = Live /\ SlotIsLive' /\ NewIsNotInTable'
    BY <1>1, <2>1 DEF Safe, SlotIsLive, NewIsNotInTable, SlotsOf, Live
  <2>4. SendOnOpenSocket'
    BY <1>1, <2>1, <2>2, <2>3 DEF Safe, SendOnOpenSocket
  <2> QED BY <2>3, <2>4 DEF Safe
<1>3. ASSUME NEW channel \in {All} \cup Client, Enter(t, channel) PROVE Safe'
  <2>1. mtx = None /\ SendOn(t, channel, Addressed(channel, 0))
    BY <1>3 DEF Enter
  <2> QED BY <2>1, SendOnStep
<1>4. CASE Sent(t)
  <2>1. mtx = t
    BY <1>1, <1>4 DEF Safe, SendOnOpenSocket, Sent
  <2>2. SendOn(t, senders[t].to, After(senders[t]))
    BY <1>4 DEF Sent
  <2>3. senders[t].i \in Nat
    BY <1>1
  <2>4. After(senders[t]) \in SUBSET Addressed(senders[t].to, senders[t].i)
    BY DEF After
  <2> QED BY <2>1, <2>2, <2>3, <2>4, SendOnStep
<1> QED BY <1>2, <1>3, <1>4 DEF Locked

LEMMA TimeOutStep ==
  ASSUME IInv, TimeOut
  PROVE  Safe'
<1>1. Safe
  BY DEF IInv
<1>2. UNCHANGED <<clients, list, udp, mtx, senders>> /\ Live' = Live
  BY DEF TimeOut, Live
<1>3. \A i \in Slot : slots'[i].sock = slots[i].sock
  <2>1. slots \in [Slot -> [sock : Client \cup {None}, on : BOOLEAN]]
    BY DEF IInv, TypeInv, TypeOK
  <2> QED BY <2>1 DEF TimeOut
<1>4. SlotIsLive'
  BY <1>1, <1>2, <1>3 DEF Safe, SlotIsLive, SlotsOf
<1>5. SendOnOpenSocket'
  BY <1>1, <1>2, <1>3 DEF Safe, SendOnOpenSocket
<1>6. NewIsNotInTable'
  BY <1>1, <1>2, <1>3 DEF Safe, NewIsNotInTable, SlotsOf
<1> QED BY <1>4, <1>5, <1>6 DEF Safe

-----------------------------------------------------------------------------
LEMMA SafeInit == Init => IInv
<1> SUFFICES ASSUME Init PROVE Safe
  BY TypeInit DEF IInv
<1>1. \A i \in Slot : slots[i].sock = None
  BY DEF Init, Empty
<1>2. \A t \in Thread : senders[t].pc = "idle"
  BY DEF Init, Idle
<1>3. udp.new = None
  BY DEF Init
<1> QED BY <1>1, <1>2, <1>3 DEF Safe, SlotIsLive, SendOnOpenSocket, NewIsNotInTable

LEMMA SafeStep == IInv /\ [Next]_vars => IInv'
<1> SUFFICES ASSUME IInv, [Next]_vars PROVE Safe'
  BY TypeStep DEF IInv
<1>1. ASSUME NEW h \in Host, Announce(h) PROVE Safe'
  BY <1>1, CreationStep
<1>2. CASE Link
  BY <1>2, CreationStep
<1>3. ASSUME NEW c \in Client, ClientTask(c) \/ Stall(c) \/ Resume(c) \/ Break(c) PROVE Safe'
  <2>1. CASE Register(c)
    BY <2>1, RegisterStep
  <2>2. CASE Disconnect(c)
    BY <2>2, DisconnectStep
  <2>3. CASE ~Register(c) /\ ~Disconnect(c)
    BY <1>3, <2>3, QuietStep DEF ClientTask
  <2> QED BY <2>1, <2>2, <2>3
<1>4. ASSUME NEW t \in Thread, Send(t) \/ Locked(t) PROVE Safe'
  BY <1>4, SenderStep
<1>5. CASE TimeOut
  BY <1>5, TimeOutStep
<1>6. CASE UNCHANGED vars
  BY <1>6 DEF vars, IInv, Safe, SlotIsLive, SendOnOpenSocket, NewIsNotInTable, SlotsOf, Live
<1> QED BY <1>1, <1>2, <1>3, <1>4, <1>5, <1>6 DEF Next

\* Every socket in the table belongs to a connected client and to one entry.
THEOREM SlotTheorem == Spec => []SlotIsLive
<1>1. IInv => SlotIsLive
  BY DEF IInv, Safe
<1> QED BY <1>1, SafeInit, SafeStep, PTL DEF Spec

\* No socket is closed under a thread of _SendMsgToLinkChannel that sends on it.
THEOREM SendTheorem == Spec => []SendOnOpenSocket
<1>1. IInv => SendOnOpenSocket
  BY DEF IInv, Safe
<1> QED BY <1>1, SafeInit, SafeStep, PTL DEF Spec

-----------------------------------------------------------------------------
(* What waits for what.                                                    *)

\* The lock is with a thread in tcp_client_send, on the socket of a connected
\* client.
LockWithSender ==
    mtx # None => /\ mtx \in Thread /\ senders[mtx].pc = "send"
                  /\ slots[senders[mtx].i].sock \in Live

\* Nobody leaves with the lock.
LockInv == mtx # None => mtx \in Thread /\ senders[mtx].pc = "send"

LEMMA LockStep == TypeOK /\ LockInv /\ [Next]_vars => LockInv'
<1> SUFFICES ASSUME TypeOK, LockInv, [Next]_vars PROVE LockInv'
  OBVIOUS
<1>1. senders \in [Thread -> [pc : {"idle", "wait", "send"}, to : Client \cup {All, None}, i : 0 .. MaxConnect]]
  BY DEF TypeOK
<1>2. ASSUME UNCHANGED <<mtx, senders>> PROVE LockInv'
  BY <1>2 DEF LockInv
<1>3. ASSUME NEW h \in Host, Announce(h) PROVE LockInv'
  BY <1>2, <1>3 DEF Announce
<1>4. CASE Link \/ TimeOut \/ UNCHANGED vars
  BY <1>2, <1>4 DEF Link, TimeOut, vars
<1>5. ASSUME NEW c \in Client, ClientTask(c) \/ Stall(c) \/ Resume(c) \/ Break(c) PROVE LockInv'
  BY <1>2, <1>5 DEF ClientTask, Connect, ConnectFails, Register, PeerGone, TurnedOff, Disconnect,
                    Closed, Delete, Stall, Resume, Break, Network
<1>6. ASSUME NEW t \in Thread, Send(t) PROVE LockInv'
  BY <1>1, <1>6 DEF Send, LockInv
<1>7. ASSUME NEW t \in Thread, NEW channel, NEW next, SendOn(t, channel, next) PROVE LockInv'
  <2>1. CASE next = {}
    BY <1>7, <2>1 DEF SendOn, LockInv
  <2>2. CASE next # {}
    <3>1. mtx' = t /\ senders' = [senders EXCEPT ![t] = [pc |-> "send", to |-> channel, i |-> Min(next)]]
      BY <1>7, <2>2 DEF SendOn
    <3> QED BY <1>1, <3>1 DEF LockInv
  <2> QED BY <2>1, <2>2
<1>8. ASSUME NEW t \in Thread, Locked(t) PROVE LockInv'
  BY <1>7, <1>8 DEF Locked, Enter, Sent
<1> QED BY <1>3, <1>4, <1>5, <1>6, <1>8 DEF Next

(* The lock is never left behind: whoever waits for _tcpMtx waits for a    *)
(* thread that is in tcp_client_send, and that for a client that is        *)
(* connected.  A peer that takes nothing is all that can keep the senders  *)
(* and the threads of the clients from going on (_SendMsgToLinkChannel).   *)
THEOREM LockTheorem == Spec => []LockWithSender
<1>1. Init => LockInv
  BY DEF Init, LockInv
<1>2. TypeInv => TypeOK
  BY DEF TypeInv
<1>3. IInv /\ LockInv => LockWithSender
  BY DEF IInv, Safe, SendOnOpenSocket, LockInv, LockWithSender
<1> QED BY <1>1, <1>2, <1>3, TypeTheorem, LockStep, SafeInit, SafeStep, PTL DEF Spec

\* A connection that is no use for sending stays so until it is taken down.
OffStaysOff ==
    [][\A c \in Client : At(c, "loop") /\ ~Usable(c) => ~Usable(c)' \/ ~At(c, "loop")']_vars

LEMMA OffStep ==
  ASSUME TypeOK, [Next]_vars, NEW c \in Client, At(c, "loop"), Usable(c)'
  PROVE  Usable(c)
<1>1. slots \in [Slot -> [sock : Client \cup {None}, on : BOOLEAN]]
  BY DEF TypeOK
<1>2. PICK i \in Slot : slots'[i].sock = c /\ slots'[i].on
  BY DEF Usable, SlotsOf
<1>3. SUFFICES ASSUME slots'[i] # slots[i] PROVE FALSE
  BY <1>2 DEF Usable, SlotsOf
<1>4. CASE TimeOut
  <2>1. slots'[i].on = FALSE
    BY <1>1, <1>4 DEF TimeOut
  <2> QED BY <1>2, <2>1
<1>5. ASSUME NEW d \in Client, TcpConnect(d), At(d, "callback") PROVE FALSE
  <2>1. slots'[i] = slots[i] \/ slots'[i] = [sock |-> d, on |-> TRUE]
    BY <1>1, <1>5 DEF TcpConnect
  <2>2. c = d
    BY <1>2, <1>3, <2>1
  <2> QED BY <1>5, <2>2 DEF At
<1>6. ASSUME NEW d \in Client, TcpDisconnect(d) PROVE FALSE
  <2>1. slots'[i] = Empty
    BY <1>1, <1>3, <1>6 DEF TcpDisconnect
  <2> QED BY <1>2, <2>1 DEF Empty
<1>7. ASSUME UNCHANGED slots PROVE FALSE
  BY <1>3, <1>7
<1>8. ASSUME NEW d \in Client, ClientTask(d) \/ Stall(d) \/ Resume(d) \/ Break(d) PROVE FALSE
  <2>1. CASE Register(d)
    BY <1>5, <1>7, <2>1 DEF Register
  <2>2. CASE Disconnect(d)
    BY <1>6, <1>7, <2>2 DEF Disconnect
  <2>3. CASE ~Register(d) /\ ~Disconnect(d)
    BY <1>7, <1>8, <2>3 DEF ClientTask, Connect, ConnectFails, PeerGone, TurnedOff, Closed, Delete,
                            Stall, Resume, Break, Network
  <2> QED BY <2>1, <2>2, <2>3
<1>9. ASSUME NEW t \in Thread, Send(t) \/ Locked(t) PROVE FALSE
  BY <1>7, <1>9 DEF Send, Locked, Enter, Sent, SendOn
<1> QED BY <1>4, <1>7, <1>8, <1>9 DEF Next, Announce, Link, vars

(* An entry that HEARTBEAT turned off does not come back on, and a client  *)
(* that got none gets none, as long as its connection lasts: what          *)
(* TurnedOff is waiting for does not go away before the lock is free.      *)
THEOREM OffTheorem == Spec => OffStaysOff
<1>1. TypeOK /\ [Next]_vars =>
        [\A c \in Client : At(c, "loop") /\ ~Usable(c) => ~Usable(c)' \/ ~At(c, "loop")']_vars
  BY OffStep
<1> QED BY <1>1, TypeTheorem, PTL DEF Spec, OffStaysOff
=============================================================================
