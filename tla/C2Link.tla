------------------------------- MODULE C2Link -------------------------------
(***************************************************************************)
(* The TCP links of the radar to the hosts (C2) that watch it.             *)
(*                                                                         *)
(* A host announces itself over UDP (message 0xBC).  The UDP thread puts a *)
(* client on the list of eth_link.c and starts its thread, which connects, *)
(* enters its socket into the table _tcps of TracerCommonHal, and polls    *)
(* until the connection ends or the table says that the link is off.  The  *)
(* threads of eap send reports over every link of the table, or an answer  *)
(* over one, and hold _tcpMtx while they do.  HEARTBEAT turns all links    *)
(* off when the host has not been heard for too long; it takes no lock.    *)
(*                                                                         *)
(* A client stands for its list entry, its thread and its socket; clients  *)
(* are numbered like file descriptors, the lowest free one is used next.   *)
(***************************************************************************)
EXTENDS Naturals, Sequences, FiniteSets, SequencesExt, FiniteSetsExt

CONSTANTS
    Host,          \* the hosts that announce themselves
    Ip, Port,      \* the address and the port of each host
    Client,        \* the socket numbers the process may have open
    MaxConnect,    \* TCP_MAX_CONNECT_NUM, of the list and of the table
    ConnectTime,   \* attempts to connect before a client gives up
    Thread,        \* the threads that send
    HEARTBEAT,     \* the one that also times links out
    All,           \* the channel that stands for every link, UINT16_ALL
    None

ASSUME C2LinkAssumption ==
    /\ Ip \in [Host -> Nat] /\ Port \in [Host -> Nat]
    /\ MaxConnect \in Nat \ {0} /\ ConnectTime \in Nat \ {0}
    /\ Client \subseteq Nat /\ IsFiniteSet(Client)
    /\ HEARTBEAT \in Thread
    /\ None \notin Host \cup Client \cup Thread /\ All \notin Client

VARIABLES
    clients,    \* what each client's thread is doing, and its connection
    list,       \* the clients reachable from psRoot->list
    udp,        \* the client the UDP thread is creating, and the list's end
    slots,      \* _tcps: socket and bFlagConnect
    mtx,        \* the thread that holds _tcpMtx
    senders     \* what each sending thread is doing

vars == <<clients, list, udp, slots, mtx, senders>>

-----------------------------------------------------------------------------
(* The table _tcps.                                                        *)

Slot == 1 .. MaxConnect

Empty == [sock |-> None, on |-> FALSE]
SlotsOf(c) == {i \in Slot : slots[i].sock = c}
Usable(c) == \E i \in SlotsOf(c) : slots[i].on

\* Mutant: an entry counts as in order whatever bFlagConnect says.
TcpOkPresent(c) == SlotsOf(c) # {}

TcpOk(c) == Usable(c)

\* TcpConnect: the first empty entry; a full table leaves the client out.
TcpConnect(c) ==
    LET empty == {i \in Slot : slots[i].sock = None}
    IN  slots' = IF empty = {} THEN slots
                 ELSE [slots EXCEPT ![Min(empty)] = [sock |-> c, on |-> TRUE]]

\* Mutant: only an entry that is on is cleared.
TcpDisconnectOn(c) ==
    slots' = [i \in Slot |-> IF slots[i] = [sock |-> c, on |-> TRUE] THEN Empty ELSE slots[i]]

TcpDisconnect(c) ==
    slots' = [i \in Slot |-> IF slots[i].sock = c THEN Empty ELSE slots[i]]

-----------------------------------------------------------------------------
(* The list of clients.                                                    *)

Gone == [pc |-> "free", host |-> None, conn |-> "none", tries |-> 0, close |-> FALSE]

Free == {c \in Client : clients[c].pc = "free"}
HostOf(k) == clients[list[k]].host

\* The end of the list is compared in another way than the rest: a host that
\* shares the address or the port of the last client is refused.
Differs(k, h) == Ip[HostOf(k)] # Ip[h] \/ Port[HostOf(k)] # Port[h]
Accepts(h) ==
    IF list = << >> THEN TRUE
    ELSE /\ \A k \in 1 .. Len(list) - 1 : Differs(k, h)
         /\ Ip[HostOf(Len(list))] # Ip[h] /\ Port[HostOf(Len(list))] # Port[h]
         /\ Len(list) < MaxConnect

\* eth_link_del_tcp_client_list: psLast stays on the first entry, so taking
\* out any later entry also loses the ones between.
Unlink(c) ==
    IF c \notin Range(list) THEN list
    ELSE LET k    == CHOOSE j \in 1 .. Len(list) : list[j] = c
             rest == SubSeq(list, k + 1, Len(list))
         IN  IF k = 1 THEN rest ELSE <<list[1]>> \o rest

-----------------------------------------------------------------------------
(* The UDP thread.                                                         *)

\* 0xBC from host h.  The thread of the new client runs from here on, while
\* the entry is neither on the list nor has its callbacks.
Announce(h) ==
    /\ udp.new = None /\ Accepts(h) /\ Free # {}
    /\ LET c == Min(Free)
       IN  /\ clients' = [clients EXCEPT ![c] = [Gone EXCEPT !.pc = "top", !.host = h]]
           /\ udp' = [new |-> c, last |-> IF list = << >> THEN None ELSE Last(list)]
    /\ UNCHANGED <<list, slots, mtx, senders>>

\* The callbacks are set and the entry is chained to the one that was last.
\* If that one has been freed meanwhile the new client is on no list.
Link ==
    /\ udp.new # None
    /\ list' = IF udp.last = None \/ udp.last \in Range(list)
               THEN Append(list, udp.new) ELSE list
    /\ udp' = [new |-> None, last |-> None]
    /\ UNCHANGED <<clients, slots, mtx, senders>>

-----------------------------------------------------------------------------
(* The thread of client c, tcp_client_task.                                *)

At(c, pc) == clients[c].pc = pc
HasCallbacks(c) == udp.new # c

Connect(c) ==
    /\ At(c, "top") /\ ~clients[c].close
    /\ clients' = [clients EXCEPT ![c].pc = "callback", ![c].conn = "up", ![c].tries = 0]
    /\ UNCHANGED <<list, udp, slots, mtx, senders>>

\* Mutant: the attempts are not limited.
ConnectFailsForever(c) ==
    /\ At(c, "top") /\ ~clients[c].close
    /\ clients' = [clients EXCEPT ![c].tries = @ + 1]
    /\ UNCHANGED <<list, udp, slots, mtx, senders>>

ConnectFails(c) ==
    /\ At(c, "top") /\ ~clients[c].close
    /\ LET n == clients[c].tries + 1
       IN  clients' = [clients EXCEPT ![c].tries = n,
                                      ![c].pc = IF ConnectTime <= n THEN "end" ELSE "top"]
    /\ UNCHANGED <<list, udp, slots, mtx, senders>>

\* cbk_connect, which does nothing while the callbacks are not set.
Register(c) ==
    /\ At(c, "callback")
    /\ clients' = [clients EXCEPT ![c].pc = "loop"]
    /\ IF HasCallbacks(c) THEN mtx = None /\ TcpConnect(c) ELSE slots' = slots
    /\ UNCHANGED <<list, udp, mtx, senders>>

\* recv returns 0: the inner loop ends without a look at the table.
PeerGone(c) ==
    /\ At(c, "loop") /\ clients[c].conn = "broken"
    /\ clients' = [clients EXCEPT ![c].pc = "down"]
    /\ UNCHANGED <<list, udp, slots, mtx, senders>>

\* cbk_tcp_Isok says no: the link was timed out or never got an entry.
TurnedOff(c) ==
    /\ At(c, "loop") /\ clients[c].conn # "broken"
    /\ HasCallbacks(c) => mtx = None /\ ~TcpOk(c)
    /\ clients' = [clients EXCEPT ![c].pc = "down", ![c].close = TRUE]
    /\ UNCHANGED <<list, udp, slots, mtx, senders>>

\* Mutant: the lock is not taken.
DisconnectUnlocked(c) ==
    /\ At(c, "down")
    /\ IF HasCallbacks(c) THEN TcpDisconnect(c) ELSE slots' = slots
    /\ clients' = [clients EXCEPT ![c].pc = "top", ![c].conn = "none"]
    /\ UNCHANGED <<list, udp, mtx, senders>>

\* cbk_disconnect; the thread goes on to connect again.
Disconnect(c) ==
    /\ At(c, "down")
    /\ IF HasCallbacks(c) THEN mtx = None /\ TcpDisconnect(c) ELSE slots' = slots
    /\ clients' = [clients EXCEPT ![c].pc = "top", ![c].conn = "none"]
    /\ UNCHANGED <<list, udp, mtx, senders>>

Closed(c) ==
    /\ At(c, "top") /\ clients[c].close
    /\ clients' = [clients EXCEPT ![c].pc = "end"]
    /\ UNCHANGED <<list, udp, slots, mtx, senders>>

\* The socket is closed, cbk_delete takes the entry off the list and frees it.
\* Assumption: the UDP thread has returned from creating it.
Delete(c) ==
    /\ At(c, "end") /\ HasCallbacks(c)
    /\ clients' = [clients EXCEPT ![c] = Gone]
    /\ list' = Unlink(c)
    /\ UNCHANGED <<udp, slots, mtx, senders>>

-----------------------------------------------------------------------------
(* A thread t that sends, _SendMsgToLinkChannel and tcp_client_send.       *)

Idle == [pc |-> "idle", to |-> None, i |-> 0]

Send(t) ==
    /\ senders[t].pc = "idle"
    /\ senders' = [senders EXCEPT ![t].pc = "wait"]
    /\ UNCHANGED <<clients, list, udp, slots, mtx>>

\* The entries after i that a message to the given channel goes to.
Addressed(channel, i) ==
    {j \in Slot : /\ j > i /\ slots[j].sock # None /\ slots[j].on
                  /\ channel \in {All, slots[j].sock}}

\* The next tcp_client_send of the loop, or the end of it and the unlock.
SendOn(t, channel, next) ==
    /\ mtx' = IF next = {} THEN None ELSE t
    /\ senders' = [senders EXCEPT ![t] =
                     IF next = {} THEN Idle
                     ELSE [pc |-> "send", to |-> channel, i |-> Min(next)]]
    /\ UNCHANGED <<clients, list, udp, slots>>

\* Until here nothing depends on the channel, so it is chosen here.
\* HEARTBEAT only reports, the other threads also answer.
Enter(t, channel) ==
    /\ senders[t].pc = "wait" /\ mtx = None
    /\ t = HEARTBEAT => channel = All
    /\ SendOn(t, channel, Addressed(channel, 0))

After(s) == IF s.to = All THEN Addressed(All, s.i) ELSE {}

\* Mutant: a socket that failed is tried again as well.
SentOnlyUp(t) ==
    /\ senders[t].pc = "send"
    /\ clients[slots[senders[t].i].sock].conn = "up"
    /\ SendOn(t, senders[t].to, After(senders[t]))

\* send() took the message or failed; while the peer takes nothing the code
\* goes to tryagain without an end.  An answer stops at its one link.
Sent(t) ==
    /\ senders[t].pc = "send"
    /\ clients[slots[senders[t].i].sock].conn # "stalled"
    /\ SendOn(t, senders[t].to, After(senders[t]))

\* _SetTcpState(TCP_LINK_C2, false), without _tcpMtx.  Any check of HEARTBEAT
\* may find the host overdue.
TimeOut ==
    /\ senders[HEARTBEAT].pc = "idle"
    /\ slots' = [i \in Slot |-> [slots[i] EXCEPT !.on = FALSE]]
    /\ UNCHANGED <<clients, list, udp, mtx, senders>>

-----------------------------------------------------------------------------
(* The peers and the network.                                              *)

Connected(c) == clients[c].pc \in {"callback", "loop", "down"} /\ clients[c].conn # "broken"

Network(c, conn) ==
    /\ Connected(c) /\ clients[c].conn # conn
    /\ clients' = [clients EXCEPT ![c].conn = conn]
    /\ UNCHANGED <<list, udp, slots, mtx, senders>>

Stall(c)  == Network(c, "stalled")
Resume(c) == Network(c, "up")
Break(c)  == Network(c, "broken")

-----------------------------------------------------------------------------
Init ==
    /\ clients = [c \in Client |-> Gone]
    /\ list = << >>
    /\ udp = [new |-> None, last |-> None]
    /\ slots = [i \in Slot |-> Empty]
    /\ mtx = None
    /\ senders = [t \in Thread |-> Idle]

ClientTask(c) ==
    \/ Connect(c) \/ ConnectFails(c) \/ Register(c) \/ PeerGone(c)
    \/ TurnedOff(c) \/ Disconnect(c) \/ Closed(c) \/ Delete(c)

\* What thread t does with the lock, or to get it.
Locked(t) == (\E channel \in {All} \cup Client : Enter(t, channel)) \/ Sent(t)

Next ==
    \/ \E h \in Host : Announce(h)
    \/ Link
    \/ \E c \in Client : ClientTask(c) \/ Stall(c) \/ Resume(c) \/ Break(c)
    \/ \E t \in Thread : Send(t) \/ Locked(t)
    \/ TimeOut

Spec == Init /\ [][Next]_vars

-----------------------------------------------------------------------------
(* Fairness.  Every thread is scheduled.  Where a thread waits for _tcpMtx *)
(* or for room in its socket that comes and goes, it is strong: the holder *)
(* of the lock wakes a waiter, and a socket with room wakes its sender.    *)

WithLock(c) == Register(c) \/ TurnedOff(c) \/ Disconnect(c)

Scheduled ==
    /\ WF_vars(Link)
    /\ \A c \in Client :
        /\ WF_vars(Connect(c) \/ ConnectFails(c) \/ PeerGone(c) \/ Closed(c) \/ Delete(c))
        /\ SF_vars(WithLock(c))
    /\ \A t \in Thread : SF_vars(Locked(t))

\* A peer that takes nothing takes something again one day, or goes away.
PeersRecover == \A c \in Client : WF_vars(clients[c].conn = "stalled" /\ (Resume(c) \/ Break(c)))

FairSpec == Spec /\ Scheduled /\ PeersRecover
StallSpec == Spec /\ Scheduled

-----------------------------------------------------------------------------
Conn == {"none", "up", "stalled", "broken"}

ClientRecord ==
    [pc : {"free", "top", "callback", "loop", "down", "end"},
     host : Host \cup {None}, conn : Conn, tries : 0 .. ConnectTime, close : BOOLEAN]

\* The values of the variables stay in their types.
TypeOK ==
    /\ clients \in [Client -> ClientRecord]
    /\ list \in Seq(Client)
    /\ udp \in [new : Client \cup {None}, last : Client \cup {None}]
    /\ slots \in [Slot -> [sock : Client \cup {None}, on : BOOLEAN]]
    /\ mtx \in Thread \cup {None}
    /\ senders \in [Thread -> [pc : {"idle", "wait", "send"},
                               to : Client \cup {All, None}, i : 0 .. MaxConnect]]

Live == {c \in Client : clients[c].pc \in {"loop", "down"}}

\* Every socket in _tcps belongs to a connected client, and to one entry: a
\* descriptor that is closed, or that another client got after it was, is
\* never left in the table.
SlotIsLive ==
    \A i \in Slot : slots[i].sock # None => /\ slots[i].sock \in Live
                                            /\ SlotsOf(slots[i].sock) = {i}

\* A thread of _SendMsgToLinkChannel in tcp_client_send holds _tcpMtx, and the
\* socket it sends on is not closed under it.  (The senders of the remote
\* controller do not take _tcpMtx; they are not modelled.)
SendOnOpenSocket ==
    \A t \in Thread : senders[t].pc = "send" =>
        mtx = t /\ senders[t].i \in Slot /\ slots[senders[t].i].sock \in Live

\* A connection that is no use for sending, because HEARTBEAT turned it off
\* or because it got no entry in the table, is taken down.
UnusableIsDropped ==
    \A c \in Client : (At(c, "loop") /\ ~Usable(c)) ~> ~At(c, "loop")

\* Sending a message ends, whatever becomes of the hosts it goes to: it does
\* not stay with _tcpMtx, on which every other sender and client waits.
SendReturns == \A t \in Thread : (senders[t].pc # "idle") ~> (senders[t].pc = "idle")

=============================================================================
