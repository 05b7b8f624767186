----------------------------- MODULE Whitelist -----------------------------
(***************************************************************************)
(* The whitelist of friendly drones: the list in memory and its table in   *)
(* SQLite (eap/base/sys/WhitelistManager.cpp), which the host replaces and *)
(* the start of the system reads, and the detectors that raise an alarm    *)
(* for a drone that is not on it (eap/droneid/DroneIdModule.cpp,           *)
(* eap/remoteid/RemoteIdModule.cpp).                                       *)
(*                                                                         *)
(* Init runs after the threads were created: the thread that takes the     *)
(* requests of the host and the detectors run at the same time, and both   *)
(* callers of SetWhitelist use the one handle _sqlite3DB.  The power may   *)
(* fail at any moment: SQLite keeps what was committed.                    *)
(*                                                                         *)
(* A list is a set of serial numbers.  Bounds: MaxSet, MaxPower, MaxFault, *)
(* MaxQueue.                                                               *)
(***************************************************************************)
EXTENDS Naturals, Sequences, FiniteSets

CONSTANTS Drone,          \* serial numbers the detectors may see
          Lists,          \* the lists the host may send
          TestWhitelist,
          Detector,       \* EAP_TARGET_SCENE_DRONEID, EAP_TARGET_SCENE_REMOTEID
          MaxSet,         \* bound on the requests of the host
          MaxPower,       \* bound on the losses of power
          MaxFault,       \* bound on the statements that fail for no other reason
          MaxQueue        \* bound on the warnings of one detector that wait for HEARTBEAT

ASSUME WhitelistAssumption ==
    /\ TestWhitelist # {}
    /\ {MaxSet, MaxPower, MaxFault, MaxQueue} \subseteq Nat

Caller == {"boot", "host"}      \* SysBase::Init, the thread of the ALINK requests
Name == Drone \cup TestWhitelist \cup UNION Lists

VARIABLES
    stored,     \* the table WarningWhitelist, as it was committed
    whiteList,  \* _whiteList
    db,         \* the connection _sqlite3DB points to: its state, its uncommitted rows
    stuck,      \* a connection nobody points to any more holds the write lock
    pc,         \* where a caller is in Init or SetWhitelist
    want,       \* the list a caller writes
    todo,       \* the rows a caller has still to insert or to read
    seen,       \* the drones in the table of a detector
    enemy,      \* whether _enemyDroneIdNum or _enemyTargetNum is above 0
    hbQ,        \* the TARGET_WARNING messages that wait for HEARTBEAT
    targets,    \* HeartBeatModule::_targets
    alarm,      \* the target state the warnings were set for
    counts,     \* requests, losses of power, faults so far
    ack,        \* history: the list that was last written and confirmed, if any, as a set
    early,      \* history: the request at hand came before Init was over
    raced,      \* history: some request came before Init was over
    unread      \* history: some Init could not read the table

store == <<stored, db, stuck>>
setting == <<pc, want, todo>>
warning == <<seen, enemy, hbQ, targets, alarm>>
history == <<ack, early, raced, unread>>
vars == <<store, whiteList, setting, warning, counts, history>>

Closed == [state |-> "closed", rows |-> {}]
Open   == [state |-> "open", rows |-> {}]
Begun  == [state |-> "begun", rows |-> {}]
Written(rows) == [state |-> "written", rows |-> rows]

InTransaction == db.state \in {"begun", "written"}

\* The table as _sqlite3DB sees it.
View == IF db.state = "written" THEN db.rows ELSE stored

Goto(p, l) == pc' = [pc EXCEPT ![p] = l]

\* The state after power-on, with the table that was left.
PowerOn ==
    /\ whiteList' = {}
    /\ db' = Closed /\ stuck' = FALSE
    /\ pc' = [p \in Caller |-> IF p = "boot" THEN "start" ELSE "idle"]
    /\ want' = [p \in Caller |-> {}] /\ todo' = [p \in Caller |-> {}]
    /\ seen' = [d \in Detector |-> {}] /\ enemy' = [d \in Detector |-> FALSE]
    /\ hbQ' = <<>>
    /\ targets' = [d \in Detector |-> FALSE] /\ alarm' = FALSE
    /\ early' = FALSE

Init ==
    /\ stored = {} /\ whiteList = {}
    /\ db = Closed /\ stuck = FALSE
    /\ pc = [p \in Caller |-> IF p = "boot" THEN "start" ELSE "idle"]
    /\ want = [p \in Caller |-> {}] /\ todo = [p \in Caller |-> {}]
    /\ seen = [d \in Detector |-> {}] /\ enemy = [d \in Detector |-> FALSE]
    /\ hbQ = <<>>
    /\ targets = [d \in Detector |-> FALSE] /\ alarm = FALSE
    /\ counts = [set |-> 0, power |-> 0, fault |-> 0]
    /\ ack = {} /\ early = FALSE /\ raced = FALSE /\ unread = FALSE

---------------------------------------------------------------------------
(* WhitelistManager::Init.                                                 *)

\* sqlite3_open.  The handle of another caller is lost with its lock.
OpenHandle ==
    /\ db' = Open
    /\ stuck' = (stuck \/ db.state = "written")

InitOpen ==
    /\ pc["boot"] = "start"
    /\ OpenHandle
    /\ Goto("boot", "select")
    /\ UNCHANGED <<stored, whiteList, want, todo, warning, counts, history>>

\* SELECT: its rows come one by one; a handle that is gone or a fault ends it.
InitSelect ==
    /\ pc["boot"] = "select"
    /\ \/ db # Closed
          /\ todo' = [todo EXCEPT !["boot"] = View]
          /\ Goto("boot", "read")
          /\ UNCHANGED <<counts, unread>>
       \/ /\ db = Closed \/ counts.fault < MaxFault
          /\ counts' = IF db = Closed THEN counts ELSE [counts EXCEPT !.fault = @ + 1]
          /\ unread' = TRUE
          /\ Goto("boot", "release")
          /\ UNCHANGED todo
    /\ UNCHANGED <<store, whiteList, want, warning, ack, early, raced>>

\* Sqlite3Callback, InsertWhitelist: one row.
InsertWhitelist ==
    /\ pc["boot"] = "read"
    /\ IF todo["boot"] = {} THEN Goto("boot", "release") /\ UNCHANGED <<todo, whiteList>>
       ELSE \E n \in todo["boot"] :
                /\ whiteList' = whiteList \cup {n}
                /\ todo' = [todo EXCEPT !["boot"] = @ \ {n}]
                /\ UNCHANGED pc
    /\ UNCHANGED <<store, want, warning, counts, history>>

\* The handle is closed, whoever opened it.
InitClose ==
    /\ pc["boot"] = "release"
    /\ db' = Closed
    /\ Goto("boot", "empty")
    /\ UNCHANGED <<stored, stuck, whiteList, want, todo, warning, counts, history>>

\* An empty list is replaced by the one for tests.
InitEmpty ==
    /\ pc["boot"] = "empty"
    /\ IF whiteList = {} THEN Goto("boot", "same") /\ want' = [want EXCEPT !["boot"] = TestWhitelist]
                         ELSE Goto("boot", "idle") /\ UNCHANGED want
    /\ UNCHANGED <<store, whiteList, todo, warning, counts, history>>

---------------------------------------------------------------------------
(* WhitelistManager::SetWhitelist.                                         *)

\* Alink_SetWhiteList_Func.
Request(l) ==
    /\ pc["host"] = "idle" /\ counts.set < MaxSet
    /\ counts' = [counts EXCEPT !.set = @ + 1]
    /\ want' = [want EXCEPT !["host"] = l]
    /\ Goto("host", "same")
    /\ early' = (pc["boot"] # "idle")
    /\ raced' = (raced \/ early')
    /\ UNCHANGED <<store, whiteList, todo, warning, ack, unread>>

\* The list of memory is not written again, whatever is in the table.
SetSame(p) ==
    /\ pc[p] = "same"
    /\ IF want[p] = whiteList THEN Goto(p, "close") ELSE Goto(p, "open")
    /\ UNCHANGED <<store, whiteList, want, todo, warning, counts, history>>

SetOpen(p) ==
    /\ pc[p] = "open"
    /\ OpenHandle
    /\ Goto(p, "delete")
    /\ ack' = IF p = "host" THEN {} ELSE ack
    /\ UNCHANGED <<stored, whiteList, want, todo, warning, counts, early, raced, unread>>

\* What makes a statement that writes fail: no connection, the lock of a lost
\* one, or - when it commits - the SELECT of Init.  On the same connection it
\* waits for that SELECT instead; the model allows both.
Reading == pc["boot"] = "read"
WriteFails == db = Closed \/ stuck

\* A statement fails: the handle is closed, what was begun is undone.
SetFails(p) ==
    /\ pc[p] \in {"delete", "begin", "insert", "commit"}
    /\ LET refused ==
            CASE pc[p] = "delete" -> WriteFails \/ (Reading /\ ~InTransaction)
              [] pc[p] = "begin"  -> db = Closed \/ InTransaction
              [] pc[p] = "insert" -> todo[p] # {} /\ (WriteFails \/ (Reading /\ ~InTransaction))
              [] pc[p] = "commit" -> ~InTransaction \/ Reading
       IN  /\ refused \/ counts.fault < MaxFault
           /\ counts' = IF refused THEN counts ELSE [counts EXCEPT !.fault = @ + 1]
    /\ Goto(p, "close")
    /\ UNCHANGED <<store, whiteList, want, todo, warning, history>>

\* DELETE is committed at once, unless the connection is in a transaction.
SetDelete(p) ==
    /\ pc[p] = "delete" /\ ~WriteFails
    /\ IF InTransaction THEN db' = Written({}) /\ UNCHANGED stored
                        ELSE ~Reading /\ stored' = {} /\ UNCHANGED db
    /\ Goto(p, IF want[p] = {} THEN "swap" ELSE "begin")
    /\ UNCHANGED <<stuck, whiteList, want, todo, warning, counts, history>>

\* Mutant: the rows are inserted without a transaction of their own.
SetBeginNothing(p) ==
    /\ pc[p] = "begin" /\ db = Open
    /\ todo' = [todo EXCEPT ![p] = want[p]]
    /\ Goto(p, IF want[p] = {} THEN "swap" ELSE "insert")
    /\ UNCHANGED <<store, whiteList, want, warning, counts, history>>

SetBegin(p) ==
    /\ pc[p] = "begin" /\ db = Open
    /\ db' = Begun
    /\ todo' = [todo EXCEPT ![p] = want[p]]
    /\ Goto(p, "insert")
    /\ UNCHANGED <<stored, stuck, whiteList, want, warning, counts, history>>

SetInsert(p) ==
    /\ pc[p] = "insert"
    /\ IF todo[p] = {} THEN Goto(p, "commit") /\ UNCHANGED <<db, stored, todo>>
       ELSE /\ ~WriteFails
            /\ \E n \in todo[p] :
                /\ todo' = [todo EXCEPT ![p] = @ \ {n}]
                /\ IF InTransaction
                   THEN db' = Written(View \cup {n}) /\ UNCHANGED stored
                   ELSE ~Reading /\ stored' = stored \cup {n} /\ UNCHANGED db
            /\ UNCHANGED pc
    /\ UNCHANGED <<stuck, whiteList, want, warning, counts, history>>

\* Mutant: the list in memory is replaced, the transaction left to the closing.
SetCommitNever(p) ==
    /\ pc[p] = "commit" /\ InTransaction /\ ~Reading
    /\ Goto(p, "swap")
    /\ UNCHANGED <<store, whiteList, want, todo, warning, counts, history>>

SetCommit(p) ==
    /\ pc[p] = "commit" /\ InTransaction /\ ~Reading
    /\ stored' = View
    /\ db' = Open
    /\ Goto(p, "swap")
    /\ UNCHANGED <<stuck, whiteList, want, todo, warning, counts, history>>

\* emptyList: the list in memory is replaced; the request will be confirmed.
SetSwap(p) ==
    /\ pc[p] = "swap"
    /\ whiteList' = want[p]
    /\ ack' = IF p = "host" /\ ~early THEN {want[p]} ELSE ack
    /\ Goto(p, "close")
    /\ UNCHANGED <<store, want, todo, warning, counts, early, raced, unread>>

\* Mutant: the request of an empty list leaves the connection to the next one.
SetCloseUnlessEmpty(p) ==
    /\ pc[p] = "close"
    /\ db' = IF want[p] = {} THEN db ELSE Closed
    /\ Goto(p, "idle")
    /\ want' = [want EXCEPT ![p] = {}] /\ todo' = [todo EXCEPT ![p] = {}]
    /\ UNCHANGED <<stored, stuck, whiteList, warning, counts, history>>

SetClose(p) ==
    /\ pc[p] = "close"
    /\ db' = Closed
    /\ Goto(p, "idle")
    /\ want' = [want EXCEPT ![p] = {}] /\ todo' = [todo EXCEPT ![p] = {}]
    /\ UNCHANGED <<stored, stuck, whiteList, warning, counts, history>>

---------------------------------------------------------------------------
(* Power.                                                                  *)

PowerLoss ==
    /\ counts.power < MaxPower
    /\ counts' = [counts EXCEPT !.power = @ + 1]
    /\ PowerOn
    /\ UNCHANGED <<stored, ack, raced, unread>>

---------------------------------------------------------------------------
(* The detectors and HEARTBEAT.                                            *)

\* The drones a detector has in its table change.
Detect(d) ==
    /\ seen' \in {[seen EXCEPT ![d] = s] : s \in SUBSET Drone \ {seen[d]}}
    /\ UNCHANGED <<store, whiteList, setting, enemy, hbQ, targets, alarm, counts, history>>

Waiting(d) == Cardinality({i \in DOMAIN hbQ : hbQ[i][1] = d})

\* Mutant: only drones that are there are judged, the list is not looked at again.
TargetWarningOnSightOnly(d) ==
    LET now == seen[d] \ whiteList # {} IN
    /\ enemy[d] # now /\ Waiting(d) < MaxQueue /\ (enemy[d] => seen[d] = {})
    /\ enemy' = [enemy EXCEPT ![d] = now]
    /\ hbQ' = Append(hbQ, <<d, now>>)
    /\ UNCHANGED <<store, whiteList, setting, seen, targets, alarm, counts, history>>

\* Mutant: a warning on every round fills the queue.
TargetWarningEveryRound(d) ==
    LET now == seen[d] \ whiteList # {} IN
    /\ enemy' = [enemy EXCEPT ![d] = now]
    /\ hbQ' = Append(hbQ, <<d, now>>)
    /\ UNCHANGED <<store, whiteList, setting, seen, targets, alarm, counts, history>>

\* _TargetWarningProcWhitelist: the edges of "there is an enemy" are reported.
TargetWarningProcWhitelist(d) ==
    LET now == seen[d] \ whiteList # {} IN
    /\ enemy[d] # now /\ Waiting(d) < MaxQueue
    /\ enemy' = [enemy EXCEPT ![d] = now]
    /\ hbQ' = Append(hbQ, <<d, now>>)
    /\ UNCHANGED <<store, whiteList, setting, seen, targets, alarm, counts, history>>

\* HeartBeatModule::TargetAppear: the warnings follow the state over all scenes.
TargetAppear ==
    /\ hbQ # <<>>
    /\ hbQ' = Tail(hbQ)
    /\ targets' = [targets EXCEPT ![Head(hbQ)[1]] = Head(hbQ)[2]]
    /\ LET state(t) == \E d \in Detector : t[d]
       IN  alarm' = IF state(targets) # state(targets') THEN state(targets') ELSE alarm
    /\ UNCHANGED <<store, whiteList, setting, seen, enemy, counts, history>>

---------------------------------------------------------------------------
WhitelistInit == InitOpen \/ InitSelect \/ InsertWhitelist \/ InitClose \/ InitEmpty

SetWhitelist(p) ==
    \/ SetSame(p) \/ SetOpen(p) \/ SetFails(p) \/ SetDelete(p) \/ SetBegin(p)
    \/ SetInsert(p) \/ SetCommit(p) \/ SetSwap(p) \/ SetClose(p)

Next ==
    \/ WhitelistInit
    \/ \E l \in Lists : Request(l)
    \/ \E p \in Caller : SetWhitelist(p)
    \/ PowerLoss
    \/ \E d \in Detector : Detect(d) \/ TargetWarningProcWhitelist(d)
    \/ TargetAppear

Spec == Init /\ [][Next]_vars

(* The threads run.  A detector goes over its table again and again: the   *)
(* timer of DRONEID lets the algorithm run every 650 ms, REMOTEID ages its *)
(* table after every report, as long as the table fits in one.             *)
FairSpec ==
    /\ Spec
    /\ WF_vars(WhitelistInit)
    /\ \A p \in Caller : WF_vars(SetWhitelist(p))
    /\ \A d \in Detector : WF_vars(TargetWarningProcWhitelist(d))
    /\ WF_vars(TargetAppear)

---------------------------------------------------------------------------
TypeOK ==
    /\ stored \subseteq Name /\ whiteList \subseteq Name
    /\ db \in [state : {"closed", "open", "begun", "written"}, rows : SUBSET Name]
    /\ stuck \in BOOLEAN
    /\ pc \in [Caller -> {"start", "select", "read", "release", "empty", "idle", "same", "open",
                          "delete", "begin", "insert", "commit", "swap", "close"}]
    /\ want \in [Caller -> SUBSET Name] /\ todo \in [Caller -> SUBSET Name]
    /\ seen \in [Detector -> SUBSET Drone] /\ enemy \in [Detector -> BOOLEAN]
    /\ hbQ \in Seq(Detector \X BOOLEAN) /\ \A d \in Detector : Waiting(d) <= MaxQueue
    /\ targets \in [Detector -> BOOLEAN] /\ alarm \in BOOLEAN
    /\ counts \in [set : 0 .. MaxSet, power : 0 .. MaxPower, fault : 0 .. MaxFault]
    /\ ack \subseteq SUBSET Name
    /\ {early, raced, unread} \subseteq BOOLEAN

(* A list that was written and confirmed once Init was over is there until *)
(* the next one is written, also after losses of power at any moment: in   *)
(* the table always, in memory whenever Init is over.  Not so for an empty *)
(* list, nor when an Init could not read the table: the list for tests     *)
(* takes their place (WhitelistManager::Init, line 131).                   *)
ConfirmedIsKept ==
    \A l \in ack \ {{}} : ~unread =>
        /\ stored = l
        /\ pc["boot"] = "idle" => whiteList = l

(* The table holds a list as a whole or nothing, wherever SetWhitelist was *)
(* cut off by a fault or the loss of power - unless a request came while   *)
(* Init ran, when both callers use one connection.                         *)
WholeListStored == ~raced => stored \in {{}, TestWhitelist} \cup Lists

(* Every way out of Init and SetWhitelist gives the connection and its     *)
(* lock back, so that the next request can write.                          *)
ConnectionGivenBack ==
    (\A p \in Caller : pc[p] = "idle") => db = Closed /\ (~raced => ~stuck)

(* However the whitelist and the tables of the detectors change meanwhile, *)
(* also row by row while Init runs, the alarm is right in the end: on when *)
(* a detector keeps seeing drones that are not on the list, off when none  *)
(* does (_TargetWarningProcWhitelist, TargetAppear).                       *)
Threat(d) == seen[d] \ whiteList # {}
AlarmIsRight ==
    /\ (\E d \in Detector : <>[]Threat(d)) => <>[]alarm
    /\ <>[](\A d \in Detector : ~Threat(d)) => <>[]~alarm
=============================================================================
