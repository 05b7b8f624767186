-------------------------- MODULE Whitelist_proofs --------------------------
(***************************************************************************)
(* The whitelist for any lists, drones and detectors, and any number of    *)
(* requests, losses of power and failed statements: what the table holds,  *)
(* what becomes of a confirmed list, that the connection is given back,    *)
(* and that the alarm follows the drones the detectors see.                *)
(***************************************************************************)
EXTENDS Whitelist, FiniteSetTheorems, TLAPS

Initing == {"start", "select", "read", "release", "empty"}
Writing == {"delete", "begin", "insert", "commit", "swap"}
Using == Writing \cup {"select", "read", "release", "close"}

\* The variables of the list and its store.
StoreType ==
    /\ stored \subseteq Name /\ whiteList \subseteq Name
    /\ db \in [state : {"closed", "open", "begun", "written"}, rows : SUBSET Name]
    /\ stuck \in BOOLEAN
    /\ pc \in [Caller -> Initing \cup Writing \cup {"idle", "same", "open", "close"}]
    /\ want \in [Caller -> SUBSET Name] /\ todo \in [Caller -> SUBSET Name]
    /\ ack \subseteq SUBSET Name
    /\ {early, raced, unread} \subseteq BOOLEAN

\* What a caller may write, and where it may be.
WantInv ==
    /\ pc["host"] \notin Initing
    /\ want["boot"] \in {{}, TestWhitelist}
    /\ want["host"] \in {{}} \cup Lists

\* Init and a request run at the same time only when the request was early.
AloneInv ==
    /\ pc["host"] # "idle" /\ ~early => pc["boot"] = "idle"
    /\ ~raced => ~early /\ ~stuck

\* Somebody is at work when there is a connection.
OpenInv == db # Closed => \E p \in Caller : pc[p] \in Using

\* How far a caller that is alone has come.
Stage(p) ==
    /\ pc[p] = "delete" => db = Open
    /\ pc[p] = "begin" => db = Open /\ stored = {}
    /\ pc[p] = "insert" => InTransaction /\ View \cup todo[p] = want[p]
    /\ pc[p] = "commit" => InTransaction /\ View = want[p]
    /\ pc[p] = "swap" => db = Open /\ stored = want[p]

StageInv ==
    /\ ~early => Stage("host")
    /\ ~raced => Stage("boot")

\* A list that was confirmed, step by step through a start.
KeptInv ==
    /\ ack # {} => pc["host"] \notin Writing
    /\ \A l \in ack \ {{}} : ~unread =>
        /\ stored = l /\ ~InTransaction
        /\ pc["boot"] \in Initing \cup {"idle"}
        /\ pc["boot"] \in {"start", "select"} => whiteList = {}
        /\ pc["boot"] = "read" => whiteList \cup todo["boot"] = l
        /\ pc["boot"] \in {"release", "empty", "idle"} => whiteList = l

SafeInv == WantInv /\ AloneInv /\ OpenInv /\ StageInv /\ KeptInv

-----------------------------------------------------------------------------
(* Types.                                                                  *)

Place == Initing \cup Writing \cup {"idle", "same", "open", "close"}

\* A caller moves; the other one stays.
LEMMA Moves ==
  ASSUME StoreType, NEW p \in Caller, NEW l \in Place, Goto(p, l)
  PROVE  /\ pc' \in [Caller -> Place] /\ pc'[p] = l
         /\ \A q \in Caller \ {p} : pc'[q] = pc[q]
BY DEF StoreType, Goto, Place

LEMMA ConnectionTypes ==
  /\ {Closed, Open, Begun} \subseteq [state : {"closed", "open", "begun", "written"}, rows : SUBSET Name]
  /\ \A rows \in SUBSET Name :
         Written(rows) \in [state : {"closed", "open", "begun", "written"}, rows : SUBSET Name]
BY DEF Closed, Open, Begun, Written

LEMMA ViewType == StoreType => View \subseteq Name
BY DEF StoreType, View

LEMMA StoreTypeInit == Init => StoreType
BY ConnectionTypes DEF Init, StoreType, Caller, Initing

LEMMA InitStepType == ASSUME StoreType, WhitelistInit PROVE StoreType'
<1>1. CASE InitOpen
  <2>1. pc' \in [Caller -> Place]
    BY <1>1, Moves DEF InitOpen, Caller, Place, Initing
  <2> QED BY <1>1, <2>1, ConnectionTypes DEF InitOpen, OpenHandle, StoreType, Place, history
<1>2. CASE InitSelect
  <2>1. pc' \in [Caller -> Place]
    BY <1>2, Moves DEF InitSelect, Caller, Place, Initing
  <2>2. todo' \in [Caller -> SUBSET Name] /\ unread' \in BOOLEAN
    BY <1>2, ViewType DEF InitSelect, StoreType
  <2> QED BY <1>2, <2>1, <2>2 DEF InitSelect, StoreType, Place, store
<1>3. CASE InsertWhitelist
  <2>1. pc' \in [Caller -> Place]
    BY <1>3, Moves DEF InsertWhitelist, StoreType, Caller, Place, Initing
  <2>2. todo' \in [Caller -> SUBSET Name] /\ whiteList' \subseteq Name
    BY <1>3 DEF InsertWhitelist, StoreType, Caller
  <2> QED BY <1>3, <2>1, <2>2 DEF InsertWhitelist, StoreType, Place, store, history
<1>4. CASE InitClose
  <2>1. pc' \in [Caller -> Place]
    BY <1>4, Moves DEF InitClose, Caller, Place, Initing
  <2> QED BY <1>4, <2>1, ConnectionTypes DEF InitClose, StoreType, Place, history
<1>5. CASE InitEmpty
  <2>1. pc' \in [Caller -> Place]
    BY <1>5, Moves DEF InitEmpty, Caller, Place
  <2>2. want' \in [Caller -> SUBSET Name]
    BY <1>5 DEF InitEmpty, StoreType, Name
  <2> QED BY <1>5, <2>1, <2>2 DEF InitEmpty, StoreType, Place, store, history
<1> QED BY <1>1, <1>2, <1>3, <1>4, <1>5 DEF WhitelistInit

LEMMA RequestType == ASSUME StoreType, NEW l \in Lists, Request(l) PROVE StoreType'
<1>1. pc' \in [Caller -> Place]
  BY Moves DEF Request, Caller, Place
<1>2. want' \in [Caller -> SUBSET Name]
  BY DEF Request, StoreType, Name
<1>3. early' \in BOOLEAN /\ raced' \in BOOLEAN
  BY DEF Request, StoreType
<1> QED BY <1>1, <1>2, <1>3 DEF Request, StoreType, Place, store

LEMMA SetStepType == ASSUME StoreType, NEW p \in Caller, SetWhitelist(p) PROVE StoreType'
<1>1. CASE SetSame(p)
  <2>1. pc' \in [Caller -> Place]
    BY <1>1, Moves DEF SetSame, Place
  <2> QED BY <1>1, <2>1 DEF SetSame, StoreType, Place, store, history
<1>2. CASE SetOpen(p)
  <2>1. pc' \in [Caller -> Place]
    BY <1>2, Moves DEF SetOpen, Place, Writing
  <2> QED BY <1>2, <2>1, ConnectionTypes DEF SetOpen, OpenHandle, StoreType, Place
<1>3. CASE SetFails(p)
  <2>1. pc' \in [Caller -> Place]
    BY <1>3, Moves DEF SetFails, Place
  <2> QED BY <1>3, <2>1 DEF SetFails, StoreType, Place, store, history
<1>4. CASE SetDelete(p)
  <2>1. pc' \in [Caller -> Place]
    BY <1>4, Moves DEF SetDelete, Place, Writing
  <2> QED BY <1>4, <2>1, ConnectionTypes DEF SetDelete, StoreType, Place, history
<1>5. CASE SetBegin(p)
  <2>1. pc' \in [Caller -> Place]
    BY <1>5, Moves DEF SetBegin, Place, Writing
  <2>2. todo' \in [Caller -> SUBSET Name]
    BY <1>5 DEF SetBegin, StoreType
  <2> QED BY <1>5, <2>1, <2>2, ConnectionTypes DEF SetBegin, StoreType, Place, history
<1>6. CASE SetInsert(p)
  <2>1. pc' \in [Caller -> Place]
    BY <1>6, Moves DEF SetInsert, StoreType, Place, Writing
  <2>2. todo' \in [Caller -> SUBSET Name]
    <3>1. CASE todo[p] = {}
      BY <1>6, <3>1 DEF SetInsert, StoreType
    <3>2. CASE todo[p] # {}
      <4>1. PICK n \in todo[p] : todo' = [todo EXCEPT ![p] = @ \ {n}]
        BY <1>6, <3>2 DEF SetInsert
      <4> QED BY <4>1 DEF StoreType
    <3> QED BY <3>1, <3>2
  <2>3. /\ stored' \subseteq Name
        /\ db' \in [state : {"closed", "open", "begun", "written"}, rows : SUBSET Name]
    <3>1. CASE todo[p] = {}
      BY <1>6, <3>1 DEF SetInsert, StoreType
    <3>2. CASE todo[p] # {}
      <4>1. PICK n \in todo[p] :
                IF InTransaction THEN db' = Written(View \cup {n}) /\ UNCHANGED stored
                                 ELSE stored' = stored \cup {n} /\ UNCHANGED db
        BY <1>6, <3>2 DEF SetInsert
      <4>2. n \in Name /\ View \cup {n} \in SUBSET Name
        BY ViewType DEF StoreType
      <4> QED BY <4>1, <4>2, ConnectionTypes DEF StoreType
    <3> QED BY <3>1, <3>2
  <2> QED BY <1>6, <2>1, <2>2, <2>3 DEF SetInsert, StoreType, Place, history
<1>7. CASE SetCommit(p)
  <2>1. pc' \in [Caller -> Place]
    BY <1>7, Moves DEF SetCommit, Place, Writing
  <2> QED BY <1>7, <2>1, ConnectionTypes, ViewType DEF SetCommit, StoreType, Place, history
<1>8. CASE SetSwap(p)
  <2>1. pc' \in [Caller -> Place]
    BY <1>8, Moves DEF SetSwap, Place
  <2>2. whiteList' \subseteq Name /\ ack' \subseteq SUBSET Name
    BY <1>8 DEF SetSwap, StoreType
  <2> QED BY <1>8, <2>1, <2>2 DEF SetSwap, StoreType, Place, store
<1>9. CASE SetClose(p)
  <2>1. pc' \in [Caller -> Place]
    BY <1>9, Moves DEF SetClose, Place
  <2>2. want' \in [Caller -> SUBSET Name] /\ todo' \in [Caller -> SUBSET Name]
    BY <1>9 DEF SetClose, StoreType
  <2> QED BY <1>9, <2>1, <2>2, ConnectionTypes DEF SetClose, StoreType, Place, history
<1> QED BY <1>1, <1>2, <1>3, <1>4, <1>5, <1>6, <1>7, <1>8, <1>9 DEF SetWhitelist

LEMMA PowerLossType == ASSUME StoreType, PowerLoss PROVE StoreType'
BY ConnectionTypes DEF PowerLoss, PowerOn, StoreType, Caller, Initing

\* The detectors and HEARTBEAT read the list only.
LEMMA WarningSteps ==
  ASSUME \/ \E d \in Detector : Detect(d) \/ TargetWarningProcWhitelist(d)
         \/ TargetAppear
         \/ UNCHANGED vars
  PROVE  UNCHANGED <<store, whiteList, setting, history>>
BY DEF Detect, TargetWarningProcWhitelist, TargetAppear, vars

LEMMA StoreTypeNext == ASSUME StoreType, [Next]_vars PROVE StoreType'
<1>1. ASSUME UNCHANGED <<store, whiteList, setting, history>> PROVE StoreType'
  BY <1>1 DEF StoreType, store, setting, history
<1> QED BY <1>1, InitStepType, RequestType, SetStepType, PowerLossType, WarningSteps DEF Next

-----------------------------------------------------------------------------
(* Callers that are alone, and the connection.                             *)

LEMMA Different ==
  /\ Open # Closed /\ Begun # Closed
  /\ \A rows : Written(rows) # Closed /\ Written(rows).state = "written" /\ Written(rows).rows = rows
  /\ Open.state = "open" /\ Begun.state = "begun" /\ Closed.state = "closed"
BY DEF Closed, Open, Begun, Written

LEMMA WantInit == Init => WantInv
BY DEF Init, WantInv, Caller, Initing

LEMMA WantNext == ASSUME StoreType, WantInv, [Next]_vars PROVE WantInv'
<1>1. ASSUME WhitelistInit PROVE WantInv'
  <2>1. pc'["host"] = pc["host"]
    BY <1>1 DEF WhitelistInit, InitOpen, InitSelect, InsertWhitelist, InitClose, InitEmpty,
                Goto, StoreType, Caller
  <2>2. want'["boot"] \in {want["boot"], TestWhitelist} /\ want'["host"] = want["host"]
    BY <1>1 DEF WhitelistInit, InitOpen, InitSelect, InsertWhitelist, InitClose, InitEmpty,
                StoreType, Caller
  <2> QED BY <2>1, <2>2 DEF WantInv
<1>2. ASSUME NEW l \in Lists, Request(l) PROVE WantInv'
  BY <1>2 DEF Request, Goto, WantInv, StoreType, Caller, Initing
<1>3. ASSUME NEW p \in Caller, SetWhitelist(p) PROVE WantInv'
  <2>1. /\ \A q \in Caller \ {p} : pc'[q] = pc[q] /\ want'[q] = want[q]
        /\ pc'[p] \notin Initing
    BY <1>3 DEF SetWhitelist, SetSame, SetOpen, SetFails, SetDelete, SetBegin, SetInsert, SetCommit,
                SetSwap, SetClose, Goto, StoreType, Initing
  <2>2. want'[p] \in {want[p], {}}
    BY <1>3 DEF SetWhitelist, SetSame, SetOpen, SetFails, SetDelete, SetBegin, SetInsert, SetCommit,
                SetSwap, SetClose, StoreType
  <2> QED BY <2>1, <2>2 DEF WantInv, Caller
<1>4. CASE PowerLoss
  BY <1>4 DEF PowerLoss, PowerOn, WantInv, Caller, Initing
<1>5. ASSUME UNCHANGED <<store, whiteList, setting, history>> PROVE WantInv'
  BY <1>5 DEF WantInv, setting
<1> QED BY <1>1, <1>2, <1>3, <1>4, <1>5, WarningSteps DEF Next

\* Somebody is at work after every step that leaves a connection open.
LEMMA OpenInit == Init => OpenInv
BY DEF Init, OpenInv

LEMMA OpenNext == ASSUME StoreType, WantInv, OpenInv, [Next]_vars PROVE OpenInv'
<1> SUFFICES ASSUME db' # Closed PROVE \E p \in Caller : pc'[p] \in Using
  BY DEF OpenInv
<1>1. ASSUME NEW p \in Caller, NEW l \in Using, Goto(p, l)
      PROVE  \E q \in Caller : pc'[q] \in Using
  BY <1>1 DEF Goto, StoreType
<1>2. ASSUME NEW p \in Caller, pc[p] \notin Using, db' = db,
             \A q \in Caller \ {p} : pc'[q] = pc[q]
      PROVE  \E q \in Caller : pc'[q] \in Using
  BY <1>2 DEF OpenInv
<1>3. ASSUME WhitelistInit PROVE \E q \in Caller : pc'[q] \in Using
  <2>1. CASE InitOpen
    BY <1>1, <2>1 DEF InitOpen, Using, Caller
  <2>2. CASE InitSelect
    BY <1>1, <2>2 DEF InitSelect, Using, Caller
  <2>3. CASE InsertWhitelist
    BY <2>3 DEF InsertWhitelist, Goto, Using, Caller, StoreType
  <2>4. CASE InitClose
    BY <2>4 DEF InitClose
  <2>5. CASE InitEmpty
    BY <1>2, <2>5 DEF InitEmpty, Goto, Using, Writing, Caller, StoreType, store
  <2> QED BY <1>3, <2>1, <2>2, <2>3, <2>4, <2>5 DEF WhitelistInit
<1>4. ASSUME NEW l \in Lists, Request(l) PROVE \E q \in Caller : pc'[q] \in Using
  BY <1>2, <1>4 DEF Request, Goto, Using, Writing, Caller, StoreType, store
<1>5. ASSUME NEW p \in Caller, SetWhitelist(p) PROVE \E q \in Caller : pc'[q] \in Using
  <2>1. CASE SetSame(p)
    BY <1>2, <2>1 DEF SetSame, Goto, Using, Writing, StoreType, store
  <2>2. CASE SetClose(p)
    BY <2>2 DEF SetClose
  <2>3. CASE SetInsert(p)
    BY <1>1, <2>3 DEF SetInsert, Using, Writing, StoreType
  <2>4. CASE SetOpen(p) \/ SetFails(p) \/ SetDelete(p) \/ SetBegin(p) \/ SetCommit(p) \/ SetSwap(p)
    BY <1>1, <2>4 DEF SetOpen, SetFails, SetDelete, SetBegin, SetCommit, SetSwap, Using, Writing
  <2> QED BY <1>5, <2>1, <2>2, <2>3, <2>4 DEF SetWhitelist
<1>6. CASE PowerLoss
  BY <1>6 DEF PowerLoss, PowerOn
<1>7. ASSUME UNCHANGED <<store, whiteList, setting, history>> PROVE \E q \in Caller : pc'[q] \in Using
  BY <1>7 DEF OpenInv, setting, store
<1> QED BY <1>3, <1>4, <1>5, <1>6, <1>7, WarningSteps DEF Next

LEMMA AloneInit == Init => AloneInv
BY DEF Init, AloneInv, Caller

\* What a caller does that is alone starts without a connection.
LEMMA AloneOpens ==
  ASSUME StoreType, AloneInv, OpenInv, ~raced, NEW p \in Caller,
         pc[p] \in {"start", "open"}
  PROVE  db = Closed
<1>1. \A q \in Caller \ {p} : pc[q] = "idle"
  BY DEF AloneInv, Caller
<1>2. \A q \in Caller : pc[q] \notin Using
  BY <1>1 DEF Using, Writing
<1> QED BY <1>2 DEF OpenInv

LEMMA AloneNext == ASSUME StoreType, WantInv, AloneInv, OpenInv, [Next]_vars PROVE AloneInv'
<1>1. ASSUME WhitelistInit PROVE AloneInv'
  <2>1. pc["boot"] # "idle" /\ pc'["host"] = pc["host"] /\ UNCHANGED <<early, raced>>
    BY <1>1 DEF WhitelistInit, InitOpen, InitSelect, InsertWhitelist, InitClose, InitEmpty,
                Goto, StoreType, Caller, history
  <2>2. ~raced => stuck' = stuck
    <3>1. CASE InitOpen
      <4>1. ~raced => db.state # "written"
        BY <3>1, AloneOpens, Different DEF InitOpen, Caller
      <4>2. stuck' = (stuck \/ db.state = "written") /\ stuck \in BOOLEAN
        BY <3>1 DEF InitOpen, OpenHandle, StoreType
      <4> QED BY <4>1, <4>2
    <3>2. CASE ~InitOpen
      BY <1>1, <3>2 DEF WhitelistInit, InitSelect, InsertWhitelist, InitClose, InitEmpty, store
    <3> QED BY <3>1, <3>2
  <2> QED BY <2>1, <2>2 DEF AloneInv
<1>2. ASSUME NEW l \in Lists, Request(l) PROVE AloneInv'
  <2>1. pc'["boot"] = pc["boot"] /\ stuck' = stuck
    BY <1>2 DEF Request, Goto, StoreType, Caller, store
  <2> QED BY <1>2, <2>1 DEF Request, AloneInv
<1>3. ASSUME NEW p \in Caller, SetWhitelist(p) PROVE AloneInv'
  <2>1. /\ UNCHANGED <<early, raced>> /\ pc[p] # "idle"
        /\ \A q \in Caller \ {p} : pc'[q] = pc[q]
    BY <1>3 DEF SetWhitelist, SetSame, SetOpen, SetFails, SetDelete, SetBegin, SetInsert, SetCommit,
                SetSwap, SetClose, Goto, StoreType, history
  <2>2. ~raced => stuck' = stuck
    <3>1. CASE SetOpen(p)
      <4>1. ~raced => db.state # "written"
        BY <3>1, AloneOpens, Different DEF SetOpen
      <4>2. stuck' = (stuck \/ db.state = "written") /\ stuck \in BOOLEAN
        BY <3>1 DEF SetOpen, OpenHandle, StoreType
      <4> QED BY <4>1, <4>2
    <3>2. CASE ~SetOpen(p)
      BY <1>3, <3>2 DEF SetWhitelist, SetSame, SetFails, SetDelete, SetBegin, SetInsert, SetCommit,
                        SetSwap, SetClose, store
    <3> QED BY <3>1, <3>2
  <2> QED BY <2>1, <2>2 DEF AloneInv, Caller
<1>4. CASE PowerLoss
  BY <1>4 DEF PowerLoss, PowerOn, AloneInv, Caller
<1>5. ASSUME UNCHANGED <<store, whiteList, setting, history>> PROVE AloneInv'
  BY <1>5 DEF AloneInv, setting, store, history
<1> QED BY <1>1, <1>2, <1>3, <1>4, <1>5, WarningSteps DEF Next

-----------------------------------------------------------------------------
(* How far a caller has come.                                              *)

LEMMA StageInit == Init => StageInv
BY DEF Init, StageInv, Stage, Caller

\* The step of a caller that is alone leads to the next stage.
LEMMA StageStep ==
  ASSUME StoreType, NEW p \in Caller, Stage(p), SetWhitelist(p)
  PROVE  Stage(p)'
<1>1. ASSUME NEW l \in {"close", "idle", "open"}, Goto(p, l) PROVE Stage(p)'
  BY <1>1 DEF Goto, StoreType, Stage
<1>2. CASE SetSame(p)
  BY <1>1, <1>2 DEF SetSame
<1>3. CASE SetOpen(p)
  <2>1. pc'[p] = "delete" /\ db' = Open
    BY <1>3 DEF SetOpen, OpenHandle, Goto, StoreType
  <2> QED BY <2>1 DEF Stage
<1>4. CASE SetFails(p)
  BY <1>1, <1>4 DEF SetFails
<1>5. CASE SetDelete(p)
  <2>1. ~InTransaction /\ db = Open
    BY <1>5, Different DEF SetDelete, Stage, InTransaction
  <2>2. stored' = {} /\ db' = Open /\ want' = want
    BY <1>5, <2>1 DEF SetDelete
  <2>3. pc'[p] = IF want[p] = {} THEN "swap" ELSE "begin"
    BY <1>5 DEF SetDelete, Goto, StoreType
  <2> QED BY <2>2, <2>3 DEF Stage
<1>6. CASE SetBegin(p)
  <2>1. pc'[p] = "insert" /\ db' = Begun /\ stored' = {} /\ todo'[p] = want'[p]
    BY <1>6 DEF SetBegin, Goto, StoreType, Stage
  <2> QED BY <2>1, Different DEF Stage, InTransaction, View
<1>7. CASE SetInsert(p)
  <2>1. InTransaction /\ View \cup todo[p] = want[p]
    BY <1>7 DEF SetInsert, Stage
  <2>2. CASE todo[p] = {}
    <3>1. pc'[p] = "commit" /\ UNCHANGED <<db, stored, want>>
      BY <1>7, <2>2 DEF SetInsert, Goto, StoreType
    <3> QED BY <2>1, <2>2, <3>1 DEF Stage, InTransaction, View
  <2>3. CASE todo[p] # {}
    <3>1. PICK n \in todo[p] : todo' = [todo EXCEPT ![p] = @ \ {n}] /\ db' = Written(View \cup {n})
      BY <1>7, <2>1, <2>3 DEF SetInsert
    <3>2. pc'[p] = "insert" /\ want' = want /\ todo'[p] = todo[p] \ {n}
      BY <1>7, <2>3, <3>1 DEF SetInsert, StoreType
    <3>3. InTransaction' /\ View' = View \cup {n}
      BY <3>1, Different DEF InTransaction, View
    <3> QED BY <2>1, <3>2, <3>3 DEF Stage
  <2> QED BY <2>2, <2>3
<1>8. CASE SetCommit(p)
  <2>1. pc'[p] = "swap" /\ db' = Open /\ stored' = want'[p]
    BY <1>8 DEF SetCommit, Goto, StoreType, Stage
  <2> QED BY <2>1 DEF Stage
<1>9. CASE SetSwap(p)
  BY <1>1, <1>9 DEF SetSwap
<1>10. CASE SetClose(p)
  BY <1>1, <1>10 DEF SetClose
<1> QED BY <1>2, <1>3, <1>4, <1>5, <1>6, <1>7, <1>8, <1>9, <1>10 DEF SetWhitelist

\* A caller that is not in a stage has nothing to keep.
LEMMA NoStage == ASSUME NEW p \in Caller, pc[p] \notin Writing PROVE Stage(p)
BY DEF Stage, Writing

LEMMA StageNext == ASSUME StoreType, SafeInv, [Next]_vars PROVE StageInv'
<1> USE DEF SafeInv
<1>1. ASSUME WhitelistInit PROVE StageInv'
  <2>1. /\ pc["boot"] # "idle" /\ pc'["boot"] \notin Writing
        /\ pc'["host"] = pc["host"] /\ early' = early
    BY <1>1 DEF WhitelistInit, InitOpen, InitSelect, InsertWhitelist, InitClose, InitEmpty,
                Goto, StoreType, Caller, history, Writing
  <2>2. ~early => pc'["host"] \notin Writing
    BY <2>1 DEF AloneInv, Writing
  <2> QED BY <2>1, <2>2 DEF StageInv, Stage, Writing
<1>2. ASSUME NEW l \in Lists, Request(l) PROVE StageInv'
  <2>1. pc'["host"] = "same" /\ pc'["boot"] = pc["boot"] /\ UNCHANGED store
    BY <1>2 DEF Request, Goto, StoreType, Caller
  <2>2. ~raced' => ~raced /\ pc["boot"] = "idle"
    BY <1>2 DEF Request
  <2> QED BY <2>1, <2>2 DEF StageInv, Stage
<1>3. ASSUME SetWhitelist("host") PROVE StageInv'
  <2>1. UNCHANGED <<early, raced>> /\ pc["host"] # "idle" /\ pc'["boot"] = pc["boot"]
    BY <1>3 DEF SetWhitelist, SetSame, SetOpen, SetFails, SetDelete, SetBegin, SetInsert, SetCommit,
                SetSwap, SetClose, Goto, StoreType, Caller, history
  <2>2. ~early => Stage("host")'
    BY <1>3, StageStep DEF StageInv, Caller
  <2>3. ~raced => pc'["boot"] = "idle"
    BY <2>1 DEF AloneInv
  <2> QED BY <2>1, <2>2, <2>3 DEF StageInv, Stage
<1>4. ASSUME SetWhitelist("boot") PROVE StageInv'
  <2>1. UNCHANGED <<early, raced>> /\ pc["boot"] # "idle" /\ pc'["host"] = pc["host"]
    BY <1>4 DEF SetWhitelist, SetSame, SetOpen, SetFails, SetDelete, SetBegin, SetInsert, SetCommit,
                SetSwap, SetClose, Goto, StoreType, Caller, history
  <2>2. ~raced => Stage("boot")'
    BY <1>4, StageStep DEF StageInv, Caller
  <2>3. ~early => pc'["host"] = "idle"
    BY <2>1 DEF AloneInv
  <2> QED BY <2>1, <2>2, <2>3 DEF StageInv, Stage
<1>5. CASE PowerLoss
  BY <1>5 DEF PowerLoss, PowerOn, StageInv, Stage, Caller
<1>6. ASSUME UNCHANGED <<store, whiteList, setting, history>> PROVE StageInv'
  BY <1>6 DEF StageInv, Stage, InTransaction, View, setting, store, history
<1> QED BY <1>1, <1>2, <1>3, <1>4, <1>5, <1>6, WarningSteps DEF Next, Caller

-----------------------------------------------------------------------------
(* What becomes of a confirmed list.                                       *)

LEMMA KeptInit == Init => KeptInv
BY DEF Init, KeptInv, Writing, Caller

\* What KeptInv says of one list.
Kept(l) ==
    /\ stored = l /\ ~InTransaction
    /\ pc["boot"] \in Initing \cup {"idle"}
    /\ pc["boot"] \in {"start", "select"} => whiteList = {}
    /\ pc["boot"] = "read" => whiteList \cup todo["boot"] = l
    /\ pc["boot"] \in {"release", "empty", "idle"} => whiteList = l

LEMMA KeptAs ==
  KeptInv <=> /\ ack # {} => pc["host"] \notin Writing
              /\ \A l \in ack \ {{}} : ~unread => Kept(l)
BY DEF KeptInv, Kept

\* Init reads a confirmed list, or says that it could not.
LEMMA KeptInitStep ==
  ASSUME StoreType, WhitelistInit, NEW l, l # {}, Kept(l), ~unread'
  PROVE  Kept(l)'
<1>1. stored' = stored
  BY DEF WhitelistInit, InitOpen, InitSelect, InsertWhitelist, InitClose, InitEmpty, store
<1>2. CASE InitOpen
  BY <1>1, <1>2, Different DEF InitOpen, OpenHandle, Goto, StoreType, Kept, InTransaction, Caller, Initing
<1>3. CASE InitSelect
  <2>1. db # Closed /\ todo' = [todo EXCEPT !["boot"] = View] /\ Goto("boot", "read")
    BY <1>3 DEF InitSelect
  <2>2. View = l /\ whiteList = {}
    BY <1>3 DEF InitSelect, Kept, View, InTransaction
  <2>3. pc'["boot"] = "read" /\ todo'["boot"] = l /\ UNCHANGED <<db, whiteList>>
    BY <1>3, <2>1, <2>2 DEF InitSelect, Goto, StoreType, Caller, store
  <2> QED BY <1>1, <2>2, <2>3 DEF Kept, Initing, InTransaction
<1>4. CASE InsertWhitelist
  <2>1. whiteList \cup todo["boot"] = l /\ UNCHANGED db
    BY <1>4 DEF InsertWhitelist, Kept, store
  <2>2. CASE todo["boot"] = {}
    <3>1. pc'["boot"] = "release" /\ UNCHANGED <<todo, whiteList>>
      BY <1>4, <2>2 DEF InsertWhitelist, Goto, StoreType, Caller
    <3> QED BY <1>1, <2>1, <2>2, <3>1 DEF Kept, Initing, InTransaction
  <2>3. CASE todo["boot"] # {}
    <3>1. PICK n \in todo["boot"] : /\ whiteList' = whiteList \cup {n}
                                   /\ todo' = [todo EXCEPT !["boot"] = @ \ {n}] /\ UNCHANGED pc
      BY <1>4, <2>3 DEF InsertWhitelist
    <3>2. todo'["boot"] = todo["boot"] \ {n} /\ pc["boot"] = "read"
      BY <1>4, <3>1 DEF InsertWhitelist, StoreType, Caller
    <3>3. whiteList' \cup todo'["boot"] = l
      BY <2>1, <3>1, <3>2
    <3> QED BY <1>1, <2>1, <3>1, <3>2, <3>3 DEF Kept, InTransaction
  <2> QED BY <2>2, <2>3
<1>5. CASE InitClose
  BY <1>1, <1>5, Different DEF InitClose, Goto, StoreType, Kept, InTransaction, Caller, Initing
<1>6. CASE InitEmpty
  <2>1. whiteList = l
    BY <1>6 DEF InitEmpty, Kept
  <2> QED BY <1>1, <1>6, <2>1 DEF InitEmpty, Goto, StoreType, Kept, InTransaction, Caller, store
<1> QED BY <1>2, <1>3, <1>4, <1>5, <1>6 DEF WhitelistInit

\* A host that only looks, opens or closes takes nothing away.
LEMMA KeptHostStep ==
  ASSUME StoreType, SetWhitelist("host"), pc["host"] \notin Writing, NEW l, Kept(l), ~SetOpen("host")
  PROVE  Kept(l)'
<1>1. SetSame("host") \/ SetClose("host")
  BY DEF SetWhitelist, SetFails, SetDelete, SetBegin, SetInsert, SetCommit, SetSwap, Writing
<1>2. UNCHANGED <<stored, whiteList>> /\ pc'["boot"] = pc["boot"] /\ todo'["boot"] = todo["boot"]
  BY <1>1 DEF SetSame, SetClose, Goto, StoreType, Caller, store
<1>3. InTransaction' => InTransaction
  BY <1>1, Different DEF SetSame, SetClose, InTransaction, store
<1> QED BY <1>2, <1>3 DEF Kept

LEMMA KeptNext == ASSUME StoreType, SafeInv, [Next]_vars PROVE KeptInv'
<1> USE DEF SafeInv
<1>1. ASSUME WhitelistInit PROVE KeptInv'
  <2>1. pc'["host"] = pc["host"] /\ ack' = ack /\ (unread => unread')
    BY <1>1 DEF WhitelistInit, InitOpen, InitSelect, InsertWhitelist, InitClose, InitEmpty,
                Goto, StoreType, Caller, history
  <2>2. ASSUME NEW l \in ack \ {{}}, ~unread' PROVE Kept(l)'
    BY <1>1, <2>1, <2>2, KeptInitStep, KeptAs
  <2>3. (ack # {} => pc["host"] \notin Writing)'
    BY <2>1, KeptAs
  <2> QED BY <2>1, <2>2, <2>3 DEF KeptInv, Kept
<1>2. ASSUME NEW l \in Lists, Request(l) PROVE KeptInv'
  <2>1. pc'["host"] = "same" /\ pc'["boot"] = pc["boot"] /\ UNCHANGED <<store, whiteList, todo, ack, unread>>
    BY <1>2 DEF Request, Goto, StoreType, Caller
  <2> QED BY <2>1 DEF KeptInv, Writing, InTransaction, store
<1>3. ASSUME SetWhitelist("host") PROVE KeptInv'
  <2>1. CASE SetOpen("host")
    BY <2>1 DEF SetOpen, KeptInv
  <2>2. CASE SetSwap("host")
    <3>1. CASE early
      BY <2>2, <3>1 DEF SetSwap, KeptInv, Writing
    <3>2. CASE ~early
      <4>1. pc["boot"] = "idle" /\ db = Open /\ stored = want["host"]
        BY <2>2, <3>2 DEF SetSwap, AloneInv, StageInv, Stage
      <4>2. /\ ack' = {want["host"]} /\ whiteList' = want["host"] /\ UNCHANGED store
            /\ pc'["boot"] = "idle" /\ pc'["host"] = "close"
        BY <2>2, <3>2, <4>1 DEF SetSwap, Goto, StoreType, Caller
      <4> QED BY <4>1, <4>2, Different DEF KeptInv, Writing, Initing, InTransaction, store
    <3> QED BY <3>1, <3>2
  <2>3. CASE pc["host"] \in Writing /\ ~SetOpen("host") /\ ~SetSwap("host")
    <3>1. ack' = ack /\ ack = {}
      BY <1>3, <2>3 DEF SetWhitelist, SetSame, SetFails, SetDelete, SetBegin, SetInsert, SetCommit,
                        SetClose, KeptInv, history
    <3> QED BY <3>1 DEF KeptInv
  <2>4. CASE pc["host"] \notin Writing /\ ~SetOpen("host")
    <3>1. SetSame("host") \/ SetClose("host")
      BY <1>3, <2>4 DEF SetWhitelist, SetFails, SetDelete, SetBegin, SetInsert, SetCommit, SetSwap, Writing
    <3>2. UNCHANGED <<ack, unread>> /\ pc'["host"] \notin Writing
      BY <3>1 DEF SetSame, SetClose, Goto, StoreType, Caller, Writing, history
    <3>3. ASSUME NEW l \in ack \ {{}}, ~unread PROVE Kept(l)'
      BY <1>3, <2>4, <3>3, KeptHostStep, KeptAs
    <3> QED BY <3>2, <3>3 DEF KeptInv, Kept
  <2> QED BY <2>1, <2>2, <2>3, <2>4
<1>4. ASSUME SetWhitelist("boot") PROVE KeptInv'
  <2>1. UNCHANGED <<ack, unread>> /\ pc'["host"] = pc["host"] /\ pc["boot"] \notin Initing \cup {"idle"}
    BY <1>4 DEF SetWhitelist, SetSame, SetOpen, SetFails, SetDelete, SetBegin, SetInsert, SetCommit,
                SetSwap, SetClose, Goto, StoreType, Caller, history, Initing
  <2>2. \A l \in ack \ {{}} : unread
    BY <2>1 DEF KeptInv
  <2> QED BY <2>1, <2>2 DEF KeptInv
<1>5. CASE PowerLoss
  <2>1. /\ UNCHANGED <<stored, ack, unread>> /\ whiteList' = {} /\ db' = Closed
        /\ pc'["boot"] = "start" /\ pc'["host"] = "idle"
    BY <1>5 DEF PowerLoss, PowerOn, Caller
  <2> QED BY <2>1, Different DEF KeptInv, Writing, Initing, InTransaction
<1>6. ASSUME UNCHANGED <<store, whiteList, setting, history>> PROVE KeptInv'
  BY <1>6 DEF KeptInv, InTransaction, setting, store, history
<1> QED BY <1>1, <1>2, <1>3, <1>4, <1>5, <1>6, WarningSteps DEF Next, Caller

-----------------------------------------------------------------------------
(* What the table holds, and the theorems.                                 *)

LEMMA WholeNext == ASSUME StoreType, SafeInv, WholeListStored, [Next]_vars PROVE WholeListStored'
<1> USE DEF SafeInv
<1>1. ASSUME stored' = stored, raced' \in {raced, TRUE} PROVE WholeListStored'
  BY <1>1 DEF WholeListStored, StoreType
<1>2. ASSUME NEW p \in Caller, SetWhitelist(p), ~raced PROVE stored' \in {{}, TestWhitelist} \cup Lists
  <2>1. Stage(p) /\ want[p] \in {{}, TestWhitelist} \cup Lists
    BY <1>2 DEF StageInv, AloneInv, WantInv, Caller
  <2>2. stored \in {{}, TestWhitelist} \cup Lists
    BY <1>2 DEF WholeListStored
  <2>3. CASE SetDelete(p)
    BY <2>2, <2>3 DEF SetDelete
  <2>4. CASE SetInsert(p)
    BY <2>1, <2>2, <2>4 DEF SetInsert, Stage
  <2>5. CASE SetCommit(p)
    BY <2>1, <2>5 DEF SetCommit, Stage
  <2>6. CASE ~(SetDelete(p) \/ SetInsert(p) \/ SetCommit(p))
    <3>1. stored' = stored
      BY <1>2, <2>6 DEF SetWhitelist, SetSame, SetOpen, SetFails, SetBegin, SetSwap, SetClose, store
    <3> QED BY <2>2, <3>1
  <2> QED BY <2>3, <2>4, <2>5, <2>6
<1>3. ASSUME NEW p \in Caller, SetWhitelist(p) PROVE WholeListStored'
  <2>1. raced' = raced
    BY <1>3 DEF SetWhitelist, SetSame, SetOpen, SetFails, SetDelete, SetBegin, SetInsert, SetCommit,
                SetSwap, SetClose, history
  <2> QED BY <1>2, <1>3, <2>1 DEF WholeListStored
<1>4. CASE WhitelistInit
  BY <1>1, <1>4 DEF WhitelistInit, InitOpen, InitSelect, InsertWhitelist, InitClose, InitEmpty, store, history
<1>5. ASSUME NEW l \in Lists, Request(l) PROVE WholeListStored'
  <2>1. raced' \in {raced, TRUE} /\ stored' = stored
    BY <1>5 DEF Request, StoreType, store
  <2> QED BY <1>1, <2>1
<1>6. CASE PowerLoss
  BY <1>1, <1>6 DEF PowerLoss
<1>7. ASSUME UNCHANGED <<store, whiteList, setting, history>> PROVE WholeListStored'
  BY <1>1, <1>7 DEF store, history
<1> QED BY <1>3, <1>4, <1>5, <1>6, <1>7, WarningSteps DEF Next

\* The inductive invariant of the store.
StoreInv == StoreType /\ SafeInv /\ WholeListStored

LEMMA StoreInit == Init => StoreInv
<1> SUFFICES ASSUME Init PROVE StoreInv
  OBVIOUS
<1>1. WholeListStored
  BY DEF Init, WholeListStored
<1> QED BY <1>1, StoreTypeInit, WantInit, AloneInit, OpenInit, StageInit, KeptInit DEF StoreInv, SafeInv

LEMMA StoreNext == StoreInv /\ [Next]_vars => StoreInv'
<1> SUFFICES ASSUME StoreInv, [Next]_vars PROVE StoreInv'
  OBVIOUS
<1>1. StoreType'
  BY StoreTypeNext DEF StoreInv
<1>2. WantInv' /\ AloneInv' /\ OpenInv'
  BY WantNext, AloneNext, OpenNext DEF StoreInv, SafeInv
<1>3. StageInv' /\ KeptInv' /\ WholeListStored'
  BY StageNext, KeptNext, WholeNext DEF StoreInv
<1> QED BY <1>1, <1>2, <1>3 DEF StoreInv, SafeInv

LEMMA StoreHolds == StoreInv => ConfirmedIsKept /\ ConnectionGivenBack
<1> SUFFICES ASSUME StoreInv PROVE ConfirmedIsKept /\ ConnectionGivenBack
  OBVIOUS
<1>1. ConfirmedIsKept
  BY DEF StoreInv, SafeInv, KeptInv, ConfirmedIsKept
<1>2. ConnectionGivenBack
  <2>1. ASSUME \A p \in Caller : pc[p] = "idle" PROVE db = Closed
    BY <2>1 DEF StoreInv, SafeInv, OpenInv, Using, Writing
  <2> QED BY <2>1 DEF StoreInv, SafeInv, AloneInv, ConnectionGivenBack
<1> QED BY <1>1, <1>2

(* Whatever fails and however often the power does, a list that was        *)
(* written and confirmed once Init was over is kept until the next one.    *)
THEOREM ListKept == Spec => []ConfirmedIsKept
<1>1. StoreInv => ConfirmedIsKept
  BY StoreHolds
<1> QED BY <1>1, StoreInit, StoreNext, PTL DEF Spec

(* No part of a list is ever in the table, as long as no request comes     *)
(* while Init runs.                                                        *)
THEOREM ListWhole == Spec => []WholeListStored
<1>1. StoreInv => WholeListStored
  BY DEF StoreInv
<1> QED BY <1>1, StoreInit, StoreNext, PTL DEF Spec

(* The connection is closed when nobody is at work, and its lock is free   *)
(* as long as no request comes while Init runs.                            *)
THEOREM HandleGivenBack == Spec => []ConnectionGivenBack
<1>1. StoreInv => ConnectionGivenBack
  BY StoreHolds
<1> QED BY <1>1, StoreInit, StoreNext, PTL DEF Spec

-----------------------------------------------------------------------------
(* The types of the detectors and of the queue of HEARTBEAT.               *)

Warning == Detector \X BOOLEAN
CountType == [set : 0 .. MaxSet, power : 0 .. MaxPower, fault : 0 .. MaxFault]

WarnType ==
    /\ seen \in [Detector -> SUBSET Drone] /\ enemy \in [Detector -> BOOLEAN]
    /\ hbQ \in Seq(Warning) /\ \A d \in Detector : Waiting(d) <= MaxQueue
    /\ targets \in [Detector -> BOOLEAN] /\ alarm \in BOOLEAN

\* The places of the warnings of a detector in a queue.
Places(q, d) == {i \in DOMAIN q : q[i][1] = d}

LEMMA PlacesFinite ==
  ASSUME NEW q \in Seq(Warning), NEW d
  PROVE  IsFiniteSet(Places(q, d)) /\ Cardinality(Places(q, d)) \in Nat
<1>1. DOMAIN q = 1 .. Len(q) /\ Len(q) \in Nat
  OBVIOUS
<1>2. IsFiniteSet(1 .. Len(q))
  BY <1>1, FS_Interval
<1>3. IsFiniteSet(Places(q, d))
  BY <1>1, <1>2, FS_Subset DEF Places
<1> QED BY <1>3, FS_CardinalityType

\* A warning of k that is added counts for k only.
LEMMA PlacesAppend ==
  ASSUME NEW q \in Seq(Warning), NEW k \in Detector, NEW b \in BOOLEAN, NEW d \in Detector
  PROVE  Cardinality(Places(Append(q, <<k, b>>), d)) <= Cardinality(Places(q, d)) + (IF k = d THEN 1 ELSE 0)
<1> DEFINE r == Append(q, <<k, b>>)
<1>1. /\ DOMAIN r = 1 .. Len(q) + 1 /\ Len(q) \in Nat /\ DOMAIN q = 1 .. Len(q)
      /\ r[Len(q) + 1] = <<k, b>> /\ \A i \in 1 .. Len(q) : r[i] = q[i]
  BY DEF Warning
<1>2. CASE k = d
  <2>1. Places(r, d) = Places(q, d) \cup {Len(q) + 1}
    BY <1>1, <1>2 DEF Places
  <2>2. IsFiniteSet(Places(q, d)) /\ Cardinality(Places(q, d)) \in Nat
    BY PlacesFinite
  <2>3. Cardinality(Places(q, d) \cup {Len(q) + 1}) \in {Cardinality(Places(q, d)), Cardinality(Places(q, d)) + 1}
    BY <2>2, FS_AddElement
  <2> HIDE DEF r
  <2>4. Cardinality(Places(r, d)) \in {Cardinality(Places(q, d)), Cardinality(Places(q, d)) + 1}
    BY <2>1, <2>3
  <2>5. Cardinality(Places(r, d)) <= Cardinality(Places(q, d)) + 1
    BY <2>2, <2>4
  <2> QED BY <1>2, <2>5 DEF r
<1>3. CASE k # d
  <2>1. Places(r, d) = Places(q, d)
    BY <1>1, <1>3 DEF Places
  <2> QED BY <1>3, <2>1, PlacesFinite
<1> QED BY <1>2, <1>3

\* Taking the first warning leaves no more of any detector.
LEMMA PlacesTail ==
  ASSUME NEW q \in Seq(Warning), q # <<>>, NEW d
  PROVE  Cardinality(Places(Tail(q), d)) <= Cardinality(Places(q, d))
<1> DEFINE f == [i \in Places(Tail(q), d) |-> i + 1]
<1>1. /\ Len(q) \in Nat /\ DOMAIN Tail(q) = 1 .. Len(q) - 1 /\ DOMAIN q = 1 .. Len(q)
      /\ \A i \in 1 .. Len(q) - 1 : Tail(q)[i] = q[i + 1]
  OBVIOUS
<1>2. \A i \in Places(Tail(q), d) : i \in Nat /\ i + 1 \in Places(q, d)
  BY <1>1 DEF Places
<1>3. f \in Injection(Places(Tail(q), d), Places(q, d))
  BY <1>2 DEF Injection, IsInjective
<1> HIDE DEF f
<1> QED BY <1>3, PlacesFinite, FS_Injection

LEMMA WarnInit == Init => WarnType
<1> SUFFICES ASSUME Init PROVE WarnType
  OBVIOUS
<1>1. hbQ = <<>> /\ hbQ \in Seq(Warning)
  BY DEF Init
<1>2. \A d \in Detector : Waiting(d) <= MaxQueue
  <2>1. \A d \in Detector : {i \in DOMAIN hbQ : hbQ[i][1] = d} = {}
    BY <1>1
  <2> QED BY <2>1, FS_EmptySet, WhitelistAssumption DEF Waiting
<1> QED BY <1>1, <1>2 DEF Init, WarnType

\* The queue grows within its bound and shrinks.
LEMMA WarnNext == ASSUME WarnType, [Next]_vars PROVE WarnType'
<1>1. ASSUME UNCHANGED warning PROVE WarnType'
  BY <1>1 DEF WarnType, Waiting, warning
<1>2. ASSUME NEW d \in Detector, Detect(d) PROVE WarnType'
  BY <1>2 DEF Detect, WarnType, Waiting
<1>3. ASSUME NEW k \in Detector, TargetWarningProcWhitelist(k) PROVE WarnType'
  <2>1. PICK b \in BOOLEAN : /\ enemy' = [enemy EXCEPT ![k] = b] /\ hbQ' = Append(hbQ, <<k, b>>)
                            /\ Waiting(k) < MaxQueue /\ UNCHANGED <<seen, targets, alarm>>
    BY <1>3 DEF TargetWarningProcWhitelist
  <2>2. hbQ \in Seq(Warning) /\ hbQ' \in Seq(Warning)
    BY <2>1 DEF WarnType, Warning
  <2>3. ASSUME NEW d \in Detector PROVE Waiting(d)' <= MaxQueue
    <3>1. Waiting(d) = Cardinality(Places(hbQ, d)) /\ Waiting(d)' = Cardinality(Places(hbQ', d))
      BY DEF Waiting, Places
    <3>2. Waiting(d)' <= Waiting(d) + (IF k = d THEN 1 ELSE 0)
      BY <2>1, <2>2, <3>1, PlacesAppend
    <3>3. Waiting(d) \in Nat /\ Waiting(d)' \in Nat /\ Waiting(d) <= MaxQueue
      BY <2>2, <3>1, PlacesFinite DEF WarnType
    <3>4. k = d => Waiting(d) < MaxQueue
      BY <2>1
    <3> HIDE DEF Waiting
    <3> QED BY <3>2, <3>3, <3>4, WhitelistAssumption
  <2> QED BY <2>1, <2>2, <2>3 DEF WarnType
<1>4. CASE TargetAppear
  <2>1. hbQ \in Seq(Warning) /\ hbQ # <<>> /\ hbQ' = Tail(hbQ) /\ UNCHANGED <<seen, enemy>>
    BY <1>4 DEF TargetAppear, WarnType
  <2>2. hbQ' \in Seq(Warning) /\ Head(hbQ) \in Warning
    BY <2>1
  <2>3. ASSUME NEW d \in Detector PROVE Waiting(d)' <= MaxQueue
    <3>1. Waiting(d) = Cardinality(Places(hbQ, d)) /\ Waiting(d)' = Cardinality(Places(hbQ', d))
      BY DEF Waiting, Places
    <3>2. Waiting(d)' <= Waiting(d)
      BY <2>1, <3>1, PlacesTail
    <3>3. Waiting(d) \in Nat /\ Waiting(d)' \in Nat /\ Waiting(d) <= MaxQueue
      BY <2>1, <2>2, <3>1, PlacesFinite DEF WarnType
    <3> QED BY <3>2, <3>3, WhitelistAssumption
  <2>4. targets' \in [Detector -> BOOLEAN]
    BY <1>4, <2>2 DEF TargetAppear, WarnType, Warning
  <2>5. alarm' \in BOOLEAN
    BY <1>4 DEF TargetAppear, WarnType
  <2> QED BY <2>1, <2>2, <2>3, <2>4, <2>5 DEF WarnType
<1>5. CASE PowerLoss
  <2>1. hbQ' = <<>> /\ hbQ' \in Seq(Warning)
    BY <1>5 DEF PowerLoss, PowerOn
  <2>2. ASSUME NEW d \in Detector PROVE Waiting(d)' <= MaxQueue
    <3>1. {i \in DOMAIN hbQ' : hbQ'[i][1] = d} = {}
      BY <2>1
    <3> QED BY <3>1, FS_EmptySet, WhitelistAssumption DEF Waiting
  <2> QED BY <1>5, <2>1, <2>2 DEF PowerLoss, PowerOn, WarnType
<1>6. CASE WhitelistInit \/ UNCHANGED vars \/ \E l \in Lists : Request(l)
  BY <1>1, <1>6 DEF WhitelistInit, InitOpen, InitSelect, InsertWhitelist, InitClose, InitEmpty,
                    Request, vars
<1>7. ASSUME NEW p \in Caller, SetWhitelist(p) PROVE WarnType'
  BY <1>1, <1>7 DEF SetWhitelist, SetSame, SetOpen, SetFails, SetDelete, SetBegin, SetInsert, SetCommit,
                    SetSwap, SetClose
<1> QED BY <1>2, <1>3, <1>4, <1>5, <1>6, <1>7 DEF Next

LEMMA CountsNext == ASSUME counts \in CountType, [Next]_vars PROVE counts' \in CountType
<1>1. CASE WhitelistInit
  BY <1>1, WhitelistAssumption DEF WhitelistInit, InitOpen, InitSelect, InsertWhitelist, InitClose,
                                   InitEmpty, CountType
<1>2. ASSUME NEW l \in Lists, Request(l) PROVE counts' \in CountType
  BY <1>2, WhitelistAssumption DEF Request, CountType
<1>3. ASSUME NEW p \in Caller, SetWhitelist(p) PROVE counts' \in CountType
  <2>1. counts' \in {counts, [counts EXCEPT !.fault = @ + 1]}
        /\ (counts' # counts => counts.fault < MaxFault)
    <3>1. CASE SetFails(p)
      BY <3>1 DEF SetFails
    <3>2. CASE ~SetFails(p)
      BY <1>3, <3>2 DEF SetWhitelist, SetSame, SetOpen, SetDelete, SetBegin, SetInsert, SetCommit,
                        SetSwap, SetClose
    <3> QED BY <3>1, <3>2
  <2> QED BY <2>1, WhitelistAssumption DEF CountType
<1>4. CASE PowerLoss
  BY <1>4, WhitelistAssumption DEF PowerLoss, CountType
<1>5. CASE UNCHANGED counts
  BY <1>5
<1> QED BY <1>1, <1>2, <1>3, <1>4, <1>5
        DEF Next, Detect, TargetWarningProcWhitelist, TargetAppear, vars

LEMMA TypesTogether == TypeOK <=> StoreType /\ WarnType /\ counts \in CountType
BY DEF TypeOK, StoreType, WarnType, CountType, Warning, Initing, Writing

(* Types hold for any lists, drones, detectors and bounds.                 *)
THEOREM TypeCorrect == Spec => []TypeOK
<1>1. Init => TypeOK
  <2>1. Init => counts \in CountType
    BY WhitelistAssumption DEF Init, CountType
  <2> QED BY <2>1, StoreTypeInit, WarnInit, TypesTogether
<1>2. TypeOK /\ [Next]_vars => TypeOK'
  <2> SUFFICES ASSUME TypeOK, [Next]_vars PROVE TypeOK'
    OBVIOUS
  <2>1. StoreType' /\ WarnType' /\ (counts \in CountType)'
    BY StoreTypeNext, WarnNext, CountsNext, TypesTogether
  <2> QED BY <2>1 DEF TypeOK, StoreType, WarnType, CountType, Warning, Initing, Writing
<1> QED BY <1>1, <1>2, PTL DEF Spec

-----------------------------------------------------------------------------
(* What the warnings say.                                                  *)

\* The last warning of d in q, or what is known of d when there is none, is b.
Tells(q, known, d, b) ==
    \/ \E k \in 1 .. Len(q) : /\ q[k] = <<d, b>>
                              /\ \A j \in k + 1 .. Len(q) : q[j][1] # d
    \/ (\A j \in 1 .. Len(q) : q[j][1] # d) /\ known = b

AlarmInv ==
    /\ alarm <=> \E d \in Detector : targets[d]
    /\ \A d \in Detector : Tells(hbQ, targets[d], d, enemy[d])

\* No warning is on its way, and no detector has a change to report.
CaughtUp == hbQ = <<>> /\ \A d \in Detector : enemy[d] = Threat(d)

AlarmFollowsThreat == CaughtUp => (alarm <=> \E d \in Detector : Threat(d))

\* A warning that is added is the last of its detector.
LEMMA TellsAppend ==
  ASSUME NEW q \in Seq(Warning), NEW b \in BOOLEAN, NEW k \in Detector, NEW t
  PROVE  Tells(Append(q, <<k, b>>), t, k, b)
<1> DEFINE a == Append(q, <<k, b>>)
           l == Len(q) + 1
<1>1. Len(q) \in Nat /\ Len(a) = l /\ a[l] = <<k, b>>
  BY DEF Warning
<1>2. l \in 1 .. Len(a) /\ l + 1 .. Len(a) = {}
  BY <1>1
<1> HIDE DEF a, l
<1> QED BY <1>1, <1>2 DEF Tells, a

\* It changes nothing for the others.
LEMMA TellsAppendOther ==
  ASSUME NEW q \in Seq(Warning), NEW b \in BOOLEAN, NEW k \in Detector,
         NEW d \in Detector, k # d, NEW t, NEW c, Tells(q, t, d, c)
  PROVE  Tells(Append(q, <<k, b>>), t, d, c)
<1> DEFINE a == Append(q, <<k, b>>)
<1>1. /\ Len(q) \in Nat /\ Len(a) = Len(q) + 1 /\ a[Len(q) + 1] = <<k, b>>
      /\ \A i \in 1 .. Len(q) : a[i] = q[i]
  BY DEF Warning
<1>2. a[Len(q) + 1][1] # d
  BY <1>1
<1> HIDE DEF a
<1>3. CASE (\A j \in 1 .. Len(q) : q[j][1] # d) /\ t = c
  <2>1. ASSUME NEW j \in 1 .. Len(a) PROVE a[j][1] # d
    <3>1. j \in 1 .. Len(q) \/ j = Len(q) + 1
      BY <1>1
    <3> QED BY <1>1, <1>2, <1>3, <3>1
  <2> QED BY <1>3, <2>1 DEF Tells, a
<1>4. CASE \E i \in 1 .. Len(q) : q[i] = <<d, c>> /\ \A j \in i + 1 .. Len(q) : q[j][1] # d
  <2>1. PICK i \in 1 .. Len(q) : q[i] = <<d, c>> /\ \A j \in i + 1 .. Len(q) : q[j][1] # d
    BY <1>4
  <2>2. i \in 1 .. Len(a) /\ a[i] = <<d, c>>
    <3>1. i \in 1 .. Len(a)
      BY <1>1
    <3> QED BY <1>1, <2>1, <3>1
  <2>3. ASSUME NEW j \in i + 1 .. Len(a) PROVE a[j][1] # d
    <3>1. (j \in i + 1 .. Len(q) /\ j \in 1 .. Len(q)) \/ j = Len(q) + 1
      BY <1>1
    <3> QED BY <1>1, <1>2, <2>1, <3>1
  <2> QED BY <2>2, <2>3 DEF Tells, a
<1> QED BY <1>3, <1>4 DEF Tells

\* The first warning becomes what is known of its detector.
LEMMA TellsTail ==
  ASSUME NEW q \in Seq(Warning), q # <<>>, NEW d \in Detector, NEW t, NEW c, Tells(q, t, d, c)
  PROVE  Tells(Tail(q), IF Head(q)[1] = d THEN Head(q)[2] ELSE t, d, c)
<1> DEFINE a == Tail(q)
           u == IF Head(q)[1] = d THEN Head(q)[2] ELSE t
<1>1. /\ Len(q) \in Nat /\ Len(q) > 0 /\ Len(a) = Len(q) - 1 /\ Head(q) = q[1]
      /\ \A i \in 1 .. Len(a) : a[i] = q[i + 1]
  OBVIOUS
<1> HIDE DEF a
<1>2. CASE (\A j \in 1 .. Len(q) : q[j][1] # d) /\ t = c
  <2>1. ASSUME NEW j \in 1 .. Len(a) PROVE a[j][1] # d
    <3>1. j + 1 \in 1 .. Len(q)
      BY <1>1
    <3> QED BY <1>1, <1>2, <3>1
  <2>2. 1 \in 1 .. Len(q)
    BY <1>1
  <2>3. u = c
    BY <1>1, <1>2, <2>2
  <2> QED BY <2>1, <2>3 DEF Tells, a
<1>3. CASE \E i \in 1 .. Len(q) : q[i] = <<d, c>> /\ \A j \in i + 1 .. Len(q) : q[j][1] # d
  <2>1. PICK i \in 1 .. Len(q) : q[i] = <<d, c>> /\ \A j \in i + 1 .. Len(q) : q[j][1] # d
    BY <1>3
  <2>2. ASSUME NEW j \in 1 .. Len(a), j >= i PROVE a[j][1] # d
    <3>1. j + 1 \in i + 1 .. Len(q)
      BY <1>1, <2>2
    <3> QED BY <1>1, <2>1, <3>1
  <2>3. CASE i = 1
    <3>1. u = c
      BY <1>1, <2>1, <2>3
    <3>2. \A j \in 1 .. Len(a) : a[j][1] # d
      BY <2>2, <2>3
    <3> QED BY <3>1, <3>2 DEF Tells, a
  <2>4. CASE i # 1
    <3>1. i - 1 \in 1 .. Len(a) /\ (i - 1) + 1 = i
      BY <1>1, <2>4
    <3>2. a[i - 1] = <<d, c>>
      BY <1>1, <2>1, <3>1
    <3>3. ASSUME NEW j \in (i - 1) + 1 .. Len(a) PROVE a[j][1] # d
      <4>1. j \in 1 .. Len(a) /\ j >= i
        BY <1>1, <3>1
      <4> QED BY <2>2, <4>1
    <3> QED BY <3>1, <3>2, <3>3 DEF Tells, a
  <2> QED BY <2>3, <2>4
<1> QED BY <1>2, <1>3 DEF Tells

LEMMA AlarmReset ==
  ASSUME hbQ = <<>>, enemy = [d \in Detector |-> FALSE],
         targets = [d \in Detector |-> FALSE], alarm = FALSE
  PROVE  AlarmInv
<1>1. Len(hbQ) = 0 /\ 1 .. Len(hbQ) = {}
  OBVIOUS
<1> QED BY <1>1 DEF AlarmInv, Tells

LEMMA AlarmNext == ASSUME WarnType, AlarmInv, [Next]_vars PROVE AlarmInv'
<1>1. ASSUME UNCHANGED <<enemy, hbQ, targets, alarm>> PROVE AlarmInv'
  BY <1>1 DEF AlarmInv
<1>2. ASSUME NEW d \in Detector, Detect(d) PROVE AlarmInv'
  BY <1>1, <1>2 DEF Detect
<1>3. ASSUME NEW k \in Detector, TargetWarningProcWhitelist(k) PROVE AlarmInv'
  <2>1. PICK b \in BOOLEAN : /\ enemy' = [enemy EXCEPT ![k] = b] /\ hbQ' = Append(hbQ, <<k, b>>)
                            /\ UNCHANGED <<targets, alarm>>
    BY <1>3 DEF TargetWarningProcWhitelist
  <2>2. hbQ \in Seq(Warning) /\ enemy \in [Detector -> BOOLEAN]
    BY DEF WarnType
  <2>3. ASSUME NEW d \in Detector PROVE Tells(hbQ', targets'[d], d, enemy'[d])
    <3>1. CASE d = k
      <4>1. enemy'[d] = b
        BY <2>1, <2>2, <3>1
      <4>2. Tells(Append(hbQ, <<k, b>>), targets[d], k, b)
        BY <2>2, TellsAppend
      <4> QED BY <2>1, <3>1, <4>1, <4>2
    <3>2. CASE d # k
      <4>1. enemy'[d] = enemy[d]
        BY <2>1, <2>2, <3>2
      <4>2. Tells(hbQ, targets[d], d, enemy[d])
        BY DEF AlarmInv
      <4>3. Tells(Append(hbQ, <<k, b>>), targets[d], d, enemy[d])
        BY <2>2, <3>2, <4>2, TellsAppendOther
      <4> QED BY <2>1, <4>1, <4>3
    <3> QED BY <3>1, <3>2
  <2> QED BY <2>1, <2>3 DEF AlarmInv
<1>4. CASE TargetAppear
  <2>1. /\ hbQ # <<>> /\ hbQ' = Tail(hbQ) /\ UNCHANGED enemy
        /\ targets' = [targets EXCEPT ![Head(hbQ)[1]] = Head(hbQ)[2]]
    BY <1>4 DEF TargetAppear
  <2>2. hbQ \in Seq(Warning) /\ targets \in [Detector -> BOOLEAN]
    BY DEF WarnType
  <2>3. ASSUME NEW d \in Detector PROVE Tells(hbQ', targets'[d], d, enemy'[d])
    <3>1. Tells(hbQ, targets[d], d, enemy[d])
      BY DEF AlarmInv
    <3>2. targets'[d] = IF Head(hbQ)[1] = d THEN Head(hbQ)[2] ELSE targets[d]
      BY <2>1, <2>2
    <3>3. Tells(Tail(hbQ), IF Head(hbQ)[1] = d THEN Head(hbQ)[2] ELSE targets[d], d, enemy[d])
      BY <2>1, <2>2, <3>1, TellsTail
    <3> QED BY <2>1, <3>2, <3>3
  <2>4. (alarm <=> \E d \in Detector : targets[d])'
    BY <1>4 DEF TargetAppear, AlarmInv, WarnType
  <2> QED BY <2>3, <2>4 DEF AlarmInv
<1>5. CASE PowerLoss
  <2>1. /\ hbQ' = <<>> /\ enemy' = [d \in Detector |-> FALSE]
        /\ targets' = [d \in Detector |-> FALSE] /\ alarm' = FALSE
    BY <1>5 DEF PowerLoss, PowerOn
  <2>2. Len(hbQ') = 0 /\ 1 .. Len(hbQ') = {}
    BY <2>1
  <2> QED BY <2>1, <2>2 DEF AlarmInv, Tells
<1>6. CASE WhitelistInit \/ UNCHANGED vars \/ \E l \in Lists : Request(l)
  BY <1>1, <1>6 DEF WhitelistInit, InitOpen, InitSelect, InsertWhitelist, InitClose, InitEmpty,
                    Request, vars, warning
<1>7. ASSUME NEW p \in Caller, SetWhitelist(p) PROVE AlarmInv'
  BY <1>1, <1>7 DEF SetWhitelist, SetSame, SetOpen, SetFails, SetDelete, SetBegin, SetInsert, SetCommit,
                    SetSwap, SetClose, warning
<1> QED BY <1>2, <1>3, <1>4, <1>5, <1>6, <1>7 DEF Next

(* Once every warning was taken and every detector has judged its table by *)
(* the list as it is, the alarm is on exactly when some detector sees a    *)
(* drone that is not on it: no warning is lost or undone by one of another *)
(* detector.  This is what AlarmIsRight needs besides fairness.            *)
THEOREM AlarmTheorem == Spec => []AlarmFollowsThreat
<1> DEFINE Inv == WarnType /\ AlarmInv
<1>1. Init => Inv
  <2> SUFFICES ASSUME Init PROVE Inv
    OBVIOUS
  <2>1. AlarmInv
    BY AlarmReset DEF Init
  <2> QED BY <2>1, WarnInit
<1>2. Inv /\ [Next]_vars => Inv'
  BY WarnNext, AlarmNext
<1>3. Inv => AlarmFollowsThreat
  <2> SUFFICES ASSUME AlarmInv, CaughtUp PROVE alarm <=> \E d \in Detector : Threat(d)
    BY DEF AlarmFollowsThreat
  <2>1. 1 .. Len(hbQ) = {}
    BY DEF CaughtUp
  <2>2. ASSUME NEW d \in Detector PROVE targets[d] = Threat(d)
    BY <2>1 DEF AlarmInv, Tells, CaughtUp
  <2> QED BY <2>2 DEF AlarmInv
<1> QED BY <1>1, <1>2, <1>3, PTL DEF Spec
=============================================================================
