------------------------------ MODULE UserSync ------------------------------
(***************************************************************************)
(* Synchronisation of the registered persons of an access terminal with    *)
(* its TCP back end (protocols 1 and 4).                                   *)
(*                                                                         *)
(* Five threads share this state:                                          *)
(*   Main   the Qt event loop that runs, one at a time and in posting      *)
(*          order, the slots of UserIdRequest and FaceManager;             *)
(*   Req    UserIdRequest::run, which asks for one person after another;   *)
(*   Deal   ServerDataDeal::run, which handles commands of the back end;   *)
(*   Face   FaceManager::run, which recognises faces frame by frame;       *)
(*   Tcp    the connection thread, which posts answers to Main, pushes     *)
(*          commands to Deal's list and uploads the failure records.       *)
(*                                                                         *)
(* A person's version stands for the back end's updateDate, 0 for "none".  *)
(* An answer on its way to the terminal and an answer already posted to    *)
(* Main are both in mainQ: TCP and the event queue keep the same order,    *)
(* and an answer lost with its connection is a request never answered.     *)
(* The authorisation and card tables, which the same slots write and no    *)
(* step below reads, are left out.                                         *)
(* Calls of the face algorithm, which Main and Face pass one structure     *)
(* with nothing but m_sync between them, are taken as never overlapping.   *)
(***************************************************************************)
EXTENDS Naturals, Sequences

CONSTANTS
    Users,         \* person ids the back end may hand out
    NoUser,        \* an int that is no person's id (an uninitialised m_curFaceId)
    MaxClock,      \* bound: changes the back end makes to its persons
    MaxLogins,     \* bound: logins of the terminal in one life of the process
    MaxRestarts,   \* bound: crashes of the process
    TimeoutTicks   \* 20 * m_tcpTimeout, in turns of UserIdRequest::run

ASSUME ConstantsAssumption ==
    /\ NoUser \notin Users
    /\ MaxClock \in Nat
    /\ MaxLogins \in Nat
    /\ MaxRestarts \in Nat
    /\ TimeoutTicks \in Nat

VARIABLES
    \* the back end and the connection
    server,               \* version of each person at the back end
    clock,                \* number of changes made so far
    missed,               \* history: ids deleted there whose removal was refused or lost on its way
    requests,             \* requests sent and not yet answered, oldest first
    session,              \* the socket is connected and logged in
    logins, restarts,     \* counters for the bounds
    \* on disk
    userdata,             \* table userdata: edittime of each person's row
    insertFail,           \* table insertFail: ids with a failure record
    regInfo,              \* ids whose face is in the algorithm's files
    \* in memory
    library,              \* ids whose face the algorithm would recognise
    m_localFaceSet, m_localFaceFail,
    m_updateFace, m_startFaceDownload, m_faceSyncStatus, m_curFaceId,
    count, reqPc,
    m_sync, m_netStatus,
    mainQ, mainPc, mainId, mainVer, purge,
    packets, dealPc, dealId,
    uploadDue, uploadPc

backVars  == <<server, clock, missed>>
linkVars  == <<session, logins>>
rowVars   == <<userdata, m_localFaceSet>>
failVars  == <<insertFail, m_localFaceFail>>
algoVars  == <<library, regInfo>>
wantVars  == <<m_updateFace, m_startFaceDownload, m_faceSyncStatus>>
loopVars  == <<m_curFaceId, count, reqPc>>
workVars  == <<mainPc, mainId, mainVer, purge>>
dealVars  == <<packets, dealPc, dealId>>
upVars    == <<uploadDue, uploadPc>>

vars == <<backVars, linkVars, requests, restarts, rowVars, failVars, algoVars,
          wantVars, loopVars, m_sync, m_netStatus, mainQ, workVars, dealVars,
          upVars>>

-----------------------------------------------------------------------------
(* Messages and commands                                                   *)

Versions == 0..MaxClock
Ids      == Users \cup {NoUser}

\* requests of the terminal: all ids, one person, all card numbers
Request == [kind : {"allIds", "allIc"}, id : {NoUser}] \cup [kind : {"user"}, id : Ids]

AskAll    == [kind |-> "allIds", id |-> NoUser]
AskIc     == [kind |-> "allIc", id |-> NoUser]
AskFor(u) == [kind |-> "user", id |-> u]

\* events in the queue of Main; a person of version 0 is an empty answer
Event ==
    [kind : {"allIds"}, list : [Users -> Versions]]
      \cup [kind : {"user"}, id : Users, ver : Versions]
      \cup [kind : {"user"}, id : {NoUser}, ver : {0}]
      \cup [kind : {"newUsers"}, ids : SUBSET Users]
      \cup [kind : {"remove"}, id : Users]
      \cup [kind : {"allIc"}]

\* commands of the back end: UserData with operater 1, 2 or 3, and Bind
Packet == [op : {"add", "edit", "delete"}, id : Users] \cup [op : {"bind"}, id : {NoUser}]

MainPcs == {"idle", "purge", "purgeRow", "clear", "cleared", "enrol", "insert"}
ReqPcs  == {"top", "abort", "pick", "sleep", "fin", "tick"}
DealPcs == {"idle", "remove", "delRow", "delEnd"}

TypeOK ==
    /\ server \in [Users -> Versions]
    /\ clock \in 0..MaxClock
    /\ missed \subseteq Users
    /\ requests \in Seq(Request)
    /\ session \in BOOLEAN
    /\ logins \in 0..MaxLogins
    /\ restarts \in 0..MaxRestarts
    /\ userdata \in [Users -> Versions]
    /\ insertFail \subseteq Ids
    /\ regInfo \subseteq Users
    /\ library \subseteq Users
    /\ m_localFaceSet \subseteq Users
    /\ m_localFaceFail \subseteq Ids
    /\ m_updateFace \subseteq Users
    /\ m_startFaceDownload \in BOOLEAN
    /\ m_faceSyncStatus \in BOOLEAN
    /\ m_curFaceId \in Ids
    /\ count \in 0..TimeoutTicks
    /\ reqPc \in ReqPcs
    /\ m_sync \in BOOLEAN
    /\ m_netStatus \in BOOLEAN
    /\ mainQ \in Seq(Event)
    /\ mainPc \in MainPcs
    /\ mainId \in Ids
    /\ mainPc \in {"enrol", "insert", "purgeRow"} => mainId \in Users
    /\ mainVer \in Versions
    /\ purge \subseteq Users
    /\ packets \in Seq(Packet)
    /\ dealPc \in DealPcs
    /\ dealId \in Ids
    /\ uploadDue \in BOOLEAN
    /\ uploadPc \in {"idle", "clear"}

Rows == {u \in Users : userdata[u] # 0}

Init ==
    /\ server = [u \in Users |-> 0] /\ clock = 0 /\ missed = {}
    /\ requests = <<>> /\ session = FALSE /\ logins = 0 /\ restarts = 0
    /\ userdata = [u \in Users |-> 0] /\ insertFail = {} /\ regInfo = {}
    /\ library = {} /\ m_localFaceSet = {} /\ m_localFaceFail = {}
    /\ m_updateFace = {} /\ m_startFaceDownload = FALSE /\ m_faceSyncStatus = FALSE
    /\ m_curFaceId = NoUser /\ count = 0 /\ reqPc = "top"
    /\ m_sync = FALSE /\ m_netStatus = FALSE
    /\ mainQ = <<>> /\ mainPc = "idle" /\ mainId = NoUser /\ mainVer = 0 /\ purge = {}
    /\ packets = <<>> /\ dealPc = "idle" /\ dealId = NoUser
    /\ uploadDue = FALSE /\ uploadPc = "idle"

-----------------------------------------------------------------------------
(* The tables and their caches; each operation holds SqlDatabase::m_mutex. *)

\* Mutant: the new id is not added to the cache.
sqlInsertOnly(u, ver) ==
    /\ userdata' = [userdata EXCEPT ![u] = IF @ = 0 THEN ver ELSE @]
    /\ UNCHANGED m_localFaceSet

\* An insert whose id is already in the table fails, the cache is updated all the same.
sqlInsert(u, ver) ==
    /\ userdata' = [userdata EXCEPT ![u] = IF @ = 0 THEN ver ELSE @]
    /\ m_localFaceSet' = m_localFaceSet \cup {u}

sqlUpdate(u, ver) ==
    /\ userdata' = [userdata EXCEPT ![u] = IF @ = 0 THEN 0 ELSE ver]
    /\ UNCHANGED m_localFaceSet

sqlDelete(u) ==
    /\ userdata' = [userdata EXCEPT ![u] = 0]
    /\ m_localFaceSet' = m_localFaceSet \ {u}

\* Also removes the algorithm's files, not the faces it holds in memory.
sqlDeleteAll ==
    /\ userdata' = [u \in Users |-> 0]
    /\ m_localFaceSet' = {}
    /\ regInfo' = {}

sqlInsertFail(u) ==
    /\ insertFail' = insertFail \cup {u}
    /\ m_localFaceFail' = m_localFaceFail \cup {u}

sqlDeleteFail(u) ==
    /\ insertFail' = insertFail \ {u}
    /\ m_localFaceFail' = m_localFaceFail \ {u}

sqlDeleteAllFail ==
    /\ insertFail' = {}
    /\ m_localFaceFail' = {}

\* The algorithm forgets a face, in memory and on disk.
removeFace(u) ==
    /\ library' = library \ {u}
    /\ regInfo' = regInfo \ {u}

Send(r) == requests' = IF session THEN Append(requests, r) ELSE requests

-----------------------------------------------------------------------------
(* The back end and the connection (outside the terminal)                  *)

Push(op, u) ==
    packets' = IF session THEN Append(packets, [op |-> op, id |-> u]) ELSE packets

envUnchanged ==
    UNCHANGED <<rowVars, failVars, algoVars, wantVars, loopVars, m_sync, workVars,
                dealPc, dealId, upVars, restarts>>

ServerSave(u) ==
    /\ clock < MaxClock
    /\ clock' = clock + 1
    /\ server' = [server EXCEPT ![u] = clock + 1]
    /\ missed' = missed \ {u}
    /\ Push(IF server[u] = 0 THEN "add" ELSE "edit", u)
    /\ envUnchanged
    /\ UNCHANGED <<requests, linkVars, m_netStatus, mainQ>>

ServerDelete(u) ==
    /\ clock < MaxClock
    /\ server[u] # 0
    /\ clock' = clock + 1
    /\ server' = [server EXCEPT ![u] = 0]
    /\ Push("delete", u)
    /\ envUnchanged
    /\ UNCHANGED <<missed, requests, linkVars, m_netStatus, mainQ>>

ServerBind ==
    /\ clock < MaxClock
    /\ clock' = clock + 1
    /\ Push("bind", NoUser)
    /\ envUnchanged
    /\ UNCHANGED <<server, missed, requests, linkVars, m_netStatus, mainQ>>

AnswerTo(r) ==
    IF r.kind = "allIds" THEN [kind |-> "allIds", list |-> server]
    ELSE IF r.kind = "allIc" THEN [kind |-> "allIc"]
    ELSE [kind |-> "user", id |-> r.id, ver |-> IF r.id \in Users THEN server[r.id] ELSE 0]

\* A list that is parsed reaches Main: whoever it does not name is removed.
Forget == missed' = IF Head(requests) = AskAll THEN {} ELSE missed

\* Mutant: an answer overtakes those Main has not handled.
ServerAnswerFirst ==
    /\ requests # <<>>
    /\ mainQ' = <<AnswerTo(Head(requests))>> \o mainQ
    /\ requests' = Tail(requests)
    /\ Forget
    /\ envUnchanged
    /\ UNCHANGED <<server, clock, linkVars, m_netStatus, packets>>

ServerAnswer ==
    /\ requests # <<>>
    /\ mainQ' = Append(mainQ, AnswerTo(Head(requests)))
    /\ requests' = Tail(requests)
    /\ Forget
    /\ envUnchanged
    /\ UNCHANGED <<server, clock, linkVars, m_netStatus, packets>>

\* A request stays without an answer, or the answer's result is not 200 or (for the list) its
\* messageId not 3: it is dropped, and nothing asks again on this connection.
ServerIgnore ==
    /\ requests # <<>>
    /\ requests' = Tail(requests)
    /\ missed' = IF Head(requests) = AskAll THEN missed \cup {u \in Users : server[u] = 0}
                 ELSE missed
    /\ envUnchanged
    /\ UNCHANGED <<server, clock, linkVars, m_netStatus, mainQ, packets>>

\* A command is lost though the connection lives: cut up by the parser (Framing), or overwritten
\* in the list of commands (CommandList).
CommandLost ==
    LET lost == Head(packets) IN
    /\ packets # <<>>
    /\ packets' = Tail(packets)
    /\ missed' = missed \cup {u \in Users : server[u] = 0 /\ lost = [op |-> "delete", id |-> u]}
    /\ envUnchanged
    /\ UNCHANGED <<server, clock, linkVars, m_netStatus, mainQ, requests>>

\* TcpClient::pareLogin on a new socket.
Login ==
    /\ ~session
    /\ logins < MaxLogins
    /\ logins' = logins + 1
    /\ session' = TRUE
    /\ m_netStatus' = TRUE
    /\ requests' = <<AskAll>>
    /\ envUnchanged
    /\ UNCHANGED <<backVars, mainQ, packets>>

\* The connection breaks: what is sent from now on, either way, is lost.
Break ==
    /\ session
    /\ session' = FALSE
    /\ requests' = <<>>
    /\ envUnchanged
    /\ UNCHANGED <<backVars, logins, m_netStatus, mainQ, packets>>

\* TcpClient::ConnectHost fails, or NetManager finds no link (the socket may survive that).
NetLost ==
    /\ m_netStatus
    /\ m_netStatus' = FALSE
    /\ envUnchanged
    /\ UNCHANGED <<backVars, linkVars, requests, mainQ, packets>>

-----------------------------------------------------------------------------
(* UserIdRequest::run                                                      *)

reqUnchanged ==
    UNCHANGED <<backVars, linkVars, restarts, rowVars, algoVars, m_netStatus, mainQ,
                workVars, dealVars, upVars>>

\* One turn reads the flags and the size of m_updateFace, then acts on what it read.
ReqTop ==
    /\ reqPc = "top"
    /\ m_startFaceDownload
    /\ \/ /\ ~m_netStatus
          /\ reqPc' = "abort"
          /\ m_sync' = FALSE
          /\ UNCHANGED requests
       \/ /\ m_netStatus
          /\ m_updateFace = {}
          /\ reqPc' = "sleep"
          /\ Send(AskIc)
          /\ UNCHANGED m_sync
       \/ /\ m_netStatus
          /\ m_updateFace # {}
          /\ reqPc' = IF m_faceSyncStatus THEN "pick" ELSE "tick"
          /\ UNCHANGED <<requests, m_sync>>
    /\ reqUnchanged
    /\ UNCHANGED <<failVars, wantVars, m_curFaceId, count>>

ReqAbort ==
    /\ reqPc = "abort"
    /\ reqPc' = "top"
    /\ m_startFaceDownload' = FALSE
    /\ m_updateFace' = {}
    /\ reqUnchanged
    /\ UNCHANGED <<requests, failVars, m_faceSyncStatus, m_curFaceId, count, m_sync>>

\* *m_updateFace.begin() of a set a slot of Main has emptied meanwhile is no person's id.
ReqPick ==
    /\ reqPc = "pick"
    /\ reqPc' = "tick"
    /\ m_sync' = TRUE
    /\ count' = 0
    /\ m_faceSyncStatus' = FALSE
    /\ \E u \in IF m_updateFace = {} THEN {NoUser} ELSE m_updateFace :
         /\ m_curFaceId' = u
         /\ m_updateFace' = m_updateFace \ {u}
         /\ Send(AskFor(u))
    /\ reqUnchanged
    /\ UNCHANGED <<failVars, m_startFaceDownload>>

\* The three seconds after the last request are over.
ReqWake ==
    /\ reqPc = "sleep"
    /\ reqPc' = "fin"
    /\ m_sync' = FALSE
    /\ reqUnchanged
    /\ UNCHANGED <<requests, failVars, wantVars, m_curFaceId, count>>

\* Mutant: the flag that starts a download is left set.
ReqFinishKeepsFlag ==
    /\ reqPc = "fin"
    /\ reqPc' = "tick"
    /\ reqUnchanged
    /\ UNCHANGED <<requests, failVars, wantVars, m_curFaceId, count, m_sync>>

ReqFinish ==
    /\ reqPc = "fin"
    /\ reqPc' = "tick"
    /\ m_startFaceDownload' = FALSE
    /\ reqUnchanged
    /\ UNCHANGED <<requests, failVars, m_updateFace, m_faceSyncStatus, m_curFaceId,
                   count, m_sync>>

\* Mutant: the turns are not counted from zero again once a request is given up.
ReqTickNoReset ==
    /\ reqPc = "tick"
    /\ reqPc' = "top"
    /\ count' = IF m_faceSyncStatus THEN count ELSE count + 1
    /\ m_faceSyncStatus' = (m_faceSyncStatus \/ count + 1 > TimeoutTicks)
    /\ reqUnchanged
    /\ UNCHANGED <<requests, failVars, m_updateFace, m_startFaceDownload, m_curFaceId, m_sync>>

\* While no answer has come the turns are counted; past the limit the request is given up.
ReqTick ==
    /\ reqPc = "tick"
    /\ reqPc' = "top"
    /\ \/ /\ m_faceSyncStatus
          /\ UNCHANGED <<count, m_faceSyncStatus, failVars>>
       \/ /\ ~m_faceSyncStatus
          /\ count + 1 <= TimeoutTicks
          /\ count' = count + 1
          /\ UNCHANGED <<m_faceSyncStatus, failVars>>
       \/ /\ ~m_faceSyncStatus
          /\ count + 1 > TimeoutTicks
          /\ IF m_updateFace # {} THEN sqlInsertFail(m_curFaceId) ELSE UNCHANGED failVars
          /\ count' = 0
          /\ m_faceSyncStatus' = TRUE
    /\ reqUnchanged
    /\ UNCHANGED <<requests, m_updateFace, m_startFaceDownload, m_curFaceId, m_sync>>

-----------------------------------------------------------------------------
(* Main: one slot at a time                                                *)

mainUnchanged ==
    UNCHANGED <<backVars, linkVars, requests, restarts, loopVars, m_netStatus, packets,
                dealId>>

Take(kind) ==
    /\ mainPc = "idle"
    /\ mainQ # <<>>
    /\ Head(mainQ).kind = kind
    /\ mainQ' = Tail(mainQ)

\* UserIdRequest::onAlluserId of a list that names somebody, as far as the removals.
MainAllIds ==
    LET list    == Head(mainQ).list
        listed  == {u \in Users : list[u] # 0}
        changed == {u \in m_localFaceSet \cap listed : userdata[u] # list[u]}
        stale   == m_localFaceSet \ listed
    IN  /\ Take("allIds")
        /\ listed # {}
        /\ m_updateFace' = changed \cup (listed \ m_localFaceSet)
        /\ purge' = changed \cup stale
        /\ m_sync' = (m_sync \/ changed \cup stale # {})
        /\ mainPc' = "purge"
        /\ mainUnchanged
        /\ UNCHANGED <<rowVars, failVars, algoVars, m_startFaceDownload, m_faceSyncStatus,
                       mainId, mainVer, dealPc, upVars>>

\* FaceManager::removeFaceGroup of one of them, then its row.
MainPurgeFace ==
    /\ mainPc = "purge"
    /\ \E u \in purge :
         /\ removeFace(u)
         /\ mainId' = u
    /\ mainPc' = "purgeRow"
    /\ mainUnchanged
    /\ UNCHANGED <<rowVars, failVars, wantVars, m_sync, mainQ, mainVer, purge, dealPc, upVars>>

MainPurgeRow ==
    /\ mainPc = "purgeRow"
    /\ sqlDelete(mainId)
    /\ purge' = purge \ {mainId}
    /\ mainPc' = "purge"
    /\ mainUnchanged
    /\ UNCHANGED <<failVars, algoVars, wantVars, m_sync, mainQ, mainId, mainVer, dealPc, upVars>>

\* End of onAlluserId: somebody is left to download, or the synchronisation is over.
MainAllIdsEnd ==
    /\ mainPc = "purge"
    /\ purge = {}
    /\ mainPc' = "idle"
    /\ m_sync' = (m_sync /\ m_updateFace # {})
    /\ m_startFaceDownload' = (m_startFaceDownload \/ m_updateFace # {})
    /\ m_faceSyncStatus' = (m_faceSyncStatus \/ m_updateFace # {})
    /\ mainUnchanged
    /\ UNCHANGED <<rowVars, failVars, algoVars, m_updateFace, mainQ, mainId, mainVer, purge,
                   dealPc, upVars>>

\* onAlluserId of an empty list: FaceManager::clearFaceGroup begins with a copy of the ids.
MainClear ==
    /\ Take("allIds")
    /\ \A u \in Users : Head(mainQ).list[u] = 0
    /\ m_updateFace' = {}
    /\ m_sync' = TRUE
    /\ purge' = m_localFaceSet
    /\ mainPc' = "clear"
    /\ mainUnchanged
    /\ UNCHANGED <<rowVars, failVars, algoVars, m_startFaceDownload, m_faceSyncStatus,
                   mainId, mainVer, dealPc, upVars>>

\* The faces go one by one, their rows stay.
MainClearFace ==
    /\ mainPc = "clear"
    /\ \E u \in purge :
         /\ removeFace(u)
         /\ purge' = purge \ {u}
    /\ mainUnchanged
    /\ UNCHANGED <<rowVars, failVars, wantVars, m_sync, mainQ, mainPc, mainId, mainVer, dealPc,
                   upVars>>

\* Then all rows at once.
MainClearRows ==
    /\ mainPc = "clear"
    /\ purge = {}
    /\ sqlDeleteAll
    /\ mainPc' = "cleared"
    /\ mainUnchanged
    /\ UNCHANGED <<library, failVars, wantVars, m_sync, mainQ, mainId, mainVer, purge, dealPc,
                   upVars>>

\* End of clearFaceGroup and of onAlluserId.
MainClearEnd ==
    /\ mainPc = "cleared"
    /\ m_sync' = FALSE
    /\ m_startFaceDownload' = (m_startFaceDownload \/ m_updateFace # {})
    /\ m_faceSyncStatus' = (m_faceSyncStatus \/ m_updateFace # {})
    /\ mainPc' = "idle"
    /\ mainUnchanged
    /\ UNCHANGED <<rowVars, failVars, algoVars, m_updateFace, mainQ, mainId, mainVer, purge,
                   dealPc, upVars>>

\* UserIdRequest::onUpdateUsers of an empty answer.
MainUserAbsent ==
    /\ Take("user")
    /\ Head(mainQ).ver = 0
    /\ sqlInsertFail(m_curFaceId)
    /\ mainUnchanged
    /\ UNCHANGED <<rowVars, algoVars, wantVars, m_sync, workVars, dealPc, upVars>>

\* The end of tcpUpdateUsers, whatever became of the face.
GotUser(u) ==
    /\ m_updateFace' = m_updateFace \ {u}
    /\ m_faceSyncStatus' = TRUE
    /\ UNCHANGED m_startFaceDownload

\* tcpUpdateUsers of a person with a row: the row changes, the face does not.
MainUserUpdate ==
    /\ Take("user")
    /\ Head(mainQ).ver # 0
    /\ userdata[Head(mainQ).id] # 0
    /\ sqlUpdate(Head(mainQ).id, Head(mainQ).ver)
    /\ GotUser(Head(mainQ).id)
    /\ mainUnchanged
    /\ UNCHANGED <<failVars, algoVars, m_sync, workVars, dealPc, upVars>>

\* tcpUpdateUsers of a person without a row: FaceManager::insertFaceGroups begins.
MainUserNew ==
    /\ Take("user")
    /\ Head(mainQ).ver # 0
    /\ userdata[Head(mainQ).id] = 0
    /\ mainId' = Head(mainQ).id
    /\ mainVer' = Head(mainQ).ver
    /\ mainPc' = "enrol"
    /\ mainUnchanged
    /\ UNCHANGED <<rowVars, failVars, algoVars, wantVars, m_sync, purge, dealPc, upVars>>

\* The picture is missing or too large: error 4 or 1.
MainEnrolBadImage ==
    /\ mainPc = "enrol"
    /\ mainPc' = "idle"
    /\ sqlInsertFail(mainId)
    /\ GotUser(mainId)
    /\ mainUnchanged
    /\ UNCHANGED <<rowVars, algoVars, m_sync, mainQ, mainId, mainVer, purge, dealPc, upVars>>

\* Mutant: the row is written although the algorithm has refused the face.
MainEnrolRefusedInserts ==
    /\ mainPc = "enrol"
    /\ mainPc' = "idle"
    /\ sqlInsert(mainId, mainVer)
    /\ GotUser(mainId)
    /\ mainUnchanged
    /\ UNCHANGED <<failVars, algoVars, m_sync, mainQ, mainId, mainVer, purge, dealPc, upVars>>

\* The algorithm refuses the face: the registration is cancelled, and nothing is recorded.
MainEnrolRefused ==
    /\ mainPc = "enrol"
    /\ mainPc' = "idle"
    /\ GotUser(mainId)
    /\ mainUnchanged
    /\ UNCHANGED <<rowVars, failVars, algoVars, m_sync, mainQ, mainId, mainVer, purge, dealPc,
                   upVars>>

\* The algorithm registers the face and saves it.
MainEnrolSave ==
    /\ mainPc = "enrol"
    /\ mainPc' = "insert"
    /\ library' = library \cup {mainId}
    /\ regInfo' = regInfo \cup {mainId}
    /\ mainUnchanged
    /\ UNCHANGED <<rowVars, failVars, wantVars, m_sync, mainQ, mainId, mainVer, purge, dealPc,
                   upVars>>

MainEnrolInsert ==
    /\ mainPc = "insert"
    /\ mainPc' = "idle"
    /\ sqlInsert(mainId, mainVer)
    /\ sqlDeleteFail(mainId)
    /\ GotUser(mainId)
    /\ mainUnchanged
    /\ UNCHANGED <<algoVars, m_sync, mainQ, mainId, mainVer, purge, dealPc, upVars>>

\* UserIdRequest::onNewUsers: ignored while a download is under way.
MainNewUsers ==
    /\ Take("newUsers")
    /\ IF m_startFaceDownload
       THEN UNCHANGED <<m_updateFace, m_startFaceDownload>>
       ELSE /\ m_updateFace' = m_updateFace \cup Head(mainQ).ids
            /\ m_startFaceDownload' = (m_updateFace' # {})
    /\ mainUnchanged
    /\ UNCHANGED <<rowVars, failVars, algoVars, m_faceSyncStatus, m_sync, workVars, dealPc, upVars>>

\* UserIdRequest::onAllUsersIc, whose sigInsertFail the connection thread will handle.
MainAllIc ==
    /\ Take("allIc")
    /\ uploadDue' = TRUE
    /\ mainUnchanged
    /\ UNCHANGED <<rowVars, failVars, algoVars, wantVars, m_sync, workVars, dealPc, uploadPc>>

\* FaceManager::removeFaceGroup for Deal, which is blocked until it returns.
MainRemove ==
    /\ Take("remove")
    /\ removeFace(Head(mainQ).id)
    /\ dealPc' = "delRow"
    /\ mainUnchanged
    /\ UNCHANGED <<rowVars, failVars, wantVars, m_sync, workVars, upVars>>

-----------------------------------------------------------------------------
(* Deal: ServerDataDeal::dealJsonData                                      *)

dealUnchanged ==
    UNCHANGED <<backVars, linkVars, restarts, wantVars, loopVars, m_netStatus, workVars,
                upVars>>

TakePacket(op) ==
    /\ dealPc = "idle"
    /\ packets # <<>>
    /\ Head(packets).op = op
    /\ packets' = Tail(packets)

NewUsers(S) == mainQ' = Append(mainQ, [kind |-> "newUsers", ids |-> S])

\* dealFaceNewData, operater 1 (add) or 2: a person to add who is there already is left alone.
DealSave ==
    LET u == Head(packets).id IN
    /\ \/ TakePacket("add") /\ NewUsers({u} \ m_localFaceSet)
       \/ TakePacket("edit") /\ NewUsers({u})
    /\ dealUnchanged
    /\ UNCHANGED <<requests, rowVars, failVars, algoVars, m_sync, dealPc, dealId>>

\* dealFaceNewData, operater 3: the face goes first, in Main, then the row.
DealDelete ==
    /\ TakePacket("delete")
    /\ m_sync' = TRUE
    /\ mainQ' = Append(mainQ, [kind |-> "remove", id |-> Head(packets).id])
    /\ dealPc' = "remove"
    /\ dealId' = Head(packets).id
    /\ dealUnchanged
    /\ UNCHANGED <<requests, rowVars, failVars, algoVars>>

\* Mutant: only the face of a deleted person goes.
DealDeleteRowKept ==
    /\ dealPc = "delRow"
    /\ dealPc' = "delEnd"
    /\ dealUnchanged
    /\ UNCHANGED <<requests, rowVars, failVars, algoVars, m_sync, mainQ, packets, dealId>>

DealDeleteRow ==
    /\ dealPc = "delRow"
    /\ dealPc' = "delEnd"
    /\ sqlDelete(dealId)
    /\ dealUnchanged
    /\ UNCHANGED <<requests, failVars, algoVars, m_sync, mainQ, packets, dealId>>

DealDeleteEnd ==
    /\ dealPc = "delEnd"
    /\ dealPc' = "idle"
    /\ m_sync' = FALSE
    /\ NewUsers({})
    /\ dealUnchanged
    /\ UNCHANGED <<requests, rowVars, failVars, algoVars, packets, dealId>>

\* Bind: unless a synchronisation is under way the tables are emptied and the list asked for.
DealBind ==
    /\ TakePacket("bind")
    /\ IF m_sync
       THEN UNCHANGED <<rowVars, failVars, regInfo, requests>>
       ELSE sqlDeleteAll /\ sqlDeleteAllFail /\ Send(AskAll)
    /\ dealUnchanged
    /\ UNCHANGED <<library, m_sync, mainQ, dealPc, dealId>>

-----------------------------------------------------------------------------
(* The connection thread, the recognition thread and a crash               *)

\* TcpClient::requestInserFail reads the failed ids, and only then empties the table.
UploadFailures ==
    /\ uploadDue
    /\ uploadPc = "idle"
    /\ uploadDue' = FALSE
    /\ uploadPc' = IF m_localFaceFail = {} THEN "idle" ELSE "clear"
    /\ UNCHANGED <<backVars, linkVars, requests, restarts, rowVars, failVars, algoVars, wantVars,
                   loopVars, m_sync, m_netStatus, mainQ, workVars, dealVars>>

UploadClear ==
    /\ uploadPc = "clear"
    /\ uploadPc' = "idle"
    /\ sqlDeleteAllFail
    /\ UNCHANGED <<backVars, linkVars, requests, restarts, rowVars, algoVars, wantVars, loopVars,
                   m_sync, m_netStatus, mainQ, workVars, dealVars, uploadDue>>

\* A synchronisation without a network is declared over.
FaceOffline ==
    /\ m_sync
    /\ ~m_netStatus
    /\ m_sync' = FALSE
    /\ UNCHANGED <<backVars, linkVars, requests, restarts, rowVars, failVars, algoVars, wantVars,
                   loopVars, m_netStatus, mainQ, workVars, dealVars, upVars>>

\* The process dies and starts again: FaceManager::init reloads m_localFaceSet only.
Restart ==
    /\ restarts < MaxRestarts
    /\ restarts' = restarts + 1
    /\ session' = FALSE /\ logins' = 0
    /\ requests' = <<>> /\ packets' = <<>> /\ mainQ' = <<>>
    /\ library' = regInfo
    /\ m_localFaceSet' = Rows
    /\ m_localFaceFail' = {}
    /\ m_updateFace' = {} /\ m_startFaceDownload' = FALSE /\ m_faceSyncStatus' = FALSE
    /\ m_curFaceId' = NoUser /\ count' = 0 /\ reqPc' = "top"
    /\ m_sync' = FALSE /\ m_netStatus' = FALSE
    /\ mainPc' = "idle" /\ mainId' = NoUser /\ mainVer' = 0 /\ purge' = {}
    /\ dealPc' = "idle" /\ dealId' = NoUser
    /\ uploadDue' = FALSE /\ uploadPc' = "idle"
    /\ UNCHANGED <<backVars, userdata, insertFail, regInfo>>

-----------------------------------------------------------------------------
Req  == ReqTop \/ ReqAbort \/ ReqPick \/ ReqWake \/ ReqFinish \/ ReqTick
Main == \/ MainAllIds \/ MainPurgeFace \/ MainPurgeRow \/ MainAllIdsEnd
        \/ MainClear \/ MainClearFace \/ MainClearRows \/ MainClearEnd
        \/ MainUserAbsent \/ MainUserUpdate \/ MainUserNew
        \/ MainEnrolBadImage \/ MainEnrolRefused \/ MainEnrolSave \/ MainEnrolInsert
        \/ MainNewUsers \/ MainAllIc \/ MainRemove
Deal == DealSave \/ DealDelete \/ DealDeleteRow \/ DealDeleteEnd \/ DealBind
Tcp  == UploadFailures \/ UploadClear
Back == \/ \E u \in Users : ServerSave(u) \/ ServerDelete(u)
        \/ ServerBind \/ ServerAnswer \/ ServerIgnore \/ CommandLost
        \/ Login \/ Break \/ NetLost

Next == Req \/ Main \/ Deal \/ Tcp \/ FaceOffline \/ Back \/ Restart

Spec == Init /\ [][Next]_vars

\* The kernel schedules every thread: none stops for good while it can take a step.
\* Nothing is assumed of the back end or of the connection.
FairSpec ==
    /\ Spec
    /\ WF_vars(Req) /\ WF_vars(Main) /\ WF_vars(Deal) /\ WF_vars(Tcp)
    /\ WF_vars(FaceOffline)

-----------------------------------------------------------------------------
(* Safety                                                                  *)

\* The cache of ids, which decides what onAlluserId downloads and deletes, is the table's.
FaceSetIsTable == m_localFaceSet = Rows

\* The row of u is about to follow its face, which Main or Deal has removed: the next step of
\* its thread deletes it, or the end of clearFaceGroup, once the other faces are gone.
BeingRemoved(u) ==
    \/ mainPc = "purgeRow" /\ mainId = u
    \/ mainPc = "clear" /\ u \notin purge
    \/ dealPc = "delRow" /\ dealId = u

\* While the process lives, a row never outlives its face: whoever is listed as registered is
\* recognised at the door (insertFaceGroups saves the face before the row, the removals drop
\* the face before the row, and only Main enrols).
RowHasFace == restarts = 0 => \A u \in Rows : u \in library \/ BeingRemoved(u)

\* A list of ids on its way that does not name u, or the removal of its face.
Removes(u, e) ==
    \/ e.kind = "allIds" /\ e.list[u] = 0
    \/ e = [kind |-> "remove", id |-> u]

\* Something on its way will remove u, and Main will come to it after the i-th event of its queue.
Coming(u, i) ==
    \/ \E k \in 1..Len(requests) : requests[k] = AskAll
    \/ \E k \in 1..Len(packets) : packets[k] = [op |-> "delete", id |-> u]
    \/ \E k \in 1..Len(mainQ) : k > i /\ Removes(u, mainQ[k])

\* The row of u is about to go, or the connection is down and the next login will ask for the list.
Doomed(u) ==
    \/ ~session
    \/ Coming(u, 0)
    \/ dealPc = "delRow" /\ dealId = u
    \/ mainPc \in {"purge", "purgeRow"} /\ u \in purge
    \/ mainPc = "clear"

\* A person the back end has deleted does not keep a row for good, whatever answers, deletions,
\* downloads and restarts overlap: a late answer cannot bring a deleted person back. The excuse
\* is 'missed': the list of ids was refused, or the command of the deletion lost, on a connection
\* that lives; that row stays until a list is parsed again, for nothing on the terminal asks.
NoGhost == \A u \in Rows : server[u] = 0 => Doomed(u) \/ u \in missed

\* The row of a person is never replaced by an older version of it: answers reach tcpUpdateUsers
\* in the order the back end gave them, however many requests timeouts have left outstanding.
RowsNeverGoBack == [][\A u \in Users : userdata'[u] # 0 => userdata'[u] >= userdata[u]]_vars

-----------------------------------------------------------------------------
(* What makes the safety properties inductive                              *)

Enrolling(u) == mainPc \in {"enrol", "insert"} /\ mainId = u

\* The i-th event of Main's queue carries the person u.
Carries(u, i) == mainQ[i].kind = "user" /\ mainQ[i].id = u /\ mainQ[i].ver # 0

\* Main enrols a person of some version, which no table holds: only Main adds rows.
EnrolInv ==
    /\ mainPc \in {"enrol", "insert"} => mainVer # 0 /\ userdata[mainId] = 0
    /\ mainPc = "insert" => mainId \in library

\* One face at a time is being removed for Deal, the one Deal waits for.
RemoveInv ==
    \A i \in 1..Len(mainQ) : mainQ[i].kind = "remove" =>
        /\ dealPc = "remove"
        /\ mainQ[i].id = dealId
        /\ \A j \in 1..Len(mainQ) : mainQ[j].kind = "remove" => j = i

\* A version of u the back end has had, none newer than the one it has.
Known(u, ver) == ver <= clock /\ (server[u] # 0 => ver <= server[u])

\* What is known of u grows along its way from the row over Main's queue to the back end.
OrderInv ==
    \A u \in Users :
        /\ server[u] <= clock
        /\ Known(u, userdata[u])
        /\ Enrolling(u) => Known(u, mainVer)
        /\ \A i \in 1..Len(mainQ) : Carries(u, i) =>
               /\ Known(u, mainQ[i].ver)
               /\ userdata[u] <= mainQ[i].ver
               /\ Enrolling(u) => mainVer <= mainQ[i].ver
               /\ \A j \in 1..i : Carries(u, j) => mainQ[j].ver <= mainQ[i].ver

\* The back end has deleted u, and the connection has not lost its removal.
Owed(u) == session /\ server[u] = 0 /\ u \notin missed

\* Whatever could still make a row of a deleted person is followed by its removal, if that is
\* not lost.
GhostInv ==
    \A u \in Users : Owed(u) =>
        /\ Enrolling(u) => Coming(u, 0)
        /\ \A i \in 1..Len(mainQ) : Carries(u, i) => Coming(u, i)

PurgeInv == mainPc \notin {"purge", "purgeRow", "clear"} => purge = {}

-----------------------------------------------------------------------------
(* Liveness                                                                *)

\* Every download comes to its end, and recognition with it to its turn: no request that stays
\* without an answer, and no connection that breaks, can hold it up.
DownloadEnds == m_startFaceDownload ~> ~m_startFaceDownload

-----------------------------------------------------------------------------
(* What comments say and the code does not do                              *)

\* datashare.h:43 calls m_sync the flag of a synchronisation under way: when set, one is under way
\* somewhere. (What is set otherwise stays set, and nobody is recognised until the network fails
\* or the next list.)
SyncFlagMeansSync ==
    m_sync => m_startFaceDownload \/ reqPc # "top" \/ mainPc # "idle" \/ dealPc # "idle"
=============================================================================
