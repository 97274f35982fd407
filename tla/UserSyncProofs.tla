--------------------------- MODULE UserSyncProofs ---------------------------
(***************************************************************************)
(* Proofs about UserSync, for every set of persons and every bound: first  *)
(* its types, then the safety properties, each from an inductive invariant *)
(* whose parts UserSync names: EnrolInv, RemoveInv, OrderInv, GhostInv and *)
(* PurgeInv.                                                               *)
(***************************************************************************)
EXTENDS UserSync, TLAPS

\* What the steps of the queues need of sequences.
LEMMA AppendSeq ==
    ASSUME NEW S, NEW s \in Seq(S), NEW x \in S
    PROVE  /\ Append(s, x) \in Seq(S)
           /\ Len(Append(s, x)) = Len(s) + 1
           /\ \A i \in 1..Len(s) : Append(s, x)[i] = s[i]
           /\ Append(s, x)[Len(s) + 1] = x
  OBVIOUS

LEMMA TailSeq ==
    ASSUME NEW S, NEW s \in Seq(S), s # <<>>
    PROVE  /\ Head(s) \in S
           /\ Head(s) = s[1]
           /\ Tail(s) \in Seq(S)
           /\ Len(Tail(s)) = Len(s) - 1
           /\ \A i \in 1..Len(Tail(s)) : Tail(s)[i] = s[i + 1]
  OBVIOUS

LEMMA ExceptType ==
    ASSUME NEW S, NEW T, NEW f \in [S -> T], NEW x, NEW y \in T
    PROVE  [f EXCEPT ![x] = y] \in [S -> T]
  OBVIOUS

LEMMA InitType == Init => TypeOK
<1> SUFFICES ASSUME Init PROVE TypeOK
  OBVIOUS
<1> USE ConstantsAssumption DEF Init
<1>1. requests \in Seq(Request) /\ mainQ \in Seq(Event) /\ packets \in Seq(Packet)
  OBVIOUS
<1>2. server \in [Users -> Versions] /\ userdata \in [Users -> Versions]
  BY DEF Versions
<1>3. /\ count \in 0..TimeoutTicks /\ clock \in 0..MaxClock
      /\ logins \in 0..MaxLogins /\ restarts \in 0..MaxRestarts
  OBVIOUS
<1>4. mainPc \in MainPcs /\ reqPc \in ReqPcs /\ dealPc \in DealPcs
  BY DEF MainPcs, ReqPcs, DealPcs
<1>5. mainId \in Ids /\ dealId \in Ids /\ m_curFaceId \in Ids /\ mainVer \in Versions
  BY DEF Ids, Versions
<1> QED
  BY <1>1, <1>2, <1>3, <1>4, <1>5 DEF TypeOK

-----------------------------------------------------------------------------
(* Type correctness, one lemma per thread                                  *)

LEMMA SendType ==
    ASSUME requests \in Seq(Request), NEW r \in Request, Send(r)
    PROVE  requests' \in Seq(Request)
  BY AppendSeq DEF Send

LEMMA AskType == AskAll \in Request /\ AskIc \in Request /\ \A u \in Ids : AskFor(u) \in Request
  BY DEF AskAll, AskIc, AskFor, Request

LEMMA ReqType == TypeOK /\ Req => TypeOK'
<1> SUFFICES ASSUME TypeOK, Req PROVE TypeOK'
  OBVIOUS
<1> USE DEF reqUnchanged, backVars, linkVars, rowVars, failVars, algoVars, wantVars, loopVars,
            workVars, dealVars, upVars, ReqPcs
<1>1. CASE ReqTop
  <2>1. requests' \in Seq(Request)
    BY <1>1, SendType, AskType DEF ReqTop, TypeOK
  <2>2. reqPc' \in ReqPcs /\ m_sync' \in BOOLEAN
    BY <1>1 DEF ReqTop, TypeOK
  <2> QED
    BY <1>1, <2>1, <2>2 DEF ReqTop, TypeOK
<1>2. CASE ReqAbort
  BY <1>2 DEF ReqAbort, TypeOK
<1>3. CASE ReqPick
  <2>1. PICK u \in IF m_updateFace = {} THEN {NoUser} ELSE m_updateFace :
          /\ m_curFaceId' = u
          /\ m_updateFace' = m_updateFace \ {u}
          /\ Send(AskFor(u))
    BY <1>3 DEF ReqPick
  <2>2. u \in Ids
    BY DEF TypeOK, Ids
  <2>3. requests' \in Seq(Request)
    BY <2>1, <2>2, SendType, AskType DEF TypeOK
  <2>4. count' \in 0..TimeoutTicks
    BY <1>3, ConstantsAssumption DEF ReqPick
  <2> QED
    BY <1>3, <2>1, <2>2, <2>3, <2>4 DEF ReqPick, TypeOK
<1>4. CASE ReqWake
  BY <1>4 DEF ReqWake, TypeOK
<1>5. CASE ReqFinish
  BY <1>5 DEF ReqFinish, TypeOK
<1>6. CASE ReqTick
  <2>1. count' \in 0..TimeoutTicks
    <3>1. \/ count' = count
          \/ count' = count + 1 /\ count + 1 <= TimeoutTicks
          \/ count' = 0
      BY <1>6 DEF ReqTick
    <3> QED
      BY <3>1, ConstantsAssumption DEF TypeOK
  <2>2. insertFail' \subseteq Ids /\ m_localFaceFail' \subseteq Ids
    BY <1>6 DEF ReqTick, TypeOK, sqlInsertFail
  <2>3. m_faceSyncStatus' \in BOOLEAN
    BY <1>6 DEF ReqTick, TypeOK
  <2> QED
    BY <1>6, <2>1, <2>2, <2>3 DEF ReqTick, TypeOK
<1> QED
  BY <1>1, <1>2, <1>3, <1>4, <1>5, <1>6 DEF Req

\* What Main finds at the head of its queue.
LEMMA EventFields ==
    \A e \in Event :
        /\ e.kind = "allIds" => e.list \in [Users -> Versions]
        /\ e.kind = "user" => e.ver \in Versions
        /\ e.kind = "user" /\ e.ver # 0 => e.id \in Users
        /\ e.kind = "newUsers" => e.ids \subseteq Users
        /\ e.kind = "remove" => e.id \in Users
  BY ConstantsAssumption DEF Event, Versions

LEMMA TakeType ==
    ASSUME mainQ \in Seq(Event), NEW kind, Take(kind)
    PROVE  mainQ' \in Seq(Event) /\ Head(mainQ) \in Event /\ Head(mainQ).kind = kind
  BY TailSeq DEF Take

LEMMA MainType == TypeOK /\ Main => TypeOK'
<1> SUFFICES ASSUME TypeOK, Main PROVE TypeOK'
  OBVIOUS
<1> USE DEF mainUnchanged, backVars, linkVars, rowVars, failVars, algoVars, wantVars, loopVars,
            workVars, dealVars, upVars, MainPcs
<1>q. mainQ \in Seq(Event)
  BY DEF TypeOK
<1>1. CASE MainAllIds
  <2>1. mainQ' \in Seq(Event) /\ Head(mainQ) \in Event /\ Head(mainQ).kind = "allIds"
    BY <1>1, <1>q, TakeType DEF MainAllIds
  <2>2. m_updateFace' \subseteq Users /\ purge' \subseteq Users /\ m_sync' \in BOOLEAN
    BY <1>1 DEF MainAllIds, TypeOK
  <2> QED
    BY <1>1, <2>1, <2>2 DEF MainAllIds, TypeOK
<1>2. CASE MainPurgeFace
  <2>1. mainId' \in Users /\ mainId' \in Ids
    BY <1>2 DEF MainPurgeFace, TypeOK, Ids
  <2> QED
    BY <1>2, <2>1 DEF MainPurgeFace, TypeOK, removeFace
<1>3. CASE MainPurgeRow
  <2>1. userdata' \in [Users -> Versions]
    BY <1>3, ConstantsAssumption DEF MainPurgeRow, TypeOK, sqlDelete, Versions
  <2> QED
    BY <1>3, <2>1 DEF MainPurgeRow, TypeOK, sqlDelete
<1>4. CASE MainAllIdsEnd
  BY <1>4 DEF MainAllIdsEnd, TypeOK
<1>5. CASE MainClear
  BY <1>5, <1>q, TakeType DEF MainClear, TypeOK
<1>6f. CASE MainClearFace
  BY <1>6f DEF MainClearFace, TypeOK, removeFace
<1>6r. CASE MainClearRows
  <2>1. userdata' \in [Users -> Versions]
    BY <1>6r, ConstantsAssumption DEF MainClearRows, TypeOK, sqlDeleteAll, Versions
  <2> QED
    BY <1>6r, <2>1 DEF MainClearRows, TypeOK, sqlDeleteAll
<1>6. CASE MainClearEnd
  BY <1>6 DEF MainClearEnd, TypeOK
<1>7. CASE MainUserAbsent
  BY <1>7, <1>q, TakeType DEF MainUserAbsent, TypeOK, sqlInsertFail
<1>8. CASE MainUserUpdate
  <2>1. mainQ' \in Seq(Event) /\ Head(mainQ) \in Event /\ Head(mainQ).kind = "user"
    BY <1>8, <1>q, TakeType DEF MainUserUpdate
  <2>2. userdata' \in [Users -> Versions]
    BY <1>8, <2>1, EventFields, ConstantsAssumption
       DEF MainUserUpdate, TypeOK, sqlUpdate, Versions
  <2> QED
    BY <1>8, <2>1, <2>2 DEF MainUserUpdate, TypeOK, sqlUpdate, GotUser
<1>9. CASE MainUserNew
  <2>1. mainQ' \in Seq(Event) /\ Head(mainQ) \in Event /\ Head(mainQ).kind = "user"
    BY <1>9, <1>q, TakeType DEF MainUserNew
  <2>2. mainId' \in Users
    BY <1>9, <2>1, EventFields DEF MainUserNew
  <2> QED
    BY <1>9, <2>1, <2>2, EventFields DEF MainUserNew, TypeOK, Ids
<1>10. CASE MainEnrolBadImage
  BY <1>10 DEF MainEnrolBadImage, TypeOK, GotUser, sqlInsertFail
<1>11. CASE MainEnrolRefused
  BY <1>11 DEF MainEnrolRefused, TypeOK, GotUser
<1>12. CASE MainEnrolSave
  BY <1>12 DEF MainEnrolSave, TypeOK
<1>13. CASE MainEnrolInsert
  <2>1. userdata' \in [Users -> Versions]
    BY <1>13, ConstantsAssumption DEF MainEnrolInsert, TypeOK, sqlInsert
  <2> QED
    BY <1>13, <2>1 DEF MainEnrolInsert, TypeOK, sqlInsert, sqlDeleteFail, GotUser
<1>14. CASE MainNewUsers
  <2>1. mainQ' \in Seq(Event) /\ Head(mainQ).ids \subseteq Users
    BY <1>14, <1>q, TakeType, EventFields DEF MainNewUsers
  <2>2. m_updateFace' \subseteq Users
    BY <1>14, <2>1 DEF MainNewUsers, TypeOK
  <2>3. m_startFaceDownload' \in BOOLEAN
    BY <1>14 DEF MainNewUsers, TypeOK
  <2> QED
    BY <1>14, <2>1, <2>2, <2>3 DEF MainNewUsers, TypeOK
<1>15. CASE MainAllIc
  BY <1>15, <1>q, TakeType DEF MainAllIc, TypeOK
<1>16. CASE MainRemove
  <2>1. mainQ' \in Seq(Event)
    BY <1>16, <1>q, TakeType DEF MainRemove
  <2> QED
    BY <1>16, <2>1 DEF MainRemove, TypeOK, removeFace, DealPcs
<1> QED
  BY <1>1, <1>2, <1>3, <1>4, <1>5, <1>6f, <1>6r, <1>6, <1>7, <1>8, <1>9, <1>10, <1>11, <1>12,
     <1>13, <1>14, <1>15, <1>16 DEF Main

LEMMA PacketType ==
    /\ \A p \in Packet : p.op # "bind" => p.id \in Users
    /\ \A u \in Users, op \in {"add", "edit", "delete"} : [op |-> op, id |-> u] \in Packet
    /\ [op |-> "bind", id |-> NoUser] \in Packet
  BY DEF Packet

LEMMA DealType == TypeOK /\ Deal => TypeOK'
<1> SUFFICES ASSUME TypeOK, Deal PROVE TypeOK'
  OBVIOUS
<1> USE DEF dealUnchanged, backVars, linkVars, rowVars, failVars, algoVars, wantVars, loopVars,
            workVars, dealVars, upVars, DealPcs
<1>n. ASSUME NEW S \in SUBSET Users, NewUsers(S)
      PROVE  mainQ' \in Seq(Event)
  <2>1. [kind |-> "newUsers", ids |-> S] \in Event
    BY DEF Event
  <2> QED
    BY <1>n, <2>1, AppendSeq DEF NewUsers, TypeOK
<1>t. ASSUME NEW op, TakePacket(op)
      PROVE  packets' \in Seq(Packet) /\ Head(packets) \in Packet /\ Head(packets).op = op
  BY <1>t, TailSeq DEF TakePacket, TypeOK
<1>1. CASE DealSave
  <2>1. packets' \in Seq(Packet) /\ Head(packets).id \in Users
    BY <1>1, <1>t, PacketType DEF DealSave
  <2>2. mainQ' \in Seq(Event)
    BY <1>1, <1>n, <2>1 DEF DealSave
  <2> QED
    BY <1>1, <2>1, <2>2 DEF DealSave, TypeOK
<1>2. CASE DealDelete
  <2>1. packets' \in Seq(Packet) /\ Head(packets).id \in Users
    BY <1>2, <1>t, PacketType DEF DealDelete
  <2>2. [kind |-> "remove", id |-> Head(packets).id] \in Event
    BY <2>1 DEF Event
  <2>3. mainQ' \in Seq(Event)
    BY <1>2, <2>2, AppendSeq DEF DealDelete, TypeOK
  <2> QED
    BY <1>2, <2>1, <2>3 DEF DealDelete, TypeOK, Ids
<1>3. CASE DealDeleteRow
  <2>1. userdata' \in [Users -> Versions]
    <3>1. 0 \in Versions
      BY ConstantsAssumption DEF Versions
    <3> QED
      BY <1>3, <3>1, ExceptType DEF DealDeleteRow, TypeOK, sqlDelete
  <2> QED
    BY <1>3, <2>1 DEF DealDeleteRow, TypeOK, sqlDelete
<1>4. CASE DealDeleteEnd
  <2>1. mainQ' \in Seq(Event)
    BY <1>4, <1>n DEF DealDeleteEnd
  <2> QED
    BY <1>4, <2>1 DEF DealDeleteEnd, TypeOK
<1>5. CASE DealBind
  <2>1. packets' \in Seq(Packet)
    BY <1>5, <1>t DEF DealBind
  <2>2. requests' \in Seq(Request)
    BY <1>5, SendType, AskType DEF DealBind, TypeOK
  <2>3. userdata' \in [Users -> Versions] /\ m_localFaceSet' \subseteq Users
    BY <1>5, ConstantsAssumption DEF DealBind, TypeOK, sqlDeleteAll, Versions
  <2>4. regInfo' \subseteq Users /\ insertFail' \subseteq Ids /\ m_localFaceFail' \subseteq Ids
    BY <1>5 DEF DealBind, TypeOK, sqlDeleteAll, sqlDeleteAllFail
  <2> QED
    BY <1>5, <2>1, <2>2, <2>3, <2>4 DEF DealBind, TypeOK
<1> QED
  BY <1>1, <1>2, <1>3, <1>4, <1>5 DEF Deal

LEMMA PushType ==
    ASSUME packets \in Seq(Packet), NEW op, NEW u, [op |-> op, id |-> u] \in Packet, Push(op, u)
    PROVE  packets' \in Seq(Packet)
  BY AppendSeq DEF Push

LEMMA AnswerType ==
    ASSUME server \in [Users -> Versions], NEW r \in Request
    PROVE  AnswerTo(r) \in Event
<1>1. CASE r.kind = "allIds"
  BY <1>1 DEF AnswerTo, Event
<1>2. CASE r.kind = "allIc"
  BY <1>2 DEF AnswerTo, Event
<1>3. CASE r.kind = "user"
  <2>1. r.id \in Ids
    BY <1>3 DEF Request
  <2>2. CASE r.id \in Users
    BY <1>3, <2>2 DEF AnswerTo, Event
  <2>3. CASE r.id \notin Users
    BY <1>3, <2>1, <2>3 DEF AnswerTo, Event, Ids
  <2> QED
    BY <2>2, <2>3
<1> QED
  BY <1>1, <1>2, <1>3 DEF Request

LEMMA BackType == TypeOK /\ Back => TypeOK'
<1> SUFFICES ASSUME TypeOK, Back PROVE TypeOK'
  OBVIOUS
<1> USE DEF envUnchanged, backVars, linkVars, rowVars, failVars, algoVars, wantVars, loopVars,
            workVars, dealVars, upVars
<1>c. clock < MaxClock => clock + 1 \in 0..MaxClock /\ clock + 1 \in Versions
  BY ConstantsAssumption DEF TypeOK, Versions
<1>0. 0 \in Versions
  BY ConstantsAssumption DEF Versions
<1>1. ASSUME NEW u \in Users, ServerSave(u)
      PROVE  TypeOK'
  <2>1. packets' \in Seq(Packet)
    BY <1>1, PushType, PacketType DEF ServerSave, TypeOK
  <2>2. server' \in [Users -> Versions] /\ clock' \in 0..MaxClock
    BY <1>1, <1>c DEF ServerSave, TypeOK
  <2> QED
    BY <1>1, <2>1, <2>2 DEF ServerSave, TypeOK
<1>2. ASSUME NEW u \in Users, ServerDelete(u)
      PROVE  TypeOK'
  <2>1. packets' \in Seq(Packet)
    BY <1>2, PushType, PacketType DEF ServerDelete, TypeOK
  <2>2. server' \in [Users -> Versions] /\ clock' \in 0..MaxClock
    BY <1>2, <1>c, <1>0 DEF ServerDelete, TypeOK
  <2> QED
    BY <1>2, <2>1, <2>2 DEF ServerDelete, TypeOK
<1>3. CASE ServerBind
  <2>1. packets' \in Seq(Packet)
    BY <1>3, PushType, PacketType DEF ServerBind, TypeOK
  <2>2. clock' \in 0..MaxClock
    BY <1>3, <1>c DEF ServerBind
  <2> QED
    BY <1>3, <2>1, <2>2 DEF ServerBind, TypeOK
<1>r. requests # <<>> => Head(requests) \in Request /\ Tail(requests) \in Seq(Request)
  BY TailSeq DEF TypeOK
<1>4. CASE ServerAnswer
  <2>1. mainQ' \in Seq(Event)
    BY <1>4, <1>r, AnswerType, AppendSeq DEF ServerAnswer, TypeOK
  <2> QED
    BY <1>4, <1>r, <2>1 DEF ServerAnswer, Forget, TypeOK
<1>5. CASE ServerIgnore
  BY <1>5, <1>r DEF ServerIgnore, TypeOK
<1>5l. CASE CommandLost
  <2>1. packets' \in Seq(Packet)
    BY <1>5l, TailSeq DEF CommandLost, TypeOK
  <2> QED
    BY <1>5l, <2>1 DEF CommandLost, TypeOK
<1>6. CASE Login
  <2>1. requests' \in Seq(Request)
    BY <1>6, AskType DEF Login
  <2>2. logins' \in 0..MaxLogins
    BY <1>6, ConstantsAssumption DEF Login, TypeOK
  <2> QED
    BY <1>6, <2>1, <2>2 DEF Login, TypeOK
<1>7. CASE Break
  <2>1. requests' \in Seq(Request)
    BY <1>7 DEF Break
  <2> QED
    BY <1>7, <2>1 DEF Break, TypeOK
<1>8. CASE NetLost
  BY <1>8 DEF NetLost, TypeOK
<1> QED
  BY <1>1, <1>2, <1>3, <1>4, <1>5, <1>5l, <1>6, <1>7, <1>8 DEF Back

LEMMA RestType == TypeOK /\ (Tcp \/ FaceOffline \/ Restart) => TypeOK'
<1> SUFFICES ASSUME TypeOK, Tcp \/ FaceOffline \/ Restart PROVE TypeOK'
  OBVIOUS
<1> USE DEF backVars, linkVars, rowVars, failVars, algoVars, wantVars, loopVars, workVars,
            dealVars, upVars
<1>1. CASE UploadFailures
  BY <1>1 DEF UploadFailures, TypeOK
<1>2. CASE UploadClear
  BY <1>2 DEF UploadClear, TypeOK, sqlDeleteAllFail
<1>3. CASE FaceOffline
  BY <1>3 DEF FaceOffline, TypeOK
<1>4. CASE Restart
  <2>1. requests' \in Seq(Request) /\ mainQ' \in Seq(Event) /\ packets' \in Seq(Packet)
    BY <1>4 DEF Restart
  <2>2. /\ count' \in 0..TimeoutTicks
        /\ logins' \in 0..MaxLogins
        /\ restarts' \in 0..MaxRestarts
    BY <1>4, ConstantsAssumption DEF Restart, TypeOK
  <2>3. /\ mainPc' \in MainPcs /\ reqPc' \in ReqPcs /\ dealPc' \in DealPcs
        /\ mainPc' = "idle"
    BY <1>4 DEF Restart, MainPcs, ReqPcs, DealPcs
  <2>4. mainId' \in Ids /\ dealId' \in Ids /\ m_curFaceId' \in Ids /\ mainVer' \in Versions
    BY <1>4, ConstantsAssumption DEF Restart, Ids, Versions
  <2>5. library' \subseteq Users /\ m_localFaceSet' \subseteq Users
    BY <1>4 DEF Restart, TypeOK, Rows
  <2> QED
    BY <1>4, <2>1, <2>2, <2>3, <2>4, <2>5 DEF Restart, TypeOK
<1> QED
  BY <1>1, <1>2, <1>3, <1>4 DEF Tcp

LEMMA NextType == TypeOK /\ [Next]_vars => TypeOK'
<1>1. TypeOK /\ UNCHANGED vars => TypeOK'
  BY DEF TypeOK, vars, backVars, linkVars, rowVars, failVars, algoVars, wantVars, loopVars,
         workVars, dealVars, upVars
<1> QED
  BY <1>1, ReqType, MainType, DealType, BackType, RestType DEF Next

\* Every variable keeps its type: no counter of the loops passes its bound, and no id that is not
\* a person's reaches the tables of persons.
THEOREM TypeCorrect == Spec => []TypeOK
  BY InitType, NextType, PTL DEF Spec

-----------------------------------------------------------------------------
(* What each thread leaves alone                                           *)

LEMMA ReqFrame ==
    Req => UNCHANGED <<server, clock, missed, session, restarts, userdata, m_localFaceSet, library, mainQ,
                       mainPc, mainId, mainVer, purge, packets, dealPc, dealId>>
  BY DEF Req, ReqTop, ReqAbort, ReqPick, ReqWake, ReqFinish, ReqTick, reqUnchanged, backVars,
         linkVars, rowVars, algoVars, workVars, dealVars

LEMMA RestFrame ==
    Tcp \/ FaceOffline =>
        UNCHANGED <<server, clock, missed, session, requests, restarts, userdata, m_localFaceSet, library,
                    mainQ, mainPc, mainId, mainVer, purge, packets, dealPc, dealId>>
  BY DEF Tcp, UploadFailures, UploadClear, FaceOffline, backVars, linkVars, rowVars, algoVars,
         workVars, dealVars

LEMMA BackFrame ==
    Back => UNCHANGED <<restarts, userdata, m_localFaceSet, library, mainPc, mainId, mainVer,
                        purge, dealPc, dealId>>
  BY DEF Back, ServerSave, ServerDelete, ServerBind, ServerAnswer, ServerIgnore, CommandLost, Login, Break,
         NetLost, envUnchanged, rowVars, algoVars, workVars

LEMMA MainFrame ==
    Main => UNCHANGED <<server, clock, missed, session, requests, restarts, packets, dealId>>
  BY DEF Main, MainAllIds, MainPurgeFace, MainPurgeRow, MainAllIdsEnd, MainClear, MainClearFace, MainClearRows,
         MainClearEnd,
         MainUserAbsent, MainUserUpdate, MainUserNew, MainEnrolBadImage, MainEnrolRefused,
         MainEnrolSave, MainEnrolInsert, MainNewUsers, MainAllIc, MainRemove, mainUnchanged,
         backVars, linkVars

LEMMA DealFrame ==
    Deal => UNCHANGED <<server, clock, missed, session, restarts, library, mainPc, mainId, mainVer, purge>>
<1> USE DEF dealUnchanged, backVars, linkVars, workVars, algoVars
<1>1. DealSave \/ DealDelete \/ DealDeleteRow \/ DealDeleteEnd =>
        UNCHANGED <<server, clock, missed, session, restarts, library, mainPc, mainId, mainVer, purge>>
  BY DEF DealSave, DealDelete, DealDeleteRow, DealDeleteEnd
<1>2. DealBind =>
        UNCHANGED <<server, clock, missed, session, restarts, library, mainPc, mainId, mainVer, purge>>
  BY DEF DealBind
<1> QED
  BY <1>1, <1>2 DEF Deal

LEMMA StutterFrame ==
    UNCHANGED vars =>
        UNCHANGED <<server, clock, missed, session, requests, restarts, userdata, m_localFaceSet, library,
                    mainQ, mainPc, mainId, mainVer, purge, packets, dealPc, dealId>>
  BY DEF vars, backVars, linkVars, rowVars, algoVars, workVars, dealVars

-----------------------------------------------------------------------------
(* The cache of ids                                                        *)

\* How a step changes the rows: it drops some, or changes some, or adds the one Main enrols.
LEMMA RowsOfDelete ==
    ASSUME TypeOK, FaceSetIsTable, NEW u, sqlDelete(u)
    PROVE  FaceSetIsTable' /\ Rows' = Rows \ {u} /\ \A w \in Users : userdata'[w] \in {0, userdata[w]}
  BY DEF TypeOK, FaceSetIsTable, sqlDelete, Rows

LEMMA RowsOfDeleteAll ==
    ASSUME TypeOK, sqlDeleteAll
    PROVE  FaceSetIsTable' /\ Rows' = {} /\ \A w \in Users : userdata'[w] = 0
  BY DEF FaceSetIsTable, sqlDeleteAll, Rows

LEMMA RowsOfUpdate ==
    ASSUME TypeOK, FaceSetIsTable, NEW u \in Users, NEW ver, ver # 0, userdata[u] # 0,
           sqlUpdate(u, ver)
    PROVE  /\ FaceSetIsTable' /\ Rows' = Rows
           /\ \A w \in Users : userdata'[w] = IF w = u THEN ver ELSE userdata[w]
  BY DEF TypeOK, FaceSetIsTable, sqlUpdate, Rows

LEMMA RowsOfInsert ==
    ASSUME TypeOK, FaceSetIsTable, NEW u \in Users, NEW ver, ver # 0, userdata[u] = 0,
           sqlInsert(u, ver)
    PROVE  /\ FaceSetIsTable' /\ Rows' = Rows \cup {u}
           /\ \A w \in Users : userdata'[w] = IF w = u THEN ver ELSE userdata[w]
  BY DEF TypeOK, FaceSetIsTable, sqlInsert, Rows

LEMMA RowsSame ==
    ASSUME UNCHANGED <<userdata, m_localFaceSet>>
    PROVE  (FaceSetIsTable => FaceSetIsTable') /\ Rows' = Rows
  BY DEF FaceSetIsTable, Rows

LEMMA RowsOfRestart ==
    ASSUME Restart
    PROVE  FaceSetIsTable' /\ Rows' = Rows /\ UNCHANGED userdata
  BY DEF Restart, FaceSetIsTable, Rows

CacheInv == TypeOK /\ FaceSetIsTable /\ EnrolInv

LEMMA CacheInit == Init => CacheInv
  BY InitType DEF Init, CacheInv, FaceSetIsTable, EnrolInv, Rows

LEMMA CacheMain == CacheInv /\ Main => FaceSetIsTable' /\ EnrolInv'
<1> SUFFICES ASSUME CacheInv, Main PROVE FaceSetIsTable' /\ EnrolInv'
  OBVIOUS
<1> USE DEF CacheInv, mainUnchanged, rowVars, algoVars, workVars, Take
<1>1. CASE MainAllIds
  BY <1>1, RowsSame DEF MainAllIds, EnrolInv
<1>2. CASE MainPurgeFace
  BY <1>2, RowsSame DEF MainPurgeFace, EnrolInv
<1>3. CASE MainPurgeRow
  BY <1>3, RowsOfDelete DEF MainPurgeRow, EnrolInv
<1>4. CASE MainAllIdsEnd
  BY <1>4, RowsSame DEF MainAllIdsEnd, EnrolInv
<1>5. CASE MainClear
  BY <1>5, RowsSame DEF MainClear, EnrolInv
<1>6f. CASE MainClearFace
  BY <1>6f, RowsSame DEF MainClearFace, EnrolInv
<1>6r. CASE MainClearRows
  BY <1>6r, RowsOfDeleteAll DEF MainClearRows, EnrolInv
<1>6. CASE MainClearEnd
  BY <1>6, RowsSame DEF MainClearEnd, EnrolInv
<1>7. CASE MainUserAbsent
  BY <1>7, RowsSame DEF MainUserAbsent, EnrolInv
<1>8. CASE MainUserUpdate
  <2>1. Head(mainQ).id \in Users
    BY <1>8, TakeType, EventFields DEF MainUserUpdate, TypeOK
  <2> QED
    BY <1>8, <2>1, RowsOfUpdate DEF MainUserUpdate, EnrolInv
<1>9. CASE MainUserNew
  BY <1>9, RowsSame DEF MainUserNew, EnrolInv
<1>10. CASE MainEnrolBadImage
  BY <1>10, RowsSame DEF MainEnrolBadImage, EnrolInv
<1>11. CASE MainEnrolRefused
  BY <1>11, RowsSame DEF MainEnrolRefused, EnrolInv
<1>12. CASE MainEnrolSave
  BY <1>12, RowsSame DEF MainEnrolSave, EnrolInv
<1>13. CASE MainEnrolInsert
  <2>1. mainId \in Users /\ mainVer # 0 /\ userdata[mainId] = 0
    BY <1>13 DEF MainEnrolInsert, EnrolInv, TypeOK
  <2> QED
    BY <1>13, <2>1, RowsOfInsert DEF MainEnrolInsert, EnrolInv
<1>14. CASE MainNewUsers
  BY <1>14, RowsSame DEF MainNewUsers, EnrolInv
<1>15. CASE MainAllIc
  BY <1>15, RowsSame DEF MainAllIc, EnrolInv
<1>16. CASE MainRemove
  BY <1>16, RowsSame DEF MainRemove, EnrolInv
<1> QED
  BY <1>1, <1>2, <1>3, <1>4, <1>5, <1>6f, <1>6r, <1>6, <1>7, <1>8, <1>9, <1>10, <1>11, <1>12,
     <1>13, <1>14, <1>15, <1>16 DEF Main

\* Deal only ever drops rows.
LEMMA DealRows ==
    ASSUME CacheInv, Deal
    PROVE  FaceSetIsTable' /\ \A w \in Users : userdata'[w] \in {0, userdata[w]}
<1> USE DEF CacheInv
<1>1. CASE DealSave
  BY <1>1, RowsSame DEF DealSave, rowVars
<1>2. CASE DealDelete
  BY <1>2, RowsSame DEF DealDelete, rowVars
<1>3. CASE DealDeleteRow
  BY <1>3, RowsOfDelete DEF DealDeleteRow
<1>4. CASE DealDeleteEnd
  BY <1>4, RowsSame DEF DealDeleteEnd, rowVars
<1>5. CASE DealBind
  BY <1>5, RowsSame, RowsOfDeleteAll DEF DealBind, rowVars
<1> QED
  BY <1>1, <1>2, <1>3, <1>4, <1>5 DEF Deal

LEMMA CacheNext == CacheInv /\ [Next]_vars => CacheInv'
<1> SUFFICES ASSUME CacheInv, [Next]_vars PROVE FaceSetIsTable' /\ EnrolInv'
  BY NextType DEF CacheInv
<1> USE DEF CacheInv
<1>1. CASE Main
  BY <1>1, CacheMain
<1>2. CASE Deal
  <2>1. mainPc \in {"enrol", "insert"} => mainId \in Users
    BY DEF TypeOK
  <2> QED
    BY <1>2, <2>1, DealRows, DealFrame DEF EnrolInv
<1>3. CASE Req \/ Tcp \/ FaceOffline \/ Back \/ UNCHANGED vars
  BY <1>3, ReqFrame, RestFrame, BackFrame, StutterFrame, RowsSame DEF EnrolInv
<1>4. CASE Restart
  BY <1>4, RowsOfRestart DEF EnrolInv, Restart
<1> QED
  BY <1>1, <1>2, <1>3, <1>4 DEF Next

LEMMA CacheAlways == Spec => []CacheInv
  BY CacheInit, CacheNext, PTL DEF Spec

\* The cache SqlDatabase keeps of the ids in its table is exact at every moment, whatever the
\* threads that insert, update and delete rows do in between and wherever the process dies.
THEOREM CacheExact == Spec => []FaceSetIsTable
  BY CacheAlways, PTL DEF CacheInv

-----------------------------------------------------------------------------
(* Every row has its face                                                  *)

FaceInv == CacheInv /\ RemoveInv /\ RowHasFace

LEMMA FaceInit == Init => FaceInv
  BY CacheInit DEF Init, FaceInv, RemoveInv, RowHasFace, Rows

\* The removal of a face is announced once, by Deal, which waits for it.
LEMMA RemoveNext == TypeOK /\ RemoveInv /\ [Next]_vars => RemoveInv'
<1> SUFFICES ASSUME TypeOK, RemoveInv, [Next]_vars PROVE RemoveInv'
  OBVIOUS
<1>q. mainQ \in Seq(Event)
  BY DEF TypeOK
<1>1. ASSUME NEW e, e \in Event, e.kind # "remove", mainQ' = Append(mainQ, e),
             UNCHANGED <<dealPc, dealId>> \/ dealPc # "remove"
      PROVE  RemoveInv'
  BY <1>1, <1>q, AppendSeq DEF RemoveInv
<1>2. ASSUME UNCHANGED <<mainQ, dealPc, dealId>>
      PROVE  RemoveInv'
  BY <1>2 DEF RemoveInv
<1>3. ASSUME NEW kind, kind # "remove", Take(kind), UNCHANGED <<dealPc, dealId>>
      PROVE  RemoveInv'
  <2>1. mainQ # <<>> /\ mainQ' = Tail(mainQ)
    BY <1>3 DEF Take
  <2>2. \A i \in 1..Len(mainQ') : i + 1 \in 1..Len(mainQ) /\ mainQ'[i] = mainQ[i + 1]
    BY <1>q, <2>1, TailSeq
  <2>3. \A i, j \in 1..Len(mainQ') : i + 1 = j + 1 => i = j
    OBVIOUS
  <2> QED
    BY <1>3, <2>2, <2>3 DEF RemoveInv
<1>4. CASE MainRemove
  <2>1. mainQ # <<>> /\ mainQ' = Tail(mainQ) /\ mainQ[1].kind = "remove"
    BY <1>4, <1>q, TailSeq DEF MainRemove, Take
  <2>2. \A i \in 1..Len(mainQ') : i + 1 \in 1..Len(mainQ) /\ mainQ'[i] = mainQ[i + 1]
    BY <1>q, <2>1, TailSeq
  <2>3. 1 \in 1..Len(mainQ) /\ \A i \in 1..Len(mainQ') : i + 1 # 1
    BY <2>1, <1>q
  <2> QED
    BY <2>1, <2>2, <2>3 DEF RemoveInv
<1>5. CASE Main /\ ~MainRemove
  <2>1. UNCHANGED <<dealPc, dealId>>
    BY <1>5 DEF Main, MainAllIds, MainPurgeFace, MainPurgeRow, MainAllIdsEnd, MainClear,
       MainClearFace, MainClearRows, MainClearEnd, MainUserAbsent, MainUserUpdate, MainUserNew, MainEnrolBadImage,
       MainEnrolRefused, MainEnrolSave, MainEnrolInsert, MainNewUsers, MainAllIc, mainUnchanged
  <2>2. UNCHANGED mainQ \/ \E kind : kind # "remove" /\ Take(kind)
    BY <1>5 DEF Main, MainAllIds, MainPurgeFace, MainPurgeRow, MainAllIdsEnd, MainClear,
       MainClearFace, MainClearRows, MainClearEnd, MainUserAbsent, MainUserUpdate, MainUserNew, MainEnrolBadImage,
       MainEnrolRefused, MainEnrolSave, MainEnrolInsert, MainNewUsers, MainAllIc
  <2> QED
    BY <2>1, <2>2, <1>2, <1>3
<1>6. CASE DealSave
  <2>1. UNCHANGED <<dealPc, dealId>>
    BY <1>6 DEF DealSave
  <2>2. PICK S \in SUBSET Users : NewUsers(S)
    BY <1>6, TailSeq, PacketType DEF DealSave, TypeOK, TakePacket
  <2>3. [kind |-> "newUsers", ids |-> S] \in Event
    BY DEF Event
  <2> QED
    BY <2>1, <2>2, <2>3, <1>1 DEF NewUsers
<1>7. CASE DealDelete
  <2> DEFINE e == [kind |-> "remove", id |-> Head(packets).id]
  <2>1. dealPc = "idle" /\ dealPc' = "remove" /\ dealId' = e.id /\ mainQ' = Append(mainQ, e)
    BY <1>7 DEF DealDelete, TakePacket
  <2>2. \A i \in 1..Len(mainQ) : mainQ[i].kind # "remove"
    BY <2>1 DEF RemoveInv
  <2>3. e \in Event
    BY <1>7, TailSeq, PacketType DEF DealDelete, TakePacket, TypeOK, Event
  <2>4. /\ \A i \in 1..Len(mainQ) : mainQ'[i].kind # "remove"
        /\ mainQ'[Len(mainQ) + 1] = e
        /\ Len(mainQ') = Len(mainQ) + 1
    BY <1>q, <2>1, <2>2, <2>3, AppendSeq
  <2>5. \A i \in 1..Len(mainQ') : mainQ'[i].kind = "remove" => i = Len(mainQ) + 1
    BY <1>q, <2>4
  <2> QED
    BY <2>1, <2>4, <2>5 DEF RemoveInv
<1>8. CASE DealDeleteRow
  BY <1>8 DEF DealDeleteRow, RemoveInv
<1>9. CASE DealDeleteEnd
  <2>1. [kind |-> "newUsers", ids |-> {}] \in Event
    BY DEF Event
  <2> QED
    BY <1>9, <2>1, <1>1 DEF DealDeleteEnd, NewUsers
<1>10. CASE DealBind
  BY <1>10, <1>2 DEF DealBind
<1>11. CASE ServerAnswer
  <2>1. AnswerTo(Head(requests)) \in Event /\ Head(requests) \in Request
    BY <1>11, TailSeq, AnswerType DEF ServerAnswer, TypeOK
  <2>2. AnswerTo(Head(requests)).kind # "remove"
    BY DEF AnswerTo
  <2> QED
    BY <1>11, <2>1, <2>2, <1>1 DEF ServerAnswer, envUnchanged
<1>12. CASE Back /\ ~ServerAnswer
  BY <1>12, <1>2 DEF Back, ServerSave, ServerDelete, ServerBind, ServerIgnore, CommandLost, Login, Break,
     NetLost, envUnchanged
<1>13. CASE Req \/ Tcp \/ FaceOffline \/ UNCHANGED vars
  BY <1>13, <1>2, ReqFrame, RestFrame, StutterFrame
<1>14. CASE Restart
  BY <1>14 DEF Restart, RemoveInv
<1> QED
  BY <1>4, <1>5, <1>6, <1>7, <1>8, <1>9, <1>10, <1>11, <1>12, <1>13, <1>14 DEF Next, Deal

LEMMA FaceMain == FaceInv /\ Main => RowHasFace'
<1> SUFFICES ASSUME FaceInv, Main, restarts = 0 PROVE \A u \in Rows' : (u \in library \/ BeingRemoved(u))'
  BY MainFrame DEF RowHasFace
<1> USE DEF FaceInv, CacheInv
<1>0. \A u \in Rows : u \in library \/ BeingRemoved(u)
  BY DEF RowHasFace
<1>1. ASSUME UNCHANGED <<userdata, m_localFaceSet, dealPc, dealId>>, library \subseteq library',
             mainPc \notin {"purgeRow", "clear"}
      PROVE  \A u \in Rows' : (u \in library \/ BeingRemoved(u))'
  BY <1>0, <1>1, RowsSame DEF BeingRemoved
<1>2. CASE MainAllIds
  BY <1>1, <1>2 DEF MainAllIds, mainUnchanged, Take, rowVars, algoVars
<1>3. CASE MainPurgeFace
  BY <1>0, <1>3, RowsSame DEF MainPurgeFace, mainUnchanged, rowVars, removeFace, BeingRemoved
<1>4. CASE MainPurgeRow
  BY <1>0, <1>4, RowsOfDelete DEF MainPurgeRow, mainUnchanged, algoVars, BeingRemoved
<1>5. CASE MainAllIdsEnd
  BY <1>1, <1>5 DEF MainAllIdsEnd, mainUnchanged, rowVars, algoVars
<1>6. CASE MainClear
  BY <1>1, <1>6 DEF MainClear, mainUnchanged, Take, rowVars, algoVars
<1>7f. CASE MainClearFace
  BY <1>0, <1>7f, RowsSame DEF MainClearFace, mainUnchanged, rowVars, removeFace, BeingRemoved
<1>7r. CASE MainClearRows
  BY <1>7r, RowsOfDeleteAll DEF MainClearRows
<1>7. CASE MainClearEnd
  BY <1>1, <1>7 DEF MainClearEnd, mainUnchanged, rowVars, algoVars
<1>8. CASE MainUserAbsent
  BY <1>1, <1>8 DEF MainUserAbsent, mainUnchanged, Take, rowVars, algoVars
<1>9. CASE MainUserUpdate
  <2>1. Head(mainQ).id \in Users
    BY <1>9, TakeType, EventFields DEF MainUserUpdate, TypeOK
  <2>2. Rows' = Rows
    BY <1>9, <2>1, RowsOfUpdate DEF MainUserUpdate
  <2> QED
    BY <1>0, <1>9, <2>2 DEF MainUserUpdate, mainUnchanged, Take, algoVars, workVars, BeingRemoved
<1>10. CASE MainUserNew
  BY <1>1, <1>10 DEF MainUserNew, mainUnchanged, Take, rowVars, algoVars
<1>11. CASE MainEnrolBadImage
  BY <1>1, <1>11 DEF MainEnrolBadImage, mainUnchanged, rowVars, algoVars
<1>12. CASE MainEnrolRefused
  BY <1>1, <1>12 DEF MainEnrolRefused, mainUnchanged, rowVars, algoVars
<1>13. CASE MainEnrolSave
  BY <1>1, <1>13 DEF MainEnrolSave, mainUnchanged, rowVars
<1>14. CASE MainEnrolInsert
  <2>1. mainId \in Users /\ mainVer # 0 /\ userdata[mainId] = 0 /\ mainId \in library
    BY <1>14 DEF MainEnrolInsert, EnrolInv, TypeOK
  <2>2. Rows' = Rows \cup {mainId}
    BY <1>14, <2>1, RowsOfInsert DEF MainEnrolInsert
  <2> QED
    BY <1>0, <1>14, <2>1, <2>2 DEF MainEnrolInsert, mainUnchanged, algoVars, BeingRemoved
<1>15. CASE MainNewUsers
  BY <1>1, <1>15 DEF MainNewUsers, mainUnchanged, Take, rowVars, algoVars
<1>16. CASE MainAllIc
  BY <1>1, <1>16 DEF MainAllIc, mainUnchanged, Take, rowVars, algoVars
<1>17. CASE MainRemove
  <2>1. mainPc = "idle" /\ dealPc = "remove" /\ Head(mainQ).id = dealId
    <3>1. mainPc = "idle" /\ mainQ # <<>> /\ mainQ[1].kind = "remove" /\ Head(mainQ) = mainQ[1]
      BY <1>17, TailSeq DEF MainRemove, Take, TypeOK
    <3>2. 1 \in 1..Len(mainQ)
      BY <3>1 DEF TypeOK
    <3> QED
      BY <3>1, <3>2 DEF RemoveInv
  <2>2. Rows' = Rows /\ library' = library \ {dealId} /\ dealPc' = "delRow" /\ dealId' = dealId
    BY <1>17, <2>1, RowsSame DEF MainRemove, removeFace, mainUnchanged, rowVars
  <2> QED
    BY <1>0, <2>1, <2>2 DEF BeingRemoved
<1> QED
  BY <1>2, <1>3, <1>4, <1>5, <1>6, <1>7f, <1>7r, <1>7, <1>8, <1>9, <1>10, <1>11, <1>12, <1>13,
     <1>14, <1>15, <1>16, <1>17 DEF Main

LEMMA FaceDeal == FaceInv /\ Deal => RowHasFace'
<1> SUFFICES ASSUME FaceInv, Deal, restarts = 0 PROVE \A u \in Rows' : (u \in library \/ BeingRemoved(u))'
  BY DealFrame DEF RowHasFace
<1> USE DEF FaceInv, CacheInv
<1>0. \A u \in Rows : u \in library \/ BeingRemoved(u)
  BY DEF RowHasFace
<1>1. CASE DealSave
  BY <1>0, <1>1, DealFrame, RowsSame DEF DealSave, rowVars, BeingRemoved
<1>2. CASE DealDelete
  BY <1>0, <1>2, DealFrame, RowsSame DEF DealDelete, TakePacket, rowVars, BeingRemoved
<1>3. CASE DealDeleteRow
  BY <1>0, <1>3, DealFrame, RowsOfDelete DEF DealDeleteRow, BeingRemoved
<1>4. CASE DealDeleteEnd
  BY <1>0, <1>4, DealFrame, RowsSame DEF DealDeleteEnd, rowVars, BeingRemoved
<1>5. CASE DealBind
  BY <1>0, <1>5, DealFrame, RowsSame, RowsOfDeleteAll DEF DealBind, rowVars, BeingRemoved
<1> QED
  BY <1>1, <1>2, <1>3, <1>4, <1>5 DEF Deal

LEMMA FaceNext == FaceInv /\ [Next]_vars => FaceInv'
<1> SUFFICES ASSUME FaceInv, [Next]_vars PROVE RowHasFace'
  BY CacheNext, RemoveNext DEF FaceInv, CacheInv
<1>1. CASE Req \/ Tcp \/ FaceOffline \/ Back \/ UNCHANGED vars
  BY <1>1, ReqFrame, RestFrame, BackFrame, StutterFrame, RowsSame
     DEF FaceInv, RowHasFace, BeingRemoved
<1>2. CASE Restart
  <2>1. restarts' # 0
    BY <1>2 DEF Restart, FaceInv, CacheInv, TypeOK
  <2> QED
    BY <2>1 DEF RowHasFace
<1> QED
  BY <1>1, <1>2, FaceMain, FaceDeal DEF Next

LEMMA FaceAlways == Spec => []FaceInv
  BY FaceInit, FaceNext, PTL DEF Spec

\* While the process lives nobody is listed as registered whose face the algorithm has forgotten,
\* although three threads enrol, purge and delete faces and rows in separate steps.
THEOREM RowsAreRecognised == Spec => []RowHasFace
  BY FaceAlways, PTL DEF FaceInv

-----------------------------------------------------------------------------
(* Rows never go back                                                      *)

LEMMA NatVersions ==
    ASSUME TypeOK
    PROVE  /\ clock \in Nat /\ mainVer \in Nat
           /\ \A u \in Users : server[u] \in Nat /\ userdata[u] \in Nat
           /\ \A i \in 1..Len(mainQ) : mainQ[i] \in Event
           /\ \A u \in Users, i \in 1..Len(mainQ) : Carries(u, i) => mainQ[i].ver \in Nat
<1>1. Versions \subseteq Nat
  BY DEF Versions
<1>2. \A i \in 1..Len(mainQ) : mainQ[i] \in Event
  BY DEF TypeOK
<1>3. \A u \in Users, i \in 1..Len(mainQ) : Carries(u, i) => mainQ[i].ver \in Versions
  BY <1>2, EventFields DEF Carries
<1>4. clock \in Nat /\ mainVer \in Versions
  BY DEF TypeOK
<1>5. \A u \in Users : server[u] \in Versions /\ userdata[u] \in Versions
  BY DEF TypeOK
<1> QED
  BY <1>1, <1>2, <1>3, <1>4, <1>5

\* A step that drops or delivers the first d events of Main's queue, and gives rows and enrolments
\* only what Main enrols or has just been delivered.
LEMMA OrderForward ==
    ASSUME TypeOK, TypeOK', OrderInv, UNCHANGED <<server, clock>>,
           NEW d \in {0, 1},
           \A i \in 1..Len(mainQ') : \/ i + d \in 1..Len(mainQ) /\ mainQ'[i] = mainQ[i + d]
                                     \/ mainQ'[i].kind # "user",
           \A u \in Users : \/ userdata'[u] \in {0, userdata[u]}
                            \/ Enrolling(u) /\ userdata'[u] = mainVer
                            \/ /\ d = 1 /\ 1 \in 1..Len(mainQ) /\ Carries(u, 1)
                               /\ userdata'[u] = mainQ[1].ver,
           \A u \in Users : Enrolling(u)' =>
                            \/ Enrolling(u) /\ mainVer' = mainVer
                            \/ /\ d = 1 /\ 1 \in 1..Len(mainQ) /\ Carries(u, 1)
                               /\ mainVer' = mainQ[1].ver
    PROVE  OrderInv'
<1> SUFFICES ASSUME NEW u \in Users
             PROVE  /\ server[u] <= clock
                    /\ Known(u, userdata'[u])
                    /\ Enrolling(u)' => Known(u, mainVer')
                    /\ \A i \in 1..Len(mainQ') : Carries(u, i)' =>
                         /\ Known(u, mainQ'[i].ver)
                         /\ userdata'[u] <= mainQ'[i].ver
                         /\ Enrolling(u)' => mainVer' <= mainQ'[i].ver
                         /\ \A j \in 1..i : Carries(u, j)' => mainQ'[j].ver <= mainQ'[i].ver
  BY DEF OrderInv, Known
<1>0. /\ server[u] <= clock
      /\ Known(u, userdata[u])
      /\ Enrolling(u) => Known(u, mainVer)
      /\ \A i \in 1..Len(mainQ) : Carries(u, i) =>
           /\ Known(u, mainQ[i].ver)
           /\ userdata[u] <= mainQ[i].ver
           /\ Enrolling(u) => mainVer <= mainQ[i].ver
           /\ \A j \in 1..i : Carries(u, j) => mainQ[j].ver <= mainQ[i].ver
  BY DEF OrderInv
<1>n. /\ clock \in Nat /\ server[u] \in Nat /\ userdata[u] \in Nat /\ mainVer \in Nat
      /\ \A i \in 1..Len(mainQ) : Carries(u, i) => mainQ[i].ver \in Nat
  BY NatVersions
<1>1. Known(u, 0)
  BY <1>n DEF Known
<1>2. Known(u, userdata'[u])
  BY <1>0, <1>1
<1>3. Enrolling(u)' => Known(u, mainVer')
  BY <1>0
<1>4. ASSUME NEW i \in 1..Len(mainQ'), Carries(u, i)'
      PROVE  /\ Known(u, mainQ'[i].ver)
             /\ userdata'[u] <= mainQ'[i].ver
             /\ Enrolling(u)' => mainVer' <= mainQ'[i].ver
             /\ \A j \in 1..i : Carries(u, j)' => mainQ'[j].ver <= mainQ'[i].ver
  <2>1. i + d \in 1..Len(mainQ) /\ mainQ'[i] = mainQ[i + d] /\ Carries(u, i + d)
    BY <1>4 DEF Carries
  <2>2. d = 1 => 1 \in 1..(i + d)
    OBVIOUS
  <2>3. Known(u, mainQ'[i].ver)
    BY <1>0, <2>1
  <2>4. userdata'[u] <= mainQ'[i].ver
    <3>1. CASE userdata'[u] \in {0, userdata[u]}
      BY <3>1, <1>0, <1>n, <2>1
    <3>2. CASE Enrolling(u) /\ userdata'[u] = mainVer
      BY <3>2, <1>0, <2>1
    <3>3. CASE d = 1 /\ Carries(u, 1) /\ userdata'[u] = mainQ[1].ver
      BY <3>3, <1>0, <2>1, <2>2
    <3> QED
      BY <3>1, <3>2, <3>3
  <2>5. Enrolling(u)' => mainVer' <= mainQ'[i].ver
    BY <1>0, <2>1, <2>2
  <2>6. ASSUME NEW j \in 1..i, Carries(u, j)'
        PROVE  mainQ'[j].ver <= mainQ'[i].ver
    <3>1. j \in 1..Len(mainQ') /\ j + d \in 1..(i + d)
      BY DEF TypeOK
    <3>2. mainQ'[j] = mainQ[j + d] /\ Carries(u, j + d)
      BY <2>6, <3>1 DEF Carries
    <3> QED
      BY <1>0, <2>1, <3>1, <3>2
  <2> QED
    BY <2>3, <2>4, <2>5, <2>6
<1> QED
  BY <1>0, <1>2, <1>3, <1>4

OrderCtx == CacheInv /\ OrderInv

LEMMA OrderInit == Init => OrderInv
<1> SUFFICES ASSUME Init PROVE OrderInv
  OBVIOUS
<1>1. mainQ = <<>> /\ mainPc = "idle" /\ clock = 0 /\ \A u \in Users : server[u] = 0 /\ userdata[u] = 0
  BY DEF Init
<1>2. \A i \in 1..Len(mainQ) : FALSE
  BY <1>1
<1>3. \A u \in Users : server[u] <= clock /\ userdata[u] <= clock /\ server[u] = 0
  <2>1. 0 <= 0
    OBVIOUS
  <2> QED
    BY <1>1, <2>1, Zenon
<1>4. \A u \in Users : ~Enrolling(u)
  BY <1>1 DEF Enrolling
<1>5. \A u \in Users : Known(u, userdata[u])
  BY <1>3 DEF Known
<1> QED
  BY <1>2, <1>3, <1>4, <1>5 DEF OrderInv

\* Two frequent uses of OrderForward: nothing is delivered, and an event that matters to nobody's
\* row is.
LEMMA OrderStill ==
    ASSUME TypeOK, TypeOK', OrderInv, UNCHANGED <<server, clock>>,
           \A i \in 1..Len(mainQ') : \/ i \in 1..Len(mainQ) /\ mainQ'[i] = mainQ[i]
                                     \/ mainQ'[i].kind # "user",
           \A u \in Users : \/ userdata'[u] \in {0, userdata[u]}
                            \/ Enrolling(u) /\ userdata'[u] = mainVer,
           \A u \in Users : Enrolling(u)' => Enrolling(u) /\ mainVer' = mainVer
    PROVE  OrderInv'
<1> DEFINE d == 0
<1>1. d \in {0, 1} /\ \A i \in 1..Len(mainQ') : i + d = i
  BY DEF TypeOK
<1>2. \A i \in 1..Len(mainQ') : \/ i + d \in 1..Len(mainQ) /\ mainQ'[i] = mainQ[i + d]
                                \/ mainQ'[i].kind # "user"
  BY <1>1
<1> HIDE DEF d
<1> QED
  BY <1>1, <1>2, OrderForward

LEMMA TakeShift ==
    ASSUME TypeOK, NEW kind, Take(kind)
    PROVE  /\ mainPc = "idle" /\ 1 \in 1..Len(mainQ) /\ Head(mainQ) = mainQ[1] /\ mainQ[1].kind = kind
           /\ Len(mainQ') = Len(mainQ) - 1
           /\ \A i \in 1..Len(mainQ') : i + 1 \in 1..Len(mainQ) /\ mainQ'[i] = mainQ[i + 1]
<1>1. mainQ \in Seq(Event) /\ mainQ # <<>> /\ mainQ' = Tail(mainQ)
  BY DEF TypeOK, Take
<1>2. 1 \in 1..Len(mainQ) /\ Len(mainQ) \in Nat
  BY <1>1
<1> QED
  BY <1>1, <1>2, TailSeq DEF Take

LEMMA OrderTake ==
    ASSUME TypeOK, TypeOK', OrderInv, UNCHANGED <<server, clock, userdata>>, NEW kind, Take(kind),
           mainPc' \notin {"enrol", "insert"}
    PROVE  OrderInv'
<1> DEFINE d == 1
<1>1. d \in {0, 1} /\ \A i \in 1..Len(mainQ') : i + d \in 1..Len(mainQ) /\ mainQ'[i] = mainQ[i + d]
  BY TakeShift
<1>2. \A u \in Users : ~Enrolling(u)'
  BY DEF Enrolling
<1> HIDE DEF d
<1> QED
  BY <1>1, <1>2, OrderForward

LEMMA OrderMain == OrderCtx /\ TypeOK' /\ Main => OrderInv'
<1> SUFFICES ASSUME OrderCtx, TypeOK', Main PROVE OrderInv'
  OBVIOUS
<1> USE DEF OrderCtx, CacheInv
<1>0. UNCHANGED <<server, clock>> /\ \A u \in Users : userdata[u] \in {0, userdata[u]}
  BY MainFrame
<1>s. ASSUME UNCHANGED mainQ, \A u \in Users : userdata'[u] \in {0, userdata[u]},
             mainPc' \notin {"enrol", "insert"}
      PROVE  OrderInv'
  BY <1>0, <1>s, OrderStill DEF Enrolling
<1>1. CASE MainAllIds
  <2>1. Take("allIds") /\ mainPc' = "purge" /\ UNCHANGED userdata
    BY <1>1 DEF MainAllIds, rowVars
  <2> QED
    BY <1>0, <2>1, OrderTake
<1>2. CASE MainPurgeFace
  BY <1>2, <1>0, <1>s DEF MainPurgeFace, rowVars
<1>3. CASE MainPurgeRow
  BY <1>3, <1>s, RowsOfDelete DEF MainPurgeRow
<1>4. CASE MainAllIdsEnd
  BY <1>4, <1>0, <1>s DEF MainAllIdsEnd, rowVars
<1>5. CASE MainClear
  BY <1>5, <1>0, OrderTake DEF MainClear, rowVars
<1>6f. CASE MainClearFace
  BY <1>6f, <1>0, <1>s DEF MainClearFace, rowVars
<1>6r. CASE MainClearRows
  BY <1>6r, <1>s, RowsOfDeleteAll DEF MainClearRows
<1>6. CASE MainClearEnd
  BY <1>6, <1>0, <1>s DEF MainClearEnd, rowVars
<1>7. CASE MainUserAbsent
  <2>1. mainPc' \notin {"enrol", "insert"}
    BY <1>7 DEF MainUserAbsent, Take, workVars
  <2> QED
    BY <1>7, <1>0, <2>1, OrderTake DEF MainUserAbsent, rowVars
<1>8. CASE MainUserUpdate
  <2> DEFINE d == 1
  <2>1. Take("user")
    BY <1>8 DEF MainUserUpdate
  <2>2. /\ d \in {0, 1}
        /\ \A i \in 1..Len(mainQ') : i + d \in 1..Len(mainQ) /\ mainQ'[i] = mainQ[i + d]
    BY <2>1, TakeShift
  <2>3. Head(mainQ) = mainQ[1] /\ 1 \in 1..Len(mainQ) /\ mainQ[1].kind = "user" /\ mainPc = "idle"
    BY <2>1, TakeShift
  <2>4. mainQ[1].ver # 0 /\ mainQ[1].id \in Users /\ Carries(mainQ[1].id, 1)
    BY <1>8, <2>3, NatVersions, EventFields DEF MainUserUpdate, Carries
  <2>5. \A u \in Users : userdata'[u] = IF u = mainQ[1].id THEN mainQ[1].ver ELSE userdata[u]
    BY <1>8, <2>3, <2>4, RowsOfUpdate DEF MainUserUpdate
  <2>6. \A u \in Users : ~Enrolling(u)'
    BY <1>8, <2>3 DEF MainUserUpdate, workVars, Enrolling
  <2>7. \A u \in Users : \/ userdata'[u] \in {0, userdata[u]}
                         \/ d = 1 /\ 1 \in 1..Len(mainQ) /\ Carries(u, 1) /\ userdata'[u] = mainQ[1].ver
    BY <2>3, <2>4, <2>5
  <2> HIDE DEF d
  <2> QED
    BY <1>0, <2>2, <2>6, <2>7, OrderForward
<1>9. CASE MainUserNew
  <2> DEFINE d == 1
  <2>1. Take("user")
    BY <1>9 DEF MainUserNew
  <2>2. /\ d \in {0, 1}
        /\ \A i \in 1..Len(mainQ') : i + d \in 1..Len(mainQ) /\ mainQ'[i] = mainQ[i + d]
    BY <2>1, TakeShift
  <2>3. Head(mainQ) = mainQ[1] /\ 1 \in 1..Len(mainQ) /\ mainQ[1].kind = "user"
    BY <2>1, TakeShift
  <2>4. \A u \in Users : Enrolling(u)' =>
            d = 1 /\ 1 \in 1..Len(mainQ) /\ Carries(u, 1) /\ mainVer' = mainQ[1].ver
    BY <1>9, <2>3 DEF MainUserNew, Enrolling, Carries
  <2>5. UNCHANGED userdata
    BY <1>9 DEF MainUserNew, rowVars
  <2> HIDE DEF d
  <2> QED
    BY <1>0, <2>2, <2>4, <2>5, OrderForward
<1>10. CASE MainEnrolBadImage
  BY <1>10, <1>0, <1>s DEF MainEnrolBadImage, rowVars
<1>11. CASE MainEnrolRefused
  BY <1>11, <1>0, <1>s DEF MainEnrolRefused, rowVars
<1>12. CASE MainEnrolSave
  BY <1>12, <1>0, OrderStill DEF MainEnrolSave, rowVars, Enrolling
<1>13. CASE MainEnrolInsert
  <2>1. mainId \in Users /\ mainVer # 0 /\ userdata[mainId] = 0 /\ Enrolling(mainId)
    BY <1>13 DEF MainEnrolInsert, EnrolInv, TypeOK, Enrolling
  <2>2. \A u \in Users : userdata'[u] = IF u = mainId THEN mainVer ELSE userdata[u]
    BY <1>13, <2>1, RowsOfInsert DEF MainEnrolInsert
  <2>3. UNCHANGED mainQ /\ \A u \in Users : ~Enrolling(u)'
    BY <1>13 DEF MainEnrolInsert, Enrolling
  <2> QED
    BY <1>0, <2>1, <2>2, <2>3, OrderStill
<1>14. CASE MainNewUsers
  <2>1. mainPc' \notin {"enrol", "insert"}
    BY <1>14 DEF MainNewUsers, Take, workVars
  <2> QED
    BY <1>14, <1>0, <2>1, OrderTake DEF MainNewUsers, rowVars
<1>15. CASE MainAllIc
  <2>1. mainPc' \notin {"enrol", "insert"}
    BY <1>15 DEF MainAllIc, Take, workVars
  <2> QED
    BY <1>15, <1>0, <2>1, OrderTake DEF MainAllIc, rowVars
<1>16. CASE MainRemove
  <2>1. mainPc' \notin {"enrol", "insert"}
    BY <1>16 DEF MainRemove, Take, workVars
  <2> QED
    BY <1>16, <1>0, <2>1, OrderTake DEF MainRemove, rowVars
<1> QED
  BY <1>1, <1>2, <1>3, <1>4, <1>5, <1>6f, <1>6r, <1>6, <1>7, <1>8, <1>9, <1>10, <1>11, <1>12,
     <1>13, <1>14, <1>15, <1>16 DEF Main

\* What Deal adds to Main's queue carries nobody.
LEMMA DealQueue ==
    ASSUME TypeOK, Deal
    PROVE  \/ UNCHANGED mainQ
           \/ \E e \in Event : e.kind \in {"newUsers", "remove"} /\ mainQ' = Append(mainQ, e)
<1>1. CASE DealSave
  <2>1. PICK S \in SUBSET Users : NewUsers(S)
    BY <1>1, TailSeq, PacketType DEF DealSave, TypeOK, TakePacket
  <2>2. [kind |-> "newUsers", ids |-> S] \in Event
    BY DEF Event
  <2> QED
    BY <2>1, <2>2 DEF NewUsers
<1>2. CASE DealDelete
  <2>1. [kind |-> "remove", id |-> Head(packets).id] \in Event
    BY <1>2, TailSeq, PacketType DEF DealDelete, TakePacket, TypeOK, Event
  <2> QED
    BY <1>2, <2>1 DEF DealDelete
<1>3. CASE DealDeleteRow
  BY <1>3 DEF DealDeleteRow
<1>4. CASE DealDeleteEnd
  <2>1. [kind |-> "newUsers", ids |-> {}] \in Event
    BY DEF Event
  <2> QED
    BY <1>4, <2>1 DEF DealDeleteEnd, NewUsers
<1>5. CASE DealBind
  BY <1>5 DEF DealBind
<1> QED
  BY <1>1, <1>2, <1>3, <1>4, <1>5 DEF Deal

LEMMA AppendCases ==
    ASSUME TypeOK, NEW e \in Event, mainQ' = Append(mainQ, e)
    PROVE  /\ Len(mainQ) \in Nat /\ Len(mainQ') = Len(mainQ) + 1
           /\ \A i \in 1..Len(mainQ) : i \in 1..Len(mainQ') /\ mainQ'[i] = mainQ[i]
           /\ Len(mainQ) + 1 \in 1..Len(mainQ') /\ mainQ'[Len(mainQ) + 1] = e
           /\ \A i \in 1..Len(mainQ') : i \in 1..Len(mainQ) \/ i = Len(mainQ) + 1
<1>1. Len(mainQ) \in Nat
  BY DEF TypeOK
<1> QED
  BY <1>1, AppendSeq DEF TypeOK

LEMMA OrderDeal == OrderCtx /\ TypeOK' /\ Deal => OrderInv'
<1> SUFFICES ASSUME OrderCtx, TypeOK', Deal PROVE OrderInv'
  OBVIOUS
<1> USE DEF OrderCtx
<1>t. TypeOK
  BY DEF CacheInv
<1>1. \A i \in 1..Len(mainQ') : \/ i \in 1..Len(mainQ) /\ mainQ'[i] = mainQ[i]
                                \/ mainQ'[i].kind # "user"
  BY <1>t, DealQueue, AppendCases
<1>2. \A u \in Users : Enrolling(u)' => Enrolling(u) /\ mainVer' = mainVer
  BY DealFrame DEF Enrolling
<1> QED
  BY <1>t, <1>1, <1>2, DealFrame, DealRows, OrderStill

\* A change at the back end: what was known stays known.
LEMMA OrderLater ==
    ASSUME TypeOK, OrderInv, UNCHANGED <<userdata, mainVer, mainQ>>,
           \A w \in Users : Enrolling(w)' <=> Enrolling(w),
           \A w \in Users : server'[w] <= clock',
           \A w \in Users, v \in Nat :
               Known(w, v) => v <= clock' /\ (server'[w] # 0 => v <= server'[w])
    PROVE  OrderInv'
<1> SUFFICES ASSUME NEW w \in Users
             PROVE  (/\ server[w] <= clock
                     /\ Known(w, userdata[w])
                     /\ Enrolling(w) => Known(w, mainVer)
                     /\ \A i \in 1..Len(mainQ) : Carries(w, i) =>
                          /\ Known(w, mainQ[i].ver)
                          /\ userdata[w] <= mainQ[i].ver
                          /\ Enrolling(w) => mainVer <= mainQ[i].ver
                          /\ \A j \in 1..i : Carries(w, j) => mainQ[j].ver <= mainQ[i].ver)'
  BY DEF OrderInv
<1>1. Known(w, userdata[w])'
  BY NatVersions DEF OrderInv, Known
<1>2. (Enrolling(w) => Known(w, mainVer))'
  BY NatVersions DEF OrderInv, Known
<1>3. ASSUME NEW i \in 1..Len(mainQ), Carries(w, i)
      PROVE  /\ Known(w, mainQ[i].ver)'
             /\ userdata[w] <= mainQ[i].ver
             /\ Enrolling(w) => mainVer <= mainQ[i].ver
             /\ \A j \in 1..i : Carries(w, j) => mainQ[j].ver <= mainQ[i].ver
  <2>1. mainQ[i].ver \in Nat
    BY <1>3, NatVersions
  <2>2. Known(w, mainQ[i].ver)'
    BY <1>3, <2>1 DEF OrderInv, Known
  <2> QED
    BY <1>3, <2>2 DEF OrderInv
<1>4. \A i : Carries(w, i)' <=> Carries(w, i)
  BY DEF Carries
<1> QED
  BY <1>1, <1>2, <1>3, <1>4

LEMMA OrderBack == OrderCtx /\ TypeOK' /\ Back => OrderInv'
<1> SUFFICES ASSUME OrderCtx, TypeOK', Back PROVE OrderInv'
  OBVIOUS
<1> USE DEF OrderCtx
<1>t. TypeOK
  BY DEF CacheInv
<1>n. clock \in Nat /\ \A u \in Users : server[u] \in Nat /\ server[u] <= clock
  BY <1>t, NatVersions DEF OrderInv
<1>s. /\ UNCHANGED <<userdata, mainVer>>
      /\ \A u \in Users : Enrolling(u)' <=> Enrolling(u)
  BY BackFrame DEF Enrolling
<1>1. ASSUME NEW u \in Users, ServerSave(u) \/ ServerDelete(u)
      PROVE  OrderInv'
  <2>1. /\ UNCHANGED mainQ
        /\ clock' = clock + 1
        /\ \A w \in Users : server'[w] = server[w] \/ server'[w] = clock + 1 \/ server'[w] = 0
    BY <1>1, <1>t DEF ServerSave, ServerDelete, TypeOK
  <2>2. \A w \in Users, v \in Nat :
            Known(w, v) => v <= clock' /\ (server'[w] # 0 => v <= server'[w])
    BY <1>n, <2>1 DEF Known
  <2>3. \A w \in Users : server'[w] <= clock'
    BY <1>n, <2>1
  <2> QED
    BY <1>t, <1>s, <2>1, <2>2, <2>3, OrderLater
<1>2. CASE ServerBind
  <2>1. UNCHANGED <<mainQ, server>> /\ clock' = clock + 1
    BY <1>2 DEF ServerBind
  <2>2. \A w \in Users, v \in Nat :
            Known(w, v) => v <= clock' /\ (server'[w] # 0 => v <= server'[w])
    BY <1>n, <2>1 DEF Known
  <2>3. \A w \in Users : server'[w] <= clock'
    BY <1>n, <2>1
  <2> QED
    BY <1>t, <1>s, <2>1, <2>2, <2>3, OrderLater
<1>3. CASE ServerAnswer
  <2> DEFINE e == AnswerTo(Head(requests))
  <2>1. UNCHANGED <<server, clock>> /\ mainQ' = Append(mainQ, e) /\ e \in Event
    BY <1>3, <1>t, TailSeq, AnswerType DEF ServerAnswer, TypeOK, backVars
  <2>2. e.kind = "user" /\ e.ver # 0 => e.id \in Users /\ e.ver = server[e.id]
    BY DEF AnswerTo
  <2> HIDE DEF e
  <2>4. ASSUME NEW w \in Users
        PROVE  (/\ server[w] <= clock
                /\ Known(w, userdata[w])
                /\ Enrolling(w) => Known(w, mainVer))'
    BY <1>s, <2>1 DEF OrderInv, Known
  <2>5. ASSUME NEW w \in Users, NEW i \in 1..Len(mainQ'), Carries(w, i)'
        PROVE  (/\ Known(w, mainQ[i].ver)
                /\ userdata[w] <= mainQ[i].ver
                /\ Enrolling(w) => mainVer <= mainQ[i].ver
                /\ \A j \in 1..i : Carries(w, j) => mainQ[j].ver <= mainQ[i].ver)'
    <3>1. CASE i \in 1..Len(mainQ)
      <4>1. mainQ'[i] = mainQ[i] /\ Carries(w, i)
        BY <1>t, <2>1, <2>5, <3>1, AppendCases DEF Carries
      <4>2. \A j \in 1..i : j \in 1..Len(mainQ) /\ mainQ'[j] = mainQ[j]
        BY <1>t, <2>1, <3>1, AppendCases
      <4>3. \A j \in 1..i : Carries(w, j)' => Carries(w, j)
        BY <4>2 DEF Carries
      <4>4. Known(w, mainQ[i].ver)'
        BY <2>1, <3>1, <4>1 DEF OrderInv, Known
      <4>5. \A j \in 1..i : Carries(w, j) => mainQ[j].ver <= mainQ[i].ver
        BY <3>1, <4>1 DEF OrderInv
      <4>6. userdata[w] <= mainQ[i].ver /\ (Enrolling(w) => mainVer <= mainQ[i].ver)
        BY <3>1, <4>1 DEF OrderInv
      <4> QED
        BY <1>s, <4>1, <4>2, <4>3, <4>4, <4>5, <4>6
    <3>2. CASE i = Len(mainQ) + 1
      <4>1. mainQ'[i] = e /\ e.kind = "user" /\ e.id = w /\ e.ver # 0
        BY <1>t, <2>1, <2>5, <3>2, AppendCases DEF Carries
      <4>2. e.ver = server[w] /\ server[w] # 0
        BY <2>2, <4>1
      <4>3. Known(w, mainQ[i].ver)'
        BY <1>n, <2>1, <4>1, <4>2 DEF Known
      <4>4. userdata[w] <= server[w] /\ (Enrolling(w) => mainVer <= server[w])
        BY <4>2 DEF OrderInv, Known
      <4>5. ASSUME NEW j \in 1..i, Carries(w, j)'
            PROVE  mainQ'[j].ver <= server[w]
        <5>1. CASE j = i
          BY <1>n, <4>1, <4>2, <5>1
        <5>2. CASE j # i
          <6>1. j \in 1..Len(mainQ)
            BY <1>t, <2>1, <3>2, <5>2, AppendCases
          <6>2. mainQ'[j] = mainQ[j] /\ Carries(w, j)
            BY <1>t, <2>1, <4>5, <6>1, AppendCases DEF Carries
          <6> QED
            BY <4>2, <6>1, <6>2 DEF OrderInv, Known
        <5> QED
          BY <5>1, <5>2
      <4> QED
        BY <1>s, <4>1, <4>2, <4>3, <4>4, <4>5
    <3> QED
      BY <1>t, <2>1, <3>1, <3>2, AppendCases
  <2> QED
    BY <2>4, <2>5 DEF OrderInv
<1>4. CASE ServerIgnore \/ CommandLost \/ Login \/ Break \/ NetLost
  <2>1. UNCHANGED <<server, clock, mainQ>>
    BY <1>4 DEF ServerIgnore, CommandLost, Login, Break, NetLost, backVars
  <2> QED
    BY <1>t, <1>s, <2>1, OrderStill
<1> QED
  BY <1>1, <1>2, <1>3, <1>4 DEF Back

LEMMA OrderNext == OrderCtx /\ [Next]_vars => OrderCtx'
<1> SUFFICES ASSUME OrderCtx, [Next]_vars PROVE OrderInv'
  BY CacheNext DEF OrderCtx
<1>t. TypeOK /\ TypeOK'
  BY NextType DEF OrderCtx, CacheInv
<1>1. CASE Req \/ Tcp \/ FaceOffline \/ UNCHANGED vars
  <2>1. UNCHANGED <<server, clock, userdata, mainQ, mainPc, mainId, mainVer>>
    BY <1>1, ReqFrame, RestFrame, StutterFrame
  <2> QED
    BY <1>t, <2>1, OrderStill DEF OrderCtx, Enrolling
<1>2. CASE Restart
  <2>1. UNCHANGED <<server, clock, userdata>> /\ mainQ' = <<>> /\ mainPc' = "idle"
    BY <1>2 DEF Restart, backVars
  <2>2. \A i \in 1..Len(mainQ') : FALSE
    BY <2>1
  <2> QED
    BY <1>t, <2>1, <2>2, OrderStill DEF OrderCtx, Enrolling
<1> QED
  BY <1>1, <1>2, <1>t, OrderMain, OrderDeal, OrderBack DEF Next

LEMMA OrderAlways == Spec => []OrderCtx
  BY CacheInit, OrderInit, OrderNext, PTL DEF Spec, OrderCtx

GoesForward == \A u \in Users : userdata'[u] # 0 => userdata'[u] >= userdata[u]

LEMMA ForwardMain == OrderCtx /\ Main => GoesForward
<1> SUFFICES ASSUME OrderCtx, Main PROVE GoesForward
  OBVIOUS
<1> USE DEF OrderCtx, CacheInv
<1>n. \A u \in Users : userdata[u] \in Nat
  BY NatVersions
<1>s. ASSUME \A u \in Users : userdata'[u] \in {0, userdata[u]}
      PROVE  GoesForward
  BY <1>n, <1>s DEF GoesForward
<1>1. CASE MainPurgeRow
  BY <1>1, <1>s, RowsOfDelete DEF MainPurgeRow
<1>2. CASE MainClearRows
  BY <1>2, <1>s, RowsOfDeleteAll DEF MainClearRows
<1>3. CASE MainUserUpdate
  <2>1. Head(mainQ) = mainQ[1] /\ 1 \in 1..Len(mainQ) /\ mainQ[1].kind = "user"
    BY <1>3, TakeShift DEF MainUserUpdate
  <2>2. mainQ[1].ver # 0 /\ mainQ[1].id \in Users /\ Carries(mainQ[1].id, 1)
    BY <1>3, <2>1, NatVersions, EventFields DEF MainUserUpdate, Carries
  <2>3. userdata[mainQ[1].id] <= mainQ[1].ver /\ mainQ[1].ver \in Nat
    BY <2>1, <2>2, NatVersions DEF OrderInv
  <2>4. \A u \in Users : userdata'[u] = IF u = mainQ[1].id THEN mainQ[1].ver ELSE userdata[u]
    BY <1>3, <2>1, <2>2, RowsOfUpdate DEF MainUserUpdate
  <2> QED
    BY <1>n, <2>3, <2>4 DEF GoesForward
<1>4. CASE MainEnrolInsert
  <2>1. mainId \in Users /\ mainVer # 0 /\ userdata[mainId] = 0 /\ mainVer \in Nat
    BY <1>4, NatVersions DEF MainEnrolInsert, EnrolInv, TypeOK
  <2>2. \A u \in Users : userdata'[u] = IF u = mainId THEN mainVer ELSE userdata[u]
    BY <1>4, <2>1, RowsOfInsert DEF MainEnrolInsert
  <2> QED
    BY <1>n, <2>1, <2>2 DEF GoesForward
<1>5. CASE ~(MainPurgeRow \/ MainClearRows \/ MainUserUpdate \/ MainEnrolInsert)
  <2>1. UNCHANGED userdata
    BY <1>5 DEF Main, MainAllIds, MainPurgeFace, MainAllIdsEnd, MainClear, MainClearFace,
       MainClearEnd, MainUserAbsent, MainUserNew, MainEnrolBadImage, MainEnrolRefused, MainEnrolSave, MainNewUsers, MainAllIc,
       MainRemove, rowVars
  <2> QED
    BY <1>s, <2>1
<1> QED
  BY <1>1, <1>2, <1>3, <1>4, <1>5

LEMMA ForwardNext == OrderCtx /\ [Next]_vars => GoesForward
<1> SUFFICES ASSUME OrderCtx, [Next]_vars PROVE GoesForward
  OBVIOUS
<1>n. \A u \in Users : userdata[u] \in Nat
  BY NatVersions DEF OrderCtx, CacheInv
<1>1. CASE Deal
  BY <1>1, <1>n, DealRows DEF OrderCtx, GoesForward
<1>2. CASE Req \/ Tcp \/ FaceOffline \/ Back \/ Restart \/ UNCHANGED vars
  <2>1. UNCHANGED userdata
    BY <1>2, ReqFrame, RestFrame, BackFrame, RowsOfRestart, StutterFrame
  <2> QED
    BY <1>n, <2>1 DEF GoesForward
<1> QED
  BY <1>1, <1>2, ForwardMain DEF Next

\* However late an answer comes, and however many requests timeouts have left outstanding, a row
\* only ever moves on to a newer version of the person or goes away.
THEOREM RowsForward == Spec => RowsNeverGoBack
<1>1. OrderCtx /\ [Next]_vars => [\A u \in Users : userdata'[u] # 0 => userdata'[u] >= userdata[u]]_vars
  BY ForwardNext DEF GoesForward
<1> QED
  BY <1>1, OrderAlways, PTL DEF Spec, RowsNeverGoBack

-----------------------------------------------------------------------------
(* No ghosts                                                               *)

LEMMA IndexFacts ==
    ASSUME TypeOK
    PROVE  Len(requests) \in Nat /\ Len(packets) \in Nat /\ Len(mainQ) \in Nat
  BY DEF TypeOK

\* Nothing on its way is lost by a step that only adds to the queues.
LEMMA ComingStays ==
    ASSUME NEW u, NEW i,
           \A k \in 1..Len(requests) : k \in 1..Len(requests') /\ requests'[k] = requests[k],
           \A k \in 1..Len(packets) : k \in 1..Len(packets') /\ packets'[k] = packets[k],
           \A k \in 1..Len(mainQ) : k \in 1..Len(mainQ') /\ mainQ'[k] = mainQ[k],
           Coming(u, i)
    PROVE  (Coming(u, i))'
  BY DEF Coming, Removes, AskAll

LEMMA ComingTake ==
    ASSUME TypeOK, UNCHANGED <<requests, packets>>, NEW kind, Take(kind), NEW u, NEW i \in Nat,
           Coming(u, i + 1)
    PROVE  (Coming(u, i))'
<1>1. CASE \E k \in 1..Len(mainQ) : k > i + 1 /\ Removes(u, mainQ[k])
  <2>1. PICK k \in 1..Len(mainQ) : k > i + 1 /\ Removes(u, mainQ[k])
    BY <1>1
  <2>2. k - 1 \in 1..Len(mainQ') /\ k - 1 > i /\ (k - 1) + 1 = k
    BY <2>1, TakeShift, IndexFacts
  <2>3. mainQ'[k - 1] = mainQ[k]
    BY <2>2, TakeShift
  <2> QED
    BY <2>1, <2>2, <2>3 DEF Coming, Removes
<1>2. CASE ~ \E k \in 1..Len(mainQ) : k > i + 1 /\ Removes(u, mainQ[k])
  BY <1>2 DEF Coming, AskAll
<1> QED
  BY <1>1, <1>2

LEMMA ComingTakeOther ==
    ASSUME TypeOK, UNCHANGED <<requests, packets>>, NEW kind, Take(kind), NEW u,
           Coming(u, 0), ~Removes(u, mainQ[1])
    PROVE  (Coming(u, 0))'
<1>1. Coming(u, 1)
  <2>1. \A k \in 1..Len(mainQ) : Removes(u, mainQ[k]) => k > 1
    BY IndexFacts
  <2> QED
    BY <2>1 DEF Coming
<1> QED
  BY <1>1, ComingTake

GhostCtx == CacheInv /\ RemoveInv /\ GhostInv /\ PurgeInv /\ NoGhost

LEMMA GhostInit == Init => GhostCtx
<1> SUFFICES ASSUME Init PROVE GhostCtx
  OBVIOUS
<1>1. ~session /\ purge = {} /\ CacheInv /\ RemoveInv
  BY CacheInit, FaceInit DEF Init, FaceInv
<1> QED
  BY <1>1 DEF GhostCtx, GhostInv, PurgeInv, NoGhost, Doomed, Owed

LEMMA PurgeNext == TypeOK /\ PurgeInv /\ [Next]_vars => PurgeInv'
<1> SUFFICES ASSUME PurgeInv, [Next]_vars PROVE PurgeInv'
  OBVIOUS
<1>1. CASE Main
  BY <1>1 DEF Main, MainAllIds, MainPurgeFace, MainPurgeRow, MainAllIdsEnd, MainClear, MainClearFace, MainClearRows,
         MainClearEnd,
     MainUserAbsent, MainUserUpdate, MainUserNew, MainEnrolBadImage, MainEnrolRefused,
     MainEnrolSave, MainEnrolInsert, MainNewUsers, MainAllIc, MainRemove, workVars, Take, PurgeInv
<1>2. CASE Req \/ Tcp \/ FaceOffline \/ Back \/ Deal \/ UNCHANGED vars
  BY <1>2, ReqFrame, RestFrame, BackFrame, DealFrame, StutterFrame DEF PurgeInv
<1>3. CASE Restart
  BY <1>3 DEF Restart, PurgeInv
<1> QED
  BY <1>1, <1>2, <1>3 DEF Next

\* What Main takes from its queue it can enrol only if it carries the person.
LEMMA GhostTake ==
    ASSUME TypeOK, GhostInv, UNCHANGED <<server, missed, session, requests, packets>>, NEW kind, Take(kind),
           \A u \in Users : Enrolling(u)' => Carries(u, 1)
    PROVE  GhostInv'
<1> SUFFICES ASSUME NEW u \in Users, Owed(u)
             PROVE  (/\ Enrolling(u) => Coming(u, 0)
                     /\ \A i \in 1..Len(mainQ) : Carries(u, i) => Coming(u, i))'
  BY DEF GhostInv, Owed
<1>0. \A i \in 1..Len(mainQ) : Carries(u, i) => Coming(u, i)
  BY DEF GhostInv
<1>1. (Enrolling(u) => Coming(u, 0))'
  <2>1. 0 + 1 = 1 /\ 1 \in 1..Len(mainQ)
    BY TakeShift
  <2> QED
    BY <1>0, <2>1, ComingTake
<1>2. ASSUME NEW i \in 1..Len(mainQ'), Carries(u, i)'
      PROVE  (Coming(u, i))'
  <2>1. i + 1 \in 1..Len(mainQ) /\ Carries(u, i + 1)
    BY <1>2, TakeShift DEF Carries
  <2> QED
    BY <1>0, <2>1, ComingTake
<1> QED
  BY <1>1, <1>2

LEMMA GhostStill ==
    ASSUME GhostInv, UNCHANGED <<server, missed, session, requests, packets, mainQ>>,
           \A u \in Users : Enrolling(u)' => Enrolling(u)
    PROVE  GhostInv'
<1>1. \A u, i : (Coming(u, i))' <=> Coming(u, i)
  BY DEF Coming, Removes, AskAll
<1>2. \A u, i : (Carries(u, i))' <=> Carries(u, i)
  BY DEF Carries
<1> QED
  BY <1>1, <1>2 DEF GhostInv, Owed

LEMMA GhostMain == GhostCtx /\ Main => GhostInv' /\ NoGhost'
<1> SUFFICES ASSUME GhostCtx, Main PROVE GhostInv' /\ NoGhost'
  OBVIOUS
<1> USE DEF GhostCtx, CacheInv
<1>f. UNCHANGED <<server, missed, session, requests, packets, dealId>>
  BY MainFrame
<1>g. \A u \in Rows : Owed(u) => Doomed(u)
  BY DEF NoGhost, Doomed, Owed
<1>c. UNCHANGED mainQ => \A u, i : (Coming(u, i))' <=> Coming(u, i)
  BY <1>f DEF Coming, Removes, AskAll
\* Steps between events, with rows that were there or are being enrolled.
<1>s. ASSUME UNCHANGED mainQ, mainPc' \notin {"enrol", "insert"} \/ (UNCHANGED mainId /\ mainPc = "enrol"),
             UNCHANGED dealPc,
             \A u \in Rows' : \/ u \in Rows /\ mainPc \notin {"purge", "purgeRow", "clear"}
                              \/ Enrolling(u)
      PROVE  GhostInv' /\ NoGhost'
  <2>1. GhostInv'
    BY <1>f, <1>s, GhostStill DEF Enrolling
  <2>2. \A u \in Rows' : u \in Users
    BY DEF Rows
  <2>3. ASSUME NEW u \in Rows', Owed(u)
        PROVE  Coming(u, 0) \/ (dealPc = "delRow" /\ dealId = u)
    <3>1. CASE Enrolling(u)
      BY <2>2, <2>3, <3>1 DEF GhostInv
    <3>2. CASE u \in Rows /\ mainPc \notin {"purge", "purgeRow", "clear"}
      BY <1>g, <2>3, <3>2 DEF Doomed, Owed
    <3> QED
      BY <1>s, <3>1, <3>2
  <2> QED
    BY <1>c, <1>f, <1>s, <2>1, <2>3 DEF NoGhost, Doomed, Owed
\* Events that remove nobody.
<1>t. ASSUME NEW kind, Take(kind), kind \notin {"allIds", "remove"}, Rows' = Rows, UNCHANGED dealPc,
             \A u \in Users : Enrolling(u)' => Carries(u, 1)
      PROVE  GhostInv' /\ NoGhost'
  <2>1. GhostInv'
    BY <1>f, <1>t, GhostTake
  <2>2. mainPc = "idle" /\ mainQ[1].kind = kind
    BY <1>t, TakeShift
  <2>3. ASSUME NEW u \in Rows, Owed(u)
        PROVE  (Doomed(u))'
    <3>1. ~Removes(u, mainQ[1])
      BY <1>t, <2>2 DEF Removes
    <3>2. Coming(u, 0) \/ (dealPc = "delRow" /\ dealId = u)
      BY <1>g, <2>2, <2>3 DEF Doomed, Owed
    <3> QED
      BY <1>f, <1>t, <3>1, <3>2, ComingTakeOther DEF Doomed
  <2> QED
    BY <1>f, <1>t, <2>1, <2>3 DEF NoGhost, Doomed, Owed
<1>1. CASE MainAllIds
  <2> DEFINE listed == {u \in Users : Head(mainQ).list[u] # 0}
  <2>1. /\ Take("allIds") /\ mainPc' = "purge" /\ m_localFaceSet \ listed \subseteq purge'
        /\ UNCHANGED <<userdata, m_localFaceSet, dealPc>>
    BY <1>1 DEF MainAllIds, rowVars
  <2>2. GhostInv'
    BY <1>f, <2>1, GhostTake DEF Enrolling
  <2>3. mainPc = "idle" /\ Head(mainQ) = mainQ[1] /\ mainQ[1].kind = "allIds"
    BY <2>1, TakeShift
  <2>4. ASSUME NEW u \in Rows, Owed(u)
        PROVE  (Doomed(u))'
    <3>1. Coming(u, 0) \/ (dealPc = "delRow" /\ dealId = u)
      BY <1>g, <2>3, <2>4 DEF Doomed, Owed
    <3>2. CASE Removes(u, mainQ[1])
      <4>1. mainQ[1].list[u] = 0
        BY <2>3, <3>2 DEF Removes
      <4>2. u \in m_localFaceSet \ listed
        BY <2>3, <4>1 DEF FaceSetIsTable
      <4> QED
        BY <2>1, <4>2 DEF Doomed
    <3>3. CASE ~Removes(u, mainQ[1])
      BY <1>f, <2>1, <3>1, <3>3, ComingTakeOther DEF Doomed
    <3> QED
      BY <3>2, <3>3
  <2> QED
    BY <1>f, <2>1, <2>2, <2>4, RowsSame DEF NoGhost, Doomed, Owed
<1>2. CASE MainPurgeFace
  <2>1. /\ UNCHANGED <<mainQ, dealPc, purge, userdata, m_localFaceSet>>
        /\ mainPc = "purge" /\ mainPc' = "purgeRow"
    BY <1>2 DEF MainPurgeFace, rowVars
  <2>2. GhostInv'
    BY <1>f, <2>1, GhostStill DEF Enrolling
  <2> QED
    BY <1>c, <1>f, <1>g, <2>1, <2>2, RowsSame DEF NoGhost, Doomed, Owed
<1>3. CASE MainPurgeRow
  <2>1. /\ UNCHANGED <<mainQ, dealPc>> /\ mainPc = "purgeRow" /\ mainPc' = "purge"
        /\ purge' = purge \ {mainId} /\ Rows' = Rows \ {mainId}
    BY <1>3, RowsOfDelete DEF MainPurgeRow
  <2>2. GhostInv'
    BY <1>f, <2>1, GhostStill DEF Enrolling
  <2> QED
    BY <1>c, <1>f, <1>g, <2>1, <2>2 DEF NoGhost, Doomed, Owed
<1>4. CASE MainAllIdsEnd
  <2>1. /\ UNCHANGED <<mainQ, dealPc, userdata, m_localFaceSet>>
        /\ mainPc = "purge" /\ purge = {} /\ mainPc' = "idle"
    BY <1>4 DEF MainAllIdsEnd, rowVars
  <2>2. GhostInv'
    BY <1>f, <2>1, GhostStill DEF Enrolling
  <2> QED
    BY <1>c, <1>f, <1>g, <2>1, <2>2, RowsSame DEF NoGhost, Doomed, Owed
<1>5. CASE MainClear
  <2>1. Take("allIds") /\ mainPc' = "clear"
    BY <1>5 DEF MainClear
  <2> QED
    BY <1>f, <2>1, GhostTake DEF Enrolling, NoGhost, Doomed
<1>6f. CASE MainClearFace
  <2>1. UNCHANGED mainQ /\ mainPc' = "clear"
    BY <1>6f DEF MainClearFace
  <2> QED
    BY <1>f, <2>1, GhostStill DEF Enrolling, NoGhost, Doomed
<1>6. CASE MainClearEnd
  BY <1>6, <1>s, RowsSame DEF MainClearEnd, rowVars
<1>6r. CASE MainClearRows
  <2>1. UNCHANGED mainQ /\ mainPc' = "cleared" /\ Rows' = {}
    BY <1>6r, RowsOfDeleteAll DEF MainClearRows
  <2> QED
    BY <1>f, <2>1, GhostStill DEF Enrolling, NoGhost
<1>7. CASE MainUserAbsent
  <2>1. Take("user") /\ UNCHANGED <<dealPc, mainPc, userdata, m_localFaceSet>>
    BY <1>7 DEF MainUserAbsent, rowVars, workVars
  <2> QED
    BY <1>t, <2>1, TakeShift, RowsSame DEF Enrolling
<1>8. CASE MainUserUpdate
  <2>1. Take("user") /\ UNCHANGED <<dealPc, mainPc>>
    BY <1>8 DEF MainUserUpdate, workVars
  <2>2. Head(mainQ) = mainQ[1] /\ 1 \in 1..Len(mainQ) /\ mainQ[1].kind = "user" /\ mainPc = "idle"
    BY <2>1, TakeShift
  <2>3. mainQ[1].ver # 0 /\ mainQ[1].id \in Users
    BY <1>8, <2>2, NatVersions, EventFields DEF MainUserUpdate
  <2>4. Rows' = Rows
    BY <1>8, <2>2, <2>3, RowsOfUpdate DEF MainUserUpdate
  <2> QED
    BY <1>t, <2>1, <2>2, <2>4 DEF Enrolling
<1>9. CASE MainUserNew
  <2>1. Take("user") /\ UNCHANGED <<dealPc, userdata, m_localFaceSet>>
    BY <1>9 DEF MainUserNew, rowVars
  <2>2. \A u \in Users : Enrolling(u)' => Carries(u, 1)
    BY <1>9, <2>1, TakeShift DEF MainUserNew, Enrolling, Carries
  <2> QED
    BY <1>t, <2>1, <2>2, RowsSame
<1>10. CASE MainEnrolBadImage
  BY <1>10, <1>s, RowsSame DEF MainEnrolBadImage, rowVars
<1>11. CASE MainEnrolRefused
  BY <1>11, <1>s, RowsSame DEF MainEnrolRefused, rowVars
<1>12. CASE MainEnrolSave
  BY <1>12, <1>s, RowsSame DEF MainEnrolSave, rowVars
<1>13. CASE MainEnrolInsert
  <2>1. mainId \in Users /\ mainVer # 0 /\ userdata[mainId] = 0 /\ Enrolling(mainId)
    BY <1>13 DEF MainEnrolInsert, EnrolInv, TypeOK, Enrolling
  <2>2. Rows' = Rows \cup {mainId}
    BY <1>13, <2>1, RowsOfInsert DEF MainEnrolInsert
  <2>3. UNCHANGED <<mainQ, dealPc>> /\ mainPc = "insert" /\ mainPc' = "idle"
    BY <1>13 DEF MainEnrolInsert
  <2> QED
    BY <1>s, <2>1, <2>2, <2>3
<1>14. CASE MainNewUsers
  <2>1. Take("newUsers") /\ UNCHANGED <<dealPc, mainPc, userdata, m_localFaceSet>>
    BY <1>14 DEF MainNewUsers, rowVars, workVars
  <2> QED
    BY <1>t, <2>1, TakeShift, RowsSame DEF Enrolling
<1>15. CASE MainAllIc
  <2>1. Take("allIc") /\ UNCHANGED <<dealPc, mainPc, userdata, m_localFaceSet>>
    BY <1>15 DEF MainAllIc, rowVars, workVars
  <2> QED
    BY <1>t, <2>1, TakeShift, RowsSame DEF Enrolling
<1>16. CASE MainRemove
  <2>1. Take("remove") /\ dealPc' = "delRow" /\ UNCHANGED <<mainPc, userdata, m_localFaceSet>>
    BY <1>16 DEF MainRemove, rowVars, workVars
  <2>2. mainPc = "idle" /\ 1 \in 1..Len(mainQ) /\ mainQ[1].kind = "remove"
    BY <2>1, TakeShift
  <2>3. dealPc = "remove" /\ mainQ[1].id = dealId
    BY <2>2 DEF RemoveInv
  <2>4. GhostInv'
    BY <1>f, <2>1, <2>2, GhostTake DEF Enrolling
  <2>5. ASSUME NEW u \in Rows, Owed(u)
        PROVE  (Doomed(u))'
    <3>1. Coming(u, 0)
      BY <1>g, <2>2, <2>3, <2>5 DEF Doomed, Owed
    <3>2. CASE Removes(u, mainQ[1])
      <4>1. u = dealId
        BY <2>2, <2>3, <3>2 DEF Removes
      <4> QED
        BY <1>f, <2>1, <4>1 DEF Doomed
    <3>3. CASE ~Removes(u, mainQ[1])
      BY <1>f, <2>1, <3>1, <3>3, ComingTakeOther DEF Doomed
    <3> QED
      BY <3>2, <3>3
  <2> QED
    BY <1>f, <2>1, <2>4, <2>5, RowsSame DEF NoGhost, Doomed, Owed
<1> QED
  BY <1>1, <1>2, <1>3, <1>4, <1>5, <1>6f, <1>6r, <1>6, <1>7, <1>8, <1>9, <1>10, <1>11, <1>12,
     <1>13, <1>14, <1>15, <1>16 DEF Main

LEMMA PacketsTail ==
    ASSUME TypeOK, packets # <<>>, packets' = Tail(packets)
    PROVE  /\ Head(packets) = packets[1]
           /\ \A k \in 1..Len(packets) : k # 1 => /\ k - 1 \in 1..Len(packets')
                                                  /\ packets'[k - 1] = packets[k]
<1>1. packets \in Seq(Packet) /\ packets # <<>> /\ packets' = Tail(packets)
  BY DEF TypeOK
<1>2. Len(packets) \in Nat /\ Len(packets') = Len(packets) - 1
  BY <1>1, TailSeq
<1>3. \A k \in 1..Len(packets) : k # 1 => k - 1 \in 1..Len(packets') /\ (k - 1) + 1 = k
  BY <1>2
<1>4. \A k \in 1..Len(packets') : packets'[k] = packets[k + 1]
  BY <1>1, TailSeq
<1>5. Head(packets) = packets[1]
  BY <1>1, TailSeq
<1> QED
  BY <1>3, <1>4, <1>5

LEMMA PacketsTake ==
    ASSUME TypeOK, NEW op, TakePacket(op)
    PROVE  /\ dealPc = "idle" /\ Head(packets) = packets[1] /\ packets[1].op = op
           /\ packets # <<>> /\ packets' = Tail(packets)
  BY PacketsTail DEF TakePacket

\* A command of which nothing of the sort was expected goes, and Main's queue may grow.
LEMMA ComingDeal ==
    ASSUME TypeOK, packets # <<>>, packets' = Tail(packets), NEW u, NEW i,
           \A k \in 1..Len(requests) : k \in 1..Len(requests') /\ requests'[k] = requests[k],
           \A k \in 1..Len(mainQ) : k \in 1..Len(mainQ') /\ mainQ'[k] = mainQ[k],
           packets[1] # [op |-> "delete", id |-> u],
           Coming(u, i)
    PROVE  (Coming(u, i))'
<1>1. CASE \E k \in 1..Len(packets) : packets[k] = [op |-> "delete", id |-> u]
  <2>1. PICK k \in 1..Len(packets) : packets[k] = [op |-> "delete", id |-> u]
    BY <1>1
  <2>2. k - 1 \in 1..Len(packets') /\ packets'[k - 1] = packets[k]
    BY <2>1, PacketsTail
  <2> QED
    BY <2>1, <2>2 DEF Coming
<1>2. CASE ~ \E k \in 1..Len(packets) : packets[k] = [op |-> "delete", id |-> u]
  BY <1>2 DEF Coming, Removes, AskAll
<1> QED
  BY <1>1, <1>2

\* Main's queue grows by an event that carries nobody, and nothing on its way is lost.
LEMMA GhostGrow ==
    ASSUME GhostCtx,
           UNCHANGED <<mainPc, mainId, purge>>,
           \A u \in Users, i \in 1..Len(mainQ') :
               (Carries(u, i))' /\ (Owed(u))' => i \in 1..Len(mainQ) /\ Carries(u, i),
           \A u \in Users, i \in 0..Len(mainQ) :
               (Owed(u))' => (Coming(u, i))' \/ (Owed(u) /\ ~Coming(u, i)),
           Rows' \subseteq Rows,
           \A u \in Rows' : dealPc = "delRow" /\ dealId = u => dealPc' = "delRow" /\ dealId' = u
    PROVE  GhostInv' /\ NoGhost'
<1> USE DEF GhostCtx, CacheInv
<1>0. Len(mainQ) \in Nat /\ 0 \in 0..Len(mainQ) /\ \A i \in 1..Len(mainQ) : i \in 0..Len(mainQ)
  BY IndexFacts
<1>1. GhostInv'
  BY <1>0 DEF GhostInv, Enrolling
<1>2. NoGhost'
  <2>1. SUFFICES ASSUME NEW u \in Rows', (Owed(u))'
                 PROVE  (Doomed(u))'
    BY DEF NoGhost, Doomed, Owed
  <2>2. u \in Rows /\ u \in Users
    BY DEF Rows
  <2>3. CASE (Coming(u, 0))'
    BY <2>3 DEF Doomed
  <2>4. CASE Owed(u) /\ ~Coming(u, 0)
    BY <1>0, <2>1, <2>2, <2>4 DEF NoGhost, Doomed, Owed
  <2> QED
    BY <1>0, <2>1, <2>2, <2>3, <2>4
<1> QED
  BY <1>1, <1>2

LEMMA RequestsAppend ==
    ASSUME TypeOK, NEW r \in Request, UNCHANGED requests \/ requests' = Append(requests, r)
    PROVE  \A k \in 1..Len(requests) : k \in 1..Len(requests') /\ requests'[k] = requests[k]
<1>1. requests \in Seq(Request) /\ Len(requests) \in Nat
  BY DEF TypeOK
<1>2. CASE requests' = Append(requests, r)
  BY <1>1, <1>2, AppendSeq
<1> QED
  BY <1>1, <1>2

LEMMA GhostDeal == GhostCtx /\ Deal => GhostInv' /\ NoGhost'
<1> SUFFICES ASSUME GhostCtx, Deal PROVE GhostInv' /\ NoGhost'
  OBVIOUS
<1>t. TypeOK /\ CacheInv /\ Len(mainQ) \in Nat /\ Len(requests) \in Nat /\ Len(packets) \in Nat
  BY IndexFacts DEF GhostCtx, CacheInv
<1>f. UNCHANGED <<server, missed, session, mainPc, mainId, purge>>
  BY DealFrame
<1>r. Rows' \subseteq Rows
  BY <1>t, DealRows DEF Rows
<1>q. \A k \in 1..Len(mainQ) : k \in 1..Len(mainQ') /\ mainQ'[k] = mainQ[k]
  BY <1>t, DealQueue, AppendCases
<1>c. \A u \in Users, i \in 1..Len(mainQ') : (Carries(u, i))' => i \in 1..Len(mainQ) /\ Carries(u, i)
  BY <1>t, DealQueue, AppendCases DEF Carries
<1>1. CASE DealSave
  <2>1. UNCHANGED <<requests, dealPc, dealId>>
    BY <1>1 DEF DealSave
  <2>a. PICK op \in {"add", "edit"} : TakePacket(op)
    BY <1>1 DEF DealSave
  <2>b. packets[1].op = op
    BY <1>t, <2>a, PacketsTake
  <2>2. ASSUME NEW u \in Users, NEW i \in 0..Len(mainQ), Coming(u, i)
        PROVE  (Coming(u, i))'
    <3>1. packets[1] # [op |-> "delete", id |-> u]
      BY <2>b
    <3> QED
      BY <1>t, <1>q, <2>1, <2>a, <2>2, <3>1, ComingDeal, PacketsTake
  <2> QED
    BY <1>c, <1>f, <1>r, <2>1, <2>2, GhostGrow DEF Owed
<1>2. CASE DealDelete
  <2> DEFINE e == [kind |-> "remove", id |-> packets[1].id]
  <2>1. UNCHANGED requests /\ TakePacket("delete") /\ dealPc = "idle"
    BY <1>2 DEF DealDelete, TakePacket, rowVars
  <2>2. Head(packets) = packets[1] /\ mainQ' = Append(mainQ, e) /\ e \in Event
    BY <1>2, <1>t, <2>1, PacketsTake, TailSeq, PacketType DEF DealDelete, TakePacket, TypeOK, Event
  <2>3. ASSUME NEW u \in Users, NEW i \in 0..Len(mainQ), Coming(u, i)
        PROVE  (Coming(u, i))'
    <3>1. CASE packets[1] = [op |-> "delete", id |-> u]
      <4>1. e = [kind |-> "remove", id |-> u]
        BY <3>1
      <4>2. Len(mainQ) + 1 \in 1..Len(mainQ') /\ mainQ'[Len(mainQ) + 1] = e /\ Len(mainQ) + 1 > i
        BY <1>t, <2>2, AppendCases
      <4> QED
        BY <4>1, <4>2 DEF Coming, Removes
    <3>2. CASE packets[1] # [op |-> "delete", id |-> u]
      BY <1>t, <1>q, <2>1, <2>3, <3>2, ComingDeal, PacketsTake
    <3> QED
      BY <3>1, <3>2
  <2> QED
    BY <1>c, <1>f, <1>r, <2>1, <2>3, GhostGrow DEF Owed
<1>3. CASE DealDeleteRow
  <2>1. UNCHANGED <<requests, packets, mainQ>> /\ Rows' = Rows \ {dealId}
    BY <1>3, <1>t, RowsOfDelete DEF DealDeleteRow, CacheInv
  <2>2. \A u, i : Coming(u, i) => (Coming(u, i))'
    BY <2>1 DEF Coming, Removes, AskAll
  <2> QED
    BY <1>c, <1>f, <2>1, <2>2, GhostGrow DEF Owed
<1>4. CASE DealDeleteEnd
  <2>1. UNCHANGED <<requests, packets>> /\ dealPc = "delEnd"
    BY <1>4 DEF DealDeleteEnd
  <2>2. \A u, i : Coming(u, i) => (Coming(u, i))'
    BY <1>q, <2>1, ComingStays
  <2> QED
    BY <1>c, <1>f, <1>r, <2>1, <2>2, GhostGrow DEF Owed
<1>5. CASE DealBind
  <2>1. TakePacket("bind") /\ UNCHANGED <<dealPc, dealId>>
    BY <1>5 DEF DealBind
  <2>2. \A k \in 1..Len(requests) : k \in 1..Len(requests') /\ requests'[k] = requests[k]
    <3>1. UNCHANGED requests \/ requests' = Append(requests, AskAll)
      BY <1>5 DEF DealBind, Send
    <3> QED
      BY <1>t, <3>1, RequestsAppend, AskType
  <2>b. packets[1].op = "bind"
    BY <1>t, <2>1, PacketsTake
  <2>3. ASSUME NEW u \in Users, NEW i \in 0..Len(mainQ), Coming(u, i)
        PROVE  (Coming(u, i))'
    <3>1. packets[1] # [op |-> "delete", id |-> u]
      BY <2>b
    <3> QED
      BY <1>t, <1>q, <2>1, <2>2, <2>3, <3>1, ComingDeal, PacketsTake
  <2> QED
    BY <1>c, <1>f, <1>r, <2>1, <2>3, GhostGrow DEF Owed
<1> QED
  BY <1>1, <1>2, <1>3, <1>4, <1>5 DEF Deal

LEMMA RequestsGrow ==
    ASSUME TypeOK, Req
    PROVE  \A k \in 1..Len(requests) : k \in 1..Len(requests') /\ requests'[k] = requests[k]
<1>1. UNCHANGED requests \/ \E r \in Request : requests' = Append(requests, r)
  <2>1. \A u : Send(AskFor(u)) /\ u \in Ids => UNCHANGED requests \/ requests' = Append(requests, AskFor(u))
    BY DEF Send
  <2>2. Send(AskIc) => UNCHANGED requests \/ requests' = Append(requests, AskIc)
    BY DEF Send
  <2>3. CASE ReqTop
    BY <2>2, <2>3, AskType DEF ReqTop
  <2>4. CASE ReqPick
    <3>1. PICK u \in IF m_updateFace = {} THEN {NoUser} ELSE m_updateFace : Send(AskFor(u))
      BY <2>4 DEF ReqPick
    <3>2. u \in Ids
      BY DEF TypeOK, Ids
    <3> QED
      BY <2>1, <3>1, <3>2, AskType
  <2>5. CASE ReqAbort \/ ReqWake \/ ReqFinish \/ ReqTick
    BY <2>5 DEF ReqAbort, ReqWake, ReqFinish, ReqTick
  <2> QED
    BY <2>3, <2>4, <2>5 DEF Req
<1> QED
  BY <1>1, RequestsAppend, AskType

LEMMA PushGrows ==
    ASSUME TypeOK, NEW op \in {"add", "edit", "delete", "bind"}, NEW u \in Ids,
           [op |-> op, id |-> u] \in Packet, Push(op, u)
    PROVE  /\ \A k \in 1..Len(packets) : k \in 1..Len(packets') /\ packets'[k] = packets[k]
           /\ session => /\ Len(packets) + 1 \in 1..Len(packets')
                         /\ packets'[Len(packets) + 1] = [op |-> op, id |-> u]
<1>1. packets \in Seq(Packet) /\ Len(packets) \in Nat
  BY DEF TypeOK
<1>2. CASE session
  BY <1>1, <1>2, AppendSeq DEF Push
<1>3. CASE ~session
  BY <1>1, <1>3 DEF Push
<1> QED
  BY <1>2, <1>3

LEMMA GhostBack == GhostCtx /\ Back => GhostInv' /\ NoGhost'
<1> SUFFICES ASSUME GhostCtx, Back PROVE GhostInv' /\ NoGhost'
  OBVIOUS
<1>t. TypeOK /\ Len(mainQ) \in Nat /\ Len(requests) \in Nat /\ Len(packets) \in Nat
  BY IndexFacts DEF GhostCtx, CacheInv
<1>f. UNCHANGED <<mainPc, mainId, purge, dealPc, dealId>> /\ Rows' = Rows
  BY BackFrame, RowsSame
<1>c. UNCHANGED mainQ => \A u, i : (Carries(u, i))' <=> Carries(u, i)
  BY DEF Carries
<1>d. ASSUME ~session'
      PROVE  GhostInv' /\ NoGhost'
  BY <1>d DEF GhostInv, NoGhost, Doomed, Owed
<1>1. ASSUME NEW w \in Users, ServerSave(w)
      PROVE  GhostInv' /\ NoGhost'
  <2>1. /\ UNCHANGED <<mainQ, requests, session>>
        /\ \A u \in Users : server'[u] = IF u = w THEN clock + 1 ELSE server[u]
        /\ missed' = missed \ {w}
    BY <1>1, <1>t DEF ServerSave, linkVars, TypeOK
  <2>2. clock + 1 # 0
    BY <1>t, NatVersions
  <2>3. \A k \in 1..Len(packets) : k \in 1..Len(packets') /\ packets'[k] = packets[k]
    BY <1>1, <1>t, PushGrows, PacketType DEF ServerSave, Ids
  <2>4. \A u, i : Coming(u, i) => (Coming(u, i))'
    BY <2>1, <2>3, ComingStays
  <2> QED
    BY <1>c, <1>f, <2>1, <2>2, <2>4, GhostGrow DEF Owed
<1>2. ASSUME NEW w \in Users, ServerDelete(w)
      PROVE  GhostInv' /\ NoGhost'
  <2>1. /\ UNCHANGED <<mainQ, requests, session, missed>>
        /\ \A u \in Users : server'[u] = IF u = w THEN 0 ELSE server[u]
    BY <1>2, <1>t DEF ServerDelete, linkVars, TypeOK
  <2>2. /\ \A k \in 1..Len(packets) : k \in 1..Len(packets') /\ packets'[k] = packets[k]
        /\ session => /\ Len(packets) + 1 \in 1..Len(packets')
                      /\ packets'[Len(packets) + 1] = [op |-> "delete", id |-> w]
    BY <1>2, <1>t, PushGrows, PacketType DEF ServerDelete, Ids
  <2>3. \A u, i : Coming(u, i) => (Coming(u, i))'
    BY <2>1, <2>2, ComingStays
  <2>4. session => \A i : (Coming(w, i))'
    BY <2>2 DEF Coming
  <2>5. GhostInv'
    BY <1>c, <1>f, <2>1, <2>3, <2>4 DEF GhostCtx, GhostInv, Enrolling, Owed
  <2>6. NoGhost'
    BY <1>f, <2>1, <2>3, <2>4 DEF GhostCtx, NoGhost, Doomed, Owed, Rows
  <2> QED
    BY <2>5, <2>6
<1>3. CASE ServerBind
  <2>1. UNCHANGED <<mainQ, requests, session, server, missed>>
    BY <1>3 DEF ServerBind, linkVars
  <2>2. \A k \in 1..Len(packets) : k \in 1..Len(packets') /\ packets'[k] = packets[k]
    BY <1>3, <1>t, PushGrows, PacketType DEF ServerBind, Ids
  <2>3. \A u, i : Coming(u, i) => (Coming(u, i))'
    BY <2>1, <2>2, ComingStays
  <2> QED
    BY <1>c, <1>f, <2>1, <2>3, GhostGrow DEF Owed
<1>r. requests # <<>> =>
        /\ Head(requests) = requests[1] /\ Head(requests) \in Request
        /\ requests' = Tail(requests) =>
             \A k \in 1..Len(requests) : k # 1 => /\ k - 1 \in 1..Len(requests')
                                                  /\ requests'[k - 1] = requests[k]
  <2>1. SUFFICES ASSUME requests # <<>>, requests' = Tail(requests), requests \in Seq(Request)
        PROVE  \A k \in 1..Len(requests) : k # 1 => /\ k - 1 \in 1..Len(requests')
                                                   /\ requests'[k - 1] = requests[k]
    BY <1>t, TailSeq DEF TypeOK
  <2>2. Len(requests') = Len(requests) - 1
    BY <2>1, TailSeq
  <2>3. \A k \in 1..Len(requests) : k # 1 => k - 1 \in 1..Len(requests') /\ (k - 1) + 1 = k
    BY <1>t, <2>2
  <2>4. \A k \in 1..Len(requests') : requests'[k] = requests[k + 1]
    BY <2>1, TailSeq
  <2> QED
    BY <2>3, <2>4
<1>4. CASE ServerAnswer
  <2> DEFINE e == AnswerTo(requests[1])
  <2>1. /\ UNCHANGED <<server, session, packets>> /\ requests # <<>> /\ requests' = Tail(requests)
        /\ mainQ' = Append(mainQ, e) /\ e \in Event
        /\ UNCHANGED missed \/ requests[1] = AskAll
    BY <1>4, <1>t, <1>r, AnswerType DEF ServerAnswer, Forget, TypeOK, linkVars
  <2>2. /\ e.kind = "user" => e.ver = 0 \/ e.ver = server[e.id]
        /\ requests[1] = AskAll => e.kind = "allIds" /\ e.list = server
    BY DEF AnswerTo, AskAll
  <2> HIDE DEF e
  <2>3. \A k \in 1..Len(mainQ) : k \in 1..Len(mainQ') /\ mainQ'[k] = mainQ[k]
    BY <1>t, <2>1, AppendCases
  <2>4. /\ Len(mainQ) + 1 \in 1..Len(mainQ') /\ mainQ'[Len(mainQ) + 1] = e
        /\ \A i \in 1..Len(mainQ') : i \in 1..Len(mainQ) \/ i = Len(mainQ) + 1
    BY <1>t, <2>1, AppendCases
  <2>a. ASSUME requests[1] = AskAll, NEW u \in Users, NEW i \in 0..Len(mainQ), server[u] = 0
        PROVE  (Coming(u, i))'
    <3>1. Removes(u, e)
      BY <2>2, <2>a DEF Removes
    <3>2. Len(mainQ) + 1 > i
      BY <1>t
    <3>3. (\E n \in 1..Len(mainQ) : n > i /\ Removes(u, mainQ[n]))'
      BY <2>4, <3>1, <3>2 DEF Removes
    <3> QED
      BY <3>3 DEF Coming
  <2>5. ASSUME NEW u \in Users, NEW i \in 0..Len(mainQ), requests[1] # AskAll, Coming(u, i)
        PROVE  (Coming(u, i))'
    <3>1. CASE \E k \in 1..Len(requests) : requests[k] = AskAll
      BY <1>r, <2>1, <2>5, <3>1 DEF Coming, AskAll
    <3>2. CASE ~ \E k \in 1..Len(requests) : requests[k] = AskAll
      BY <2>1, <2>3, <2>5, <3>2 DEF Coming, Removes
    <3> QED
      BY <3>1, <3>2
  <2>6. ASSUME NEW u \in Users, NEW i \in 1..Len(mainQ'), (Carries(u, i))', server[u] = 0
        PROVE  i \in 1..Len(mainQ) /\ Carries(u, i)
    <3>1. i # Len(mainQ) + 1
      BY <2>2, <2>4, <2>6 DEF Carries
    <3> QED
      BY <2>3, <2>4, <2>6, <3>1 DEF Carries
  <2> QED
    BY <1>f, <2>1, <2>a, <2>5, <2>6, GhostGrow DEF Owed
<1>5. CASE ServerIgnore
  <2>1. /\ UNCHANGED <<server, session, packets, mainQ>> /\ requests # <<>>
        /\ requests' = Tail(requests)
        /\ \/ UNCHANGED missed /\ requests[1] # AskAll
           \/ {u \in Users : server[u] = 0} \subseteq missed'
    BY <1>5, <1>r DEF ServerIgnore, linkVars
  <2>2. ASSUME NEW u \in Users, NEW i \in 0..Len(mainQ), requests[1] # AskAll, Coming(u, i)
        PROVE  (Coming(u, i))'
    <3>1. CASE \E k \in 1..Len(requests) : requests[k] = AskAll
      BY <1>r, <2>1, <2>2, <3>1 DEF Coming, AskAll
    <3>2. CASE ~ \E k \in 1..Len(requests) : requests[k] = AskAll
      BY <2>1, <2>2, <3>2 DEF Coming, Removes
    <3> QED
      BY <3>1, <3>2
  <2> QED
    BY <1>c, <1>f, <2>1, <2>2, GhostGrow DEF Owed
<1>5l. CASE CommandLost
  <2>1. /\ UNCHANGED <<server, session, requests, mainQ>>
        /\ packets # <<>> /\ packets' = Tail(packets) /\ missed \subseteq missed'
        /\ \A u \in Users :
              server[u] = 0 /\ packets[1] = [op |-> "delete", id |-> u] => u \in missed'
    BY <1>5l, <1>t, PacketsTail DEF CommandLost, linkVars
  <2>2. ASSUME NEW u \in Users, NEW i \in 0..Len(mainQ), (Owed(u))', Coming(u, i)
        PROVE  (Coming(u, i))'
    <3>1. packets[1] # [op |-> "delete", id |-> u]
      BY <2>1, <2>2 DEF Owed
    <3> QED
      BY <1>t, <2>1, <2>2, <3>1, ComingDeal
  <2> QED
    BY <1>c, <1>f, <2>1, <2>2, GhostGrow DEF Owed
<1>6. CASE Login
  <2>1. requests' = <<AskAll>> /\ UNCHANGED server /\ ~session
    BY <1>6 DEF Login, backVars
  <2>2. 1 \in 1..Len(requests') /\ requests'[1] = AskAll
    BY <2>1
  <2>3. \A u, i : (Coming(u, i))'
    BY <2>2 DEF Coming, AskAll
  <2> QED
    BY <2>3 DEF GhostInv, NoGhost, Doomed, Owed
<1>7. CASE Break
  BY <1>7, <1>d DEF Break
<1>8. CASE NetLost
  <2>1. UNCHANGED <<server, missed, session, packets, mainQ, requests>>
    BY <1>8 DEF NetLost, backVars, linkVars
  <2>2. \A u, i : Coming(u, i) => (Coming(u, i))'
    BY <2>1 DEF Coming, Removes, AskAll
  <2> QED
    BY <1>c, <1>f, <2>1, <2>2, GhostGrow DEF Owed
<1> QED
  BY <1>1, <1>2, <1>3, <1>4, <1>5, <1>5l, <1>6, <1>7, <1>8 DEF Back

LEMMA GhostNext == GhostCtx /\ [Next]_vars => GhostCtx'
<1> SUFFICES ASSUME GhostCtx, [Next]_vars PROVE GhostInv' /\ NoGhost'
  BY CacheNext, RemoveNext, PurgeNext DEF GhostCtx, CacheInv
<1>t. TypeOK
  BY DEF GhostCtx, CacheInv
<1>1. CASE Req
  <2>1. /\ UNCHANGED <<server, missed, session, mainQ, mainPc, mainId, purge, packets, dealPc, dealId>>
        /\ Rows' = Rows
    BY <1>1, ReqFrame, RowsSame
  <2>2. \A u, i : Coming(u, i) => (Coming(u, i))'
    BY <1>t, <1>1, <2>1, RequestsGrow, ComingStays
  <2>3. \A u, i : (Carries(u, i))' <=> Carries(u, i)
    BY <2>1 DEF Carries
  <2> QED
    BY <2>1, <2>2, <2>3, GhostGrow DEF Owed
<1>2. CASE Tcp \/ FaceOffline \/ UNCHANGED vars
  <2>1. /\ UNCHANGED <<server, missed, session, requests, mainQ, mainPc, mainId, purge, packets, dealPc,
                       dealId>>
        /\ Rows' = Rows
    BY <1>2, RestFrame, StutterFrame, RowsSame
  <2>2. \A u, i : Coming(u, i) => (Coming(u, i))'
    BY <2>1 DEF Coming, Removes, AskAll
  <2>3. \A u, i : (Carries(u, i))' <=> Carries(u, i)
    BY <2>1 DEF Carries
  <2> QED
    BY <2>1, <2>2, <2>3, GhostGrow DEF Owed
<1>3. CASE Restart
  <2>1. ~session'
    BY <1>3 DEF Restart
  <2> QED
    BY <2>1 DEF GhostInv, NoGhost, Doomed, Owed
<1> QED
  BY <1>1, <1>2, <1>3, GhostMain, GhostDeal, GhostBack DEF Next

LEMMA GhostAlways == Spec => []GhostCtx
  BY GhostInit, GhostNext, PTL DEF Spec

\* Whatever answers, deletions, downloads, broken connections and crashes overlap, a person the
\* back end has deleted never keeps a row that nothing on its way will remove, unless the
\* connection itself has lost the removal.
THEOREM NoGhosts == Spec => []NoGhost
  BY GhostAlways, PTL DEF GhostCtx

=============================================================================
