--------------------------- MODULE TcpLinkProofs ---------------------------
(* Proofs about TcpLink. *)
EXTENDS TcpLink, TLAPS

\* Arming a timer and letting it run keep its type; only firing or stopping it disarms it.
LEMMA TimerFacts ==
    ASSUME NEW n \in Nat \ {0}, NEW t \in Timer(n)
    PROVE  /\ Armed(t, n) \in Timer(n) /\ Armed(t, n) # Off
           /\ Dec(t) \in Timer(n) /\ (Dec(t) = Off <=> t = Off)
           /\ t # Off => t \in Nat /\ t <= n /\ Dec(t) = (IF t = 0 THEN 0 ELSE t - 1)
           /\ n \in Timer(n) /\ Off \in Timer(n) /\ n # Off /\ 0 # Off
<1>1. Off \notin Nat
  BY ConstantsAssumption
<1> QED
  BY <1>1 DEF Timer, Armed, Dec

LEMMA TypeInit == Init => TypeOK
<1> SUFFICES ASSUME Init PROVE TypeOK
  OBVIOUS
<1>1. requests \in Seq(Kinds) /\ inbox \in Seq(Answers)
  BY DEF Init
<1>2. faults \in 0..MaxFaults /\ writes \in 0..MaxWrites /\ silence \in 0..ConnectTicks
  BY ConstantsAssumption DEF Init
<1> QED
  BY <1>1, <1>2 DEF Init, TypeOK, Timer

\* The steps of the connection's thread.
LEMMA TypeTcp == TypeOK /\ Tcp => TypeOK'
<1> SUFFICES ASSUME TypeOK, Tcp PROVE TypeOK'
  OBVIOUS
<1> USE DEF TypeOK, envUnchanged, netVars, peerVars, timerVars, heardVars
<1>1. /\ HeartbeatTicks \in Nat \ {0} /\ RequestTicks \in Nat \ {0} /\ ConnectTicks \in Nat \ {0}
      /\ "other" \in Kinds /\ "login" \in Kinds /\ "register" \in Kinds /\ "heartbeat" \in Kinds
  BY ConstantsAssumption DEF Kinds
<1>2. /\ Armed(heartbeatTimer, HeartbeatTicks) \in Timer(HeartbeatTicks)
      /\ Armed(connectTimer, ConnectTicks) \in Timer(ConnectTicks)
      /\ Off \in Timer(HeartbeatTicks) /\ Off \in Timer(RequestTicks) /\ Off \in Timer(ConnectTicks)
      /\ HeartbeatTicks \in Timer(HeartbeatTicks) /\ RequestTicks \in Timer(RequestTicks)
  BY <1>1, TimerFacts
<1>3. \A kind \in Kinds : Append(requests, kind) \in Seq(Kinds)
  OBVIOUS
<1>4. 0 \in 0..ConnectTicks
  BY <1>1
<1>5. CASE ConnectSuccess
  BY <1>1, <1>2, <1>4, <1>5 DEF ConnectSuccess
<1>6. CASE ConnectFail
  BY <1>2, <1>6 DEF ConnectFail
<1>a. <<>> \in Seq(Kinds) /\ <<>> \in Seq(Answers)
  OBVIOUS
<1>b. Reconnect =>
        /\ pc' \in {"connect", "idle", "read"} /\ socket' \in {"connected", "dead"}
        /\ peer' \in BOOLEAN /\ session' \in BOOLEAN /\ heard' \in BOOLEAN
        /\ requests' \in Seq(Kinds) /\ inbox' \in Seq(Answers)
        /\ heartbeatTimer' \in Timer(HeartbeatTicks)
        /\ UNCHANGED <<known, writes, m_netStatus, silence>>
  BY <1>2, <1>a DEF Reconnect
<1>7. CASE RequestTimeout \/ ConnectTimeout
  BY <1>2, <1>b, <1>7 DEF RequestTimeout, ConnectTimeout
<1>8. CASE requestHeartbeat
  BY <1>1, <1>2, <1>3, <1>8 DEF requestHeartbeat, Written, WriteDataToServer
<1>9. CASE OnReadData
  BY <1>2, <1>4, <1>9 DEF OnReadData
<1>10. inbox # <<>> /\ NextMessage => inbox' \in Seq(Answers) /\ pc' \in {"idle", "read"}
  <2>1. inbox # <<>> => Tail(inbox) \in Seq(Answers)
    OBVIOUS
  <2>2. NextMessage => inbox' = Tail(inbox) /\ (pc' = "idle" \/ pc' = "read")
    BY DEF NextMessage
  <2> QED
    BY <2>1, <2>2
<1>12. CASE pareLogin
  BY <1>1, <1>2, <1>3, <1>10, <1>12
     DEF pareLogin, Parse, Answering, WriteDataToServer, NextMessage
<1>13. CASE pareRegister
  BY <1>1, <1>2, <1>3, <1>10, <1>13
     DEF pareRegister, Parse, Answering, WriteDataToServer, NextMessage
<1>14. CASE pareHeartbeat
  BY <1>b, <1>14 DEF pareHeartbeat
<1>15. CASE ParseOther
  BY <1>10, <1>15 DEF ParseOther, Parse, NextMessage
<1> HIDE DEF TypeOK
<1> QED
  BY <1>5, <1>6, <1>7, <1>8, <1>9, <1>12, <1>13, <1>14, <1>15 DEF Tcp

\* The steps of the other requests, of NetManager and of the surroundings.
LEMMA TypeOther ==
    ASSUME TypeOK,
           \/ OtherRequest \/ NoInterface \/ Tick \/ ServerAnswer \/ ServerPush
           \/ NetDown \/ NetUp \/ PeerDrop \/ SessionLost \/ UNCHANGED vars
    PROVE  TypeOK'
<1> USE DEF TypeOK, envUnchanged, threadUnchanged, netVars, peerVars, timerVars, heardVars
<1>1. /\ HeartbeatTicks \in Nat \ {0} /\ RequestTicks \in Nat \ {0} /\ ConnectTicks \in Nat \ {0}
      /\ MaxFaults \in Nat /\ MaxWrites \in Nat
  BY ConstantsAssumption
<1>2. /\ Armed(connectTimer, ConnectTicks) \in Timer(ConnectTicks)
      /\ Dec(heartbeatTimer) \in Timer(HeartbeatTicks)
      /\ Dec(requestTimer) \in Timer(RequestTicks)
      /\ Dec(connectTimer) \in Timer(ConnectTicks)
  BY <1>1, TimerFacts
<1>3. CASE OtherRequest
  <2>1. writes' \in 0..MaxWrites
    BY <1>1, <1>3 DEF OtherRequest
  <2>2. requests' \in Seq(Kinds)
    BY <1>3 DEF OtherRequest, Written, WriteDataToServer, Kinds
  <2> QED
    BY <1>2, <1>3, <2>1, <2>2 DEF OtherRequest, Written
<1>4. CASE NoInterface
  BY <1>4 DEF NoInterface
<1>5. CASE Tick
  <2>1. silence' \in 0..ConnectTicks
    BY <1>1, <1>5 DEF Tick
  <2> QED
    BY <1>2, <1>5, <2>1 DEF Tick
<1>6. requests # <<>> => Tail(requests) \in Seq(Kinds)
  OBVIOUS
<1>7. \A answer \in Answers : Append(inbox, answer) \in Seq(Answers)
  OBVIOUS
<1>8. CASE ServerAnswer
  <2>1. Head(requests) \in Kinds
    BY <1>8 DEF ServerAnswer
  <2>2. Reply(Head(requests)) \in Answers
    BY <2>1, Zenon DEF Reply, Kinds, Answers
  <2>3. inbox' \in Seq(Answers)
    BY <1>7, <1>8, <2>2 DEF ServerAnswer
  <2>4. requests' \in Seq(Kinds)
    BY <1>6, <1>8 DEF ServerAnswer
  <2>5. session' \in BOOLEAN
    BY <1>8 DEF ServerAnswer
  <2> QED
    BY <1>8, <2>3, <2>4, <2>5 DEF ServerAnswer
<1>9. "other" \in Answers
  BY DEF Answers
<1>10. CASE ServerPush
  <2>1. writes' \in 0..MaxWrites
    BY <1>1, <1>10 DEF ServerPush
  <2> QED
    BY <1>7, <1>9, <1>10, <2>1 DEF ServerPush
<1>11. Fault => faults' \in 0..MaxFaults
  BY <1>1 DEF Fault
<1>12. CASE NetDown \/ NetUp
  <2>1. iface' \in BOOLEAN /\ reach' \in BOOLEAN
    BY <1>12 DEF NetDown, NetUp
  <2>2. CASE NetDown
    BY <1>11, <2>1, <2>2 DEF NetDown, Fault
  <2>3. CASE NetUp
    BY <2>1, <2>3 DEF NetUp
  <2> QED
    BY <1>12, <2>2, <2>3
<1>13. CASE PeerDrop
  <2>1. requests' \in Seq(Kinds)
    BY <1>13 DEF PeerDrop
  <2> QED
    BY <1>11, <1>13, <2>1 DEF PeerDrop, Fault
<1>14. CASE SessionLost
  BY <1>6, <1>7, <1>9, <1>11, <1>14 DEF SessionLost, Fault
<1>15. CASE UNCHANGED vars
  BY <1>15 DEF vars
<1> HIDE DEF TypeOK
<1> QED
  BY <1>3, <1>4, <1>5, <1>8, <1>10, <1>12, <1>13, <1>14, <1>15

\* Every variable of the connection's thread and of its peer has its type throughout.
THEOREM TypeCorrect == Spec => []TypeOK
<1>1. Init => TypeOK
  BY TypeInit
<1>2. TypeOK /\ [Next]_vars => TypeOK'
  BY TypeTcp, TypeOther DEF Next
<1> QED
  BY <1>1, <1>2, PTL DEF Spec

-----------------------------------------------------------------------------
(* While no connection is made, or one is to be tried again, there is none. *)

LEMMA LinkNext == TypeOK /\ LinkInv /\ [Next]_vars => LinkInv'
<1> SUFFICES ASSUME TypeOK, LinkInv, [Next]_vars PROVE LinkInv'
  OBVIOUS
<1> USE DEF LinkInv, NoLink, envUnchanged, threadUnchanged, netVars, peerVars, timerVars, heardVars
<1>1. CASE ConnectSuccess
  BY <1>1 DEF ConnectSuccess
<1>2. CASE ConnectFail
  BY <1>2 DEF ConnectFail
<1>3. CASE RequestTimeout \/ ConnectTimeout \/ pareHeartbeat
  BY <1>3 DEF RequestTimeout, ConnectTimeout, pareHeartbeat, Reconnect
<1>4. CASE requestHeartbeat \/ OtherRequest
  BY <1>4 DEF requestHeartbeat, OtherRequest, Written, WriteDataToServer
<1>5. CASE OnReadData
  BY <1>5 DEF OnReadData
<1>6. CASE pareLogin \/ pareRegister \/ ParseOther
  <2>1. pc = "read" /\ inbox # <<>> /\ NextMessage
    BY <1>6 DEF pareLogin, pareRegister, ParseOther, Parse, Answering
  <2>2. requestTimer = Off
    BY <2>1
  <2>3. requestTimer' = Off /\ pc' # "connect"
    BY <2>1, <2>2 DEF NextMessage
  <2> QED
    BY <2>3
<1>7. CASE Tick
  <2>1. requestTimer' # Off => requestTimer # Off
    BY <1>7 DEF Tick, Dec
  <2> QED
    BY <1>7, <2>1 DEF Tick
<1>8. CASE ServerAnswer \/ ServerPush \/ PeerDrop \/ SessionLost
  BY <1>8 DEF ServerAnswer, ServerPush, PeerDrop, SessionLost, Fault
<1>9. CASE NoInterface \/ NetDown \/ NetUp
  BY <1>9 DEF NoInterface, NetDown, NetUp, Fault
<1>10. CASE UNCHANGED vars
  BY <1>10 DEF vars
<1> QED
  BY <1>1, <1>2, <1>3, <1>4, <1>5, <1>6, <1>7, <1>8, <1>9, <1>10 DEF Next, Tcp

LEMMA LinkAlways == Spec => []LinkInv
<1>1. Init => LinkInv
  BY DEF Init, LinkInv, NoLink
<1>2. TypeOK /\ LinkInv /\ [Next]_vars => LinkInv'
  BY LinkNext
<1> QED
  BY <1>1, <1>2, TypeCorrect, PTL DEF Spec

\* The timer of a new attempt never runs while there is a connection.
THEOREM RetryOnlyWithoutLink == Spec => []NoStrayRetry
<1>1. LinkInv => NoStrayRetry
  BY DEF LinkInv, NoLink, NoStrayRetry
<1> QED
  BY <1>1, LinkAlways, PTL

-----------------------------------------------------------------------------
(* The thread always has a timer to wake it.                               *)

LEMMA WakeNext == TypeOK /\ WillWake /\ [Next]_vars => WillWake'
<1> SUFFICES ASSUME TypeOK, WillWake, [Next]_vars PROVE WillWake'
  OBVIOUS
<1>0. /\ HeartbeatTicks \in Nat \ {0} /\ RequestTicks \in Nat \ {0} /\ Off \notin Nat
      /\ heartbeatTimer \in Timer(HeartbeatTicks) /\ requestTimer \in Timer(RequestTicks)
  BY ConstantsAssumption DEF TypeOK
<1>a. /\ HeartbeatTicks # Off /\ RequestTicks # Off
      /\ Armed(heartbeatTimer, HeartbeatTicks) # Off
      /\ Dec(heartbeatTimer) = Off <=> heartbeatTimer = Off
      /\ Dec(requestTimer) = Off <=> requestTimer = Off
  BY <1>0, TimerFacts
<1> USE DEF WillWake, envUnchanged, threadUnchanged, netVars, peerVars, timerVars, heardVars
<1>1. CASE ConnectSuccess
  BY <1>a, <1>1 DEF ConnectSuccess
<1>2. CASE ConnectFail
  BY <1>a, <1>2 DEF ConnectFail
<1>3. CASE RequestTimeout \/ ConnectTimeout \/ pareHeartbeat
  BY <1>3 DEF RequestTimeout, ConnectTimeout, pareHeartbeat, Reconnect
<1>4. CASE requestHeartbeat \/ OtherRequest
  BY <1>a, <1>4 DEF requestHeartbeat, OtherRequest, Written
<1>5. CASE OnReadData
  BY <1>5 DEF OnReadData
<1>6. CASE pareLogin \/ pareRegister \/ ParseOther
  BY <1>a, <1>6 DEF pareLogin, pareRegister, ParseOther, Parse, Answering, NextMessage
<1>7. CASE Tick
  BY <1>a, <1>7 DEF Tick
<1>8. CASE ServerAnswer \/ ServerPush \/ PeerDrop \/ SessionLost
  BY <1>8 DEF ServerAnswer, ServerPush, PeerDrop, SessionLost, Fault
<1>9. CASE NoInterface \/ NetDown \/ NetUp
  BY <1>9 DEF NoInterface, NetDown, NetUp, Fault
<1>10. CASE UNCHANGED vars
  BY <1>10 DEF vars
<1> QED
  BY <1>1, <1>2, <1>3, <1>4, <1>5, <1>6, <1>7, <1>8, <1>9, <1>10 DEF Next, Tcp

\* Whatever happens to the connection, the thread never waits with nothing left to wake it.
THEOREM AlwaysWakes == Spec => []WillWake
<1>1. Init => WillWake
  BY DEF Init, WillWake
<1>2. TypeOK /\ WillWake /\ [Next]_vars => WillWake'
  BY WakeNext
<1> QED
  BY <1>1, <1>2, TypeCorrect, PTL DEF Spec

-----------------------------------------------------------------------------
(* A connection that answers is kept.                                      *)

LEMMA SilenceNext == TypeOK /\ LinkInv /\ SilenceInv /\ [Next]_vars => SilenceInv'
<1> SUFFICES ASSUME TypeOK, LinkInv, SilenceInv, [Next]_vars, heard', connectTimer' # Off
             PROVE  silence' + connectTimer' >= ConnectTicks
  BY DEF SilenceInv
<1>0. /\ ConnectTicks \in Nat \ {0} /\ Off \notin Nat
      /\ connectTimer \in Timer(ConnectTicks) /\ silence \in 0..ConnectTicks
  BY ConstantsAssumption DEF TypeOK
<1>a. connectTimer # Off => connectTimer \in Nat /\ connectTimer <= ConnectTicks
  BY <1>0, TimerFacts
<1>b. ASSUME heard, silence' = silence,
             connectTimer' = connectTimer \/ connectTimer' = Armed(connectTimer, ConnectTicks)
      PROVE  silence' + connectTimer' >= ConnectTicks
  BY <1>0, <1>a, <1>b DEF SilenceInv, Armed
<1> USE DEF envUnchanged, threadUnchanged, netVars, peerVars, timerVars, heardVars
<1>1. CASE ConnectSuccess
  BY <1>1 DEF ConnectSuccess, LinkInv, NoLink
<1>2. CASE ConnectFail
  BY <1>2 DEF ConnectFail, LinkInv, NoLink
<1>3. CASE RequestTimeout \/ ConnectTimeout \/ pareHeartbeat
  BY <1>3 DEF RequestTimeout, ConnectTimeout, pareHeartbeat, Reconnect
<1>4. CASE requestHeartbeat \/ OtherRequest
  BY <1>b, <1>4 DEF requestHeartbeat, OtherRequest, Written
<1>5. CASE OnReadData
  BY <1>5 DEF OnReadData
<1>6. CASE pareLogin \/ pareRegister \/ ParseOther
  BY <1>b, <1>6 DEF pareLogin, pareRegister, ParseOther, Parse, Answering, NextMessage
<1>7. CASE Tick
  <2>1. heard /\ connectTimer' = Dec(connectTimer)
        /\ silence' = IF silence < ConnectTicks THEN silence + 1 ELSE silence
    BY <1>7 DEF Tick
  <2>2. connectTimer # Off /\ connectTimer' = (IF connectTimer = 0 THEN 0 ELSE connectTimer - 1)
    BY <1>0, <2>1, TimerFacts
  <2> QED
    BY <1>0, <1>a, <2>1, <2>2 DEF SilenceInv
<1>8. CASE ServerAnswer \/ ServerPush \/ PeerDrop \/ SessionLost
  BY <1>b, <1>8 DEF ServerAnswer, ServerPush, PeerDrop, SessionLost, Fault
<1>9. CASE NoInterface \/ NetDown \/ NetUp
  BY <1>b, <1>9 DEF NoInterface, NetDown, NetUp, Fault
<1>10. CASE UNCHANGED vars
  BY <1>b, <1>10 DEF vars
<1> QED
  BY <1>1, <1>2, <1>3, <1>4, <1>5, <1>6, <1>7, <1>8, <1>9, <1>10 DEF Next, Tcp

\* A step that gives up a connection over which data have come follows a refused heartbeat or a
\* silence as long as the timer.
LEMMA KeptStep ==
    TypeOK /\ LinkInv /\ SilenceInv /\ [Next]_vars =>
        (heard /\ ~heard' => \/ silence = ConnectTicks
                            \/ (pc = "read" /\ Head(inbox) = "heartbeat401"))
<1> SUFFICES ASSUME TypeOK, LinkInv, SilenceInv, [Next]_vars, heard, ~heard'
             PROVE  silence = ConnectTicks \/ (pc = "read" /\ Head(inbox) = "heartbeat401")
  OBVIOUS
<1>0. /\ ConnectTicks \in Nat \ {0} /\ Off \notin Nat /\ silence \in 0..ConnectTicks
  BY ConstantsAssumption DEF TypeOK
<1> USE DEF envUnchanged, threadUnchanged, netVars, peerVars, timerVars, heardVars
<1>1. CASE RequestTimeout
  BY <1>0, <1>1 DEF RequestTimeout, LinkInv, NoLink
<1>2. CASE ConnectTimeout
  <2>1. connectTimer = 0
    BY <1>2 DEF ConnectTimeout
  <2>2. silence + 0 >= ConnectTicks
    BY <1>0, <2>1 DEF SilenceInv
  <2> QED
    BY <1>0, <2>2
<1>3. CASE pareHeartbeat
  BY <1>3 DEF pareHeartbeat
<1>4. CASE ConnectSuccess \/ ConnectFail \/ requestHeartbeat \/ OtherRequest \/ OnReadData
  BY <1>4 DEF ConnectSuccess, ConnectFail, requestHeartbeat, OtherRequest, Written, OnReadData
<1>5. CASE pareLogin \/ pareRegister \/ ParseOther
  BY <1>5 DEF pareLogin, pareRegister, ParseOther, Answering, NextMessage
<1>6. CASE Tick \/ ServerAnswer \/ ServerPush \/ PeerDrop \/ SessionLost
  BY <1>6 DEF Tick, ServerAnswer, ServerPush, PeerDrop, SessionLost, Fault
<1>7. CASE NoInterface \/ NetDown \/ NetUp
  BY <1>7 DEF NoInterface, NetDown, NetUp, Fault
<1>8. CASE UNCHANGED vars
  BY <1>8 DEF vars
<1> QED
  BY <1>1, <1>2, <1>3, <1>4, <1>5, <1>6, <1>7, <1>8 DEF Next, Tcp

\* No overlap of writes and answers makes the terminal give up a back end that answers in time.
THEOREM PeerKept == Spec => AnsweringPeerKept
<1>1. Init => SilenceInv
  BY DEF Init, SilenceInv
<1>2. TypeOK /\ LinkInv /\ SilenceInv /\ [Next]_vars => SilenceInv'
  BY SilenceNext
<1>3. TypeOK /\ LinkInv /\ SilenceInv /\ [Next]_vars =>
        (heard /\ ~heard' => \/ silence = ConnectTicks
                            \/ (pc = "read" /\ Head(inbox) = "heartbeat401"))
  BY KeptStep
<1> QED
  BY <1>1, <1>2, <1>3, TypeCorrect, LinkAlways, PTL DEF Spec, AnsweringPeerKept

=============================================================================
