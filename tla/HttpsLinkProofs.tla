-------------------------- MODULE HttpsLinkProofs --------------------------
(***************************************************************************)
(* OnlineMeansLoggedIn, HeldBackForAWhile and OneUpload for any number of  *)
(* event loops inside one another, and any number of signals and faults.   *)
(***************************************************************************)
EXTENDS HttpsLink, TLAPS

\* The list of persons is asked for by a terminal that has its token.
ListHasToken == \A i \in DOMAIN loops : loops[i].what = "list" => m_loginStatus

IInv == TypeOK /\ ListHasToken /\ OnlineMeansLoggedIn /\ HeldBackForAWhile /\ OneUpload

-----------------------------------------------------------------------------
(* The event loops                                                         *)

\* A request on top of those that are under way.
LEMMA AskedType ==
    ASSUME TypeOK, NEW s \in Seq(Request), NEW what \in {"token", "list", "heartbeat", "user", "upload"}
    PROVE  LET q == Append(s, [what |-> what, reply |-> "none", late |-> FALSE])
           IN  /\ q \in Seq(Request)
               /\ DOMAIN q = 1..(Len(s) + 1)
               /\ \A i \in 1..Len(s) : q[i] = s[i]
               /\ q[Len(s) + 1].what = what
<1> DEFINE r == [what |-> what, reply |-> "none", late |-> FALSE]
<1>1. r \in Request /\ r.what = what
  BY DEF Request
<1> HIDE DEF r
<1>2. /\ Append(s, r) \in Seq(Request)
      /\ DOMAIN Append(s, r) = 1..(Len(s) + 1)
      /\ \A i \in 1..Len(s) : Append(s, r)[i] = s[i]
      /\ Append(s, r)[Len(s) + 1] = r
  BY <1>1
<1> QED
  BY <1>1, <1>2 DEF r

\* What is left when the innermost has returned.
LEMMA OuterType ==
    ASSUME TypeOK, Quit
    PROVE  /\ Len(loops) \in DOMAIN loops
           /\ Innermost \in Request
           /\ Outer \in Seq(Request)
           /\ DOMAIN Outer = 1..(Len(loops) - 1)
           /\ Len(Outer) = Len(loops) - 1
           /\ \A i \in DOMAIN Outer : i \in DOMAIN loops /\ Outer[i] = loops[i]
<1>1. loops \in Seq(Request) /\ loops # <<>>
  BY DEF TypeOK, Quit
<1>2. Len(loops) \in Nat /\ Len(loops) > 0 /\ DOMAIN loops = 1..Len(loops)
  BY <1>1
<1>3. /\ Outer \in Seq(Request)
      /\ Len(Outer) = Len(loops) - 1
      /\ \A i \in 1..(Len(loops) - 1) : Outer[i] = loops[i]
  BY <1>1, <1>2 DEF Outer
<1> QED
  BY <1>1, <1>2, <1>3 DEF Innermost

\* What an event does to the request it is for.
LEMMA SettleType ==
    ASSUME TypeOK, NEW i \in DOMAIN loops, Settle(i)
    PROVE  /\ loops' \in Seq(Request)
           /\ DOMAIN loops' = DOMAIN loops
           /\ \A k \in DOMAIN loops : loops'[k].what = loops[k].what
<1>1. loops \in Seq(Request) /\ loops[i] \in Request
  BY DEF TypeOK
<1>2. PICK r \in Request : loops' = [loops EXCEPT ![i] = r] /\ r.what = loops[i].what
  <2>1. CASE Finished(i)
    <3>1. PICK a \in {"ok", "refused", "error"} : loops' = [loops EXCEPT ![i].reply = a]
      BY <2>1 DEF Finished
    <3>2. [loops[i] EXCEPT !.reply = a] \in Request /\ [loops[i] EXCEPT !.reply = a].what = loops[i].what
      BY <1>1 DEF Request
    <3> QED
      BY <3>1, <3>2
  <2>2. CASE TimeUp(i)
    <3>1. loops' = [loops EXCEPT ![i].late = TRUE]
      BY <2>2 DEF TimeUp
    <3>2. [loops[i] EXCEPT !.late = TRUE] \in Request /\ [loops[i] EXCEPT !.late = TRUE].what = loops[i].what
      BY <1>1 DEF Request
    <3> QED
      BY <3>1, <3>2
  <2> QED
    BY <2>1, <2>2 DEF Settle
<1> QED
  BY <1>1, <1>2

-----------------------------------------------------------------------------
(* The invariant                                                           *)

LEMMA Starts == Init => IInv
<1> SUFFICES ASSUME Init PROVE IInv
  OBVIOUS
<1>1. loops = <<>> /\ loops \in Seq(Request) /\ DOMAIN loops = {}
  BY DEF Init
<1>2. calls \in 0..MaxCalls /\ faults \in 0..MaxFaults
  BY BoundsAssumption DEF Init
<1>3. OneUpload
  BY <1>1 DEF Init, OneUpload, Sending
<1> QED
  BY <1>1, <1>2, <1>3 DEF Init, IInv, TypeOK, ListHasToken, OnlineMeansLoggedIn, HeldBackForAWhile

\* The request a slot makes tells what the slot has done to m_uploadStatus.
LEMMA WhatIsAsked ==
    ASSUME TypeOK, HttpLogin \/ HttpHeartbeat \/ HttpsGetUsers \/ HttpsUploadopenlog,
           NEW what \in {"token", "heartbeat", "user", "upload"}, loops' = Asked(what)
    PROVE  /\ what \in {"token", "user"} => m_uploadStatus' = m_uploadStatus
           /\ what \in {"heartbeat", "upload"} => ~m_uploadStatus /\ m_uploadStatus'
<1>1. ASSUME NEW other \in {"token", "heartbeat", "user", "upload"}, loops' = Asked(other) PROVE other = what
  <2>1. what \in {"token", "list", "heartbeat", "user", "upload"}
        /\ other \in {"token", "list", "heartbeat", "user", "upload"} /\ loops \in Seq(Request)
    BY DEF TypeOK
  <2>2. loops'[Len(loops) + 1].what = what
    BY <2>1, AskedType DEF Asked
  <2>3. loops'[Len(loops) + 1].what = other
    BY <1>1, <2>1, AskedType DEF Asked
  <2> QED
    BY <2>2, <2>3
<1>2. CASE HttpLogin
  BY <1>1, <1>2 DEF HttpLogin, flags
<1>3. CASE HttpHeartbeat
  <2>1. what = "heartbeat"
    BY <1>1, <1>3 DEF HttpHeartbeat
  <2> QED
    BY <1>3, <2>1 DEF HttpHeartbeat
<1>4. CASE HttpsGetUsers
  BY <1>1, <1>4 DEF HttpsGetUsers, flags
<1>5. CASE HttpsUploadopenlog
  BY <1>1, <1>5 DEF HttpsUploadopenlog
<1> QED
  BY <1>2, <1>3, <1>4, <1>5

LEMMA StartsRequest ==
    ASSUME IInv, HttpLogin \/ HttpHeartbeat \/ HttpsGetUsers \/ HttpsUploadopenlog
    PROVE  IInv'
<1>0. TypeOK /\ ListHasToken /\ loops \in Seq(Request) /\ DOMAIN loops = 1..Len(loops)
  BY DEF IInv, TypeOK
<1>1. PICK what \in {"token", "heartbeat", "user", "upload"} : loops' = Asked(what)
  <2>1. loops' \in {Asked("token"), Asked("heartbeat"), Asked("user"), Asked("upload")}
    BY DEF HttpLogin, HttpHeartbeat, HttpsGetUsers, HttpsUploadopenlog
  <2> QED
    BY <2>1
<1>2. /\ loops' \in Seq(Request)
      /\ DOMAIN loops' = 1..(Len(loops) + 1)
      /\ \A i \in 1..Len(loops) : loops'[i] = loops[i]
      /\ loops'[Len(loops) + 1].what = what
  <2>1. what \in {"token", "list", "heartbeat", "user", "upload"}
    OBVIOUS
  <2>2. loops' = Append(loops, [what |-> what, reply |-> "none", late |-> FALSE])
    BY <1>1 DEF Asked
  <2> QED
    BY <1>0, <2>1, <2>2, AskedType, Zenon
<1>3. /\ UNCHANGED <<timers, m_allowRequest, m_loginStatus, m_netStatus, faults>>
      /\ m_uploadStatus' \in BOOLEAN
      /\ calls' \in 0..MaxCalls
  <2>1. CASE HttpLogin
    BY <1>0, <2>1 DEF TypeOK, HttpLogin, flags
  <2>2. CASE HttpHeartbeat
    BY <1>0, <2>2 DEF TypeOK, HttpHeartbeat
  <2>3. CASE HttpsGetUsers
    BY <1>0, <2>3, BoundsAssumption DEF TypeOK, HttpsGetUsers, flags
  <2>4. CASE HttpsUploadopenlog
    BY <1>0, <2>4, BoundsAssumption DEF TypeOK, HttpsUploadopenlog
  <2> QED
    BY <2>1, <2>2, <2>3, <2>4
<1>4. TypeOK'
  BY <1>0, <1>2, <1>3 DEF TypeOK, timers
<1>5. ListHasToken'
  <2> SUFFICES ASSUME NEW i \in DOMAIN loops', loops'[i].what = "list" PROVE m_loginStatus'
    BY DEF ListHasToken
  <2>1. Len(loops) \in Nat
    BY <1>0
  <2>2. i \in 1..Len(loops)
    BY <1>2, <2>1
  <2> QED
    BY <1>0, <1>2, <1>3, <2>2 DEF ListHasToken
<1>6. OneUpload'
  <2>1. Len(loops) \in Nat /\ OneUpload
    BY <1>0 DEF IInv
  <2>2. CASE what \in {"token", "user"}
    <3>1. Sending' = Sending
      BY <1>0, <1>2, <2>1, <2>2 DEF Sending
    <3>2. m_uploadStatus' = m_uploadStatus
      BY <1>0, <1>1, <2>2, WhatIsAsked
    <3> QED
      BY <2>1, <3>1, <3>2 DEF OneUpload
  <2>3. CASE what \in {"heartbeat", "upload"}
    <3>1. ~m_uploadStatus /\ m_uploadStatus'
      BY <1>0, <1>1, <2>3, WhatIsAsked
    <3>2. Sending = {}
      BY <2>1, <3>1 DEF OneUpload
    <3>3. Sending' = {Len(loops) + 1}
      BY <1>0, <1>2, <2>1, <2>3, <3>2 DEF Sending
    <3> QED
      BY <3>1, <3>3 DEF OneUpload
  <2> QED
    BY <2>2, <2>3
<1> QED
  BY <1>3, <1>4, <1>5, <1>6 DEF IInv, OnlineMeansLoggedIn, HeldBackForAWhile, timers

LEMMA Settles ==
    ASSUME IInv, NEW i \in DOMAIN loops, Settle(i)
    PROVE  IInv'
<1>0. TypeOK /\ ListHasToken
  BY DEF IInv
<1>1. /\ loops' \in Seq(Request)
      /\ DOMAIN loops' = DOMAIN loops
      /\ \A k \in DOMAIN loops : loops'[k].what = loops[k].what
  BY <1>0, SettleType
<1>2. UNCHANGED <<timers, flags, m_netStatus, calls>>
  BY DEF Settle, Finished, TimeUp
<1>3. faults' \in 0..MaxFaults
  BY <1>0, BoundsAssumption DEF Settle, Finished, TimeUp, Costs, TypeOK
<1>4. ListHasToken'
  BY <1>0, <1>1, <1>2 DEF ListHasToken, flags
<1>5. OneUpload'
  <2>1. Sending' = Sending
    BY <1>1 DEF Sending
  <2> QED
    BY <1>2, <2>1 DEF IInv, OneUpload, flags
<1> QED
  BY <1>0, <1>1, <1>2, <1>3, <1>4, <1>5 DEF IInv, TypeOK, OnlineMeansLoggedIn, HeldBackForAWhile, timers, flags

\* What a request leaves of the timers and the flags, for every caller but HttpLogin with its token.
LEMMA ResultKeeps ==
    ASSUME TypeOK, OnlineMeansLoggedIn, HeldBackForAWhile, Result, UNCHANGED m_loginStatus
    PROVE  /\ m_loginTimer' \in BOOLEAN /\ m_heartbeatTimer' \in BOOLEAN /\ m_requestAllowTimer' \in BOOLEAN
           /\ m_allowRequest' \in BOOLEAN /\ m_netStatus' \in BOOLEAN
           /\ OnlineMeansLoggedIn' /\ HeldBackForAWhile'
<1>1. CASE Innermost.late
  <2>1. TimedOut
    BY <1>1 DEF Result
  <2> QED
    BY <2>1 DEF TimedOut, TypeOK, OnlineMeansLoggedIn, HeldBackForAWhile
<1>2. CASE ~Innermost.late
  <2>1. UNCHANGED timers /\ UNCHANGED m_netStatus /\ m_allowRequest' = (m_allowRequest \/ Innermost.reply # "error")
    BY <1>2 DEF Result, Replied
  <2> QED
    BY <2>1 DEF timers, TypeOK, OnlineMeansLoggedIn, HeldBackForAWhile
<1> QED
  BY <1>1, <1>2

LEMMA Returns ==
    ASSUME IInv, Return
    PROVE  IInv'
<1>0. TypeOK /\ ListHasToken /\ OnlineMeansLoggedIn /\ HeldBackForAWhile
  BY DEF IInv
<1>1. Quit
  BY DEF Return, GotToken, NoToken, LoggedIn, GotUser, Sent
<1>2. /\ Len(loops) \in DOMAIN loops
      /\ Innermost \in Request
      /\ Outer \in Seq(Request)
      /\ DOMAIN Outer = 1..(Len(loops) - 1)
      /\ Len(Outer) = Len(loops) - 1
      /\ \A i \in DOMAIN Outer : i \in DOMAIN loops /\ Outer[i] = loops[i]
  BY <1>0, <1>1, OuterType
<1>a. Len(loops) \in Nat /\ Len(loops) >= 1 /\ DOMAIN loops = 1..Len(loops) /\ OneUpload
  BY <1>0, <1>2 DEF TypeOK, IInv
<1>b. ASSUME loops' = Outer, Innermost.what \notin {"heartbeat", "upload"}, m_uploadStatus' = m_uploadStatus
      PROVE  OneUpload'
  <2>1. Sending' = Sending
    BY <1>2, <1>a, <1>b DEF Sending, Innermost
  <2> QED
    BY <1>a, <1>b, <2>1 DEF OneUpload
<1>3. CASE GotToken
  <2>1. /\ m_loginStatus' = TRUE
        /\ UNCHANGED timers /\ UNCHANGED <<m_netStatus, m_uploadStatus, calls, faults>>
        /\ m_allowRequest' = (m_allowRequest \/ Innermost.reply # "error")
        /\ loops' = Append(Outer, [what |-> "list", reply |-> "none", late |-> FALSE])
    BY <1>3 DEF GotToken, Replied
  <2>2. loops' \in Seq(Request)
    BY <1>0, <1>2, <2>1, AskedType
  <2>3. OneUpload'
    <3>1. /\ DOMAIN loops' = 1..Len(loops) /\ loops'[Len(loops)].what = "list"
          /\ \A i \in 1..(Len(loops) - 1) : loops'[i] = loops[i]
      <4>1. (Len(loops) - 1) + 1 = Len(loops)
        BY <1>a
      <4>2. /\ DOMAIN loops' = 1..(Len(Outer) + 1) /\ loops'[Len(Outer) + 1].what = "list"
            /\ \A i \in 1..Len(Outer) : loops'[i] = Outer[i]
        BY <1>0, <1>2, <2>1, AskedType
      <4> QED
        BY <1>2, <4>1, <4>2
    <3>2. loops[Len(loops)].what = "token"
      BY <1>3 DEF GotToken, Innermost
    <3>3. Sending' = Sending
      BY <1>a, <3>1, <3>2 DEF Sending
    <3> QED
      BY <1>a, <2>1, <3>3 DEF OneUpload
  <2> QED
    BY <1>0, <2>1, <2>2, <2>3 DEF IInv, TypeOK, ListHasToken, OnlineMeansLoggedIn, HeldBackForAWhile, timers
<1>4. CASE LoggedIn
  <2>1. m_loginStatus
    BY <1>0, <1>2, <1>4 DEF LoggedIn, ListHasToken, Innermost
  <2>2. ListHasToken'
    BY <1>4, <2>1 DEF LoggedIn, ListHasToken
  <2>3. HeldBackForAWhile'
    BY <1>0, <1>4 DEF LoggedIn, ListResult, HeldBackForAWhile
  <2>4. TypeOK'
    BY <1>0, <1>2, <1>4 DEF LoggedIn, ListResult, TypeOK
  <2>5. OnlineMeansLoggedIn'
    BY <1>4, <2>1 DEF LoggedIn, OnlineMeansLoggedIn
  <2>6. OneUpload'
    BY <1>4, <1>b DEF LoggedIn
  <2> QED
    BY <2>2, <2>3, <2>4, <2>5, <2>6 DEF IInv
<1>5. CASE NoToken \/ GotUser \/ Sent
  <2>1. Result /\ loops' = Outer /\ UNCHANGED <<m_loginStatus, calls, faults>> /\ m_uploadStatus' \in BOOLEAN
    BY <1>0, <1>5 DEF NoToken, GotUser, Sent, TypeOK
  <2>2. ListHasToken'
    BY <1>0, <1>2, <2>1 DEF ListHasToken
  <2>3. TypeOK'
    BY <1>0, <1>2, <2>1, ResultKeeps DEF TypeOK
  <2>4. OneUpload'
    <3>1. CASE NoToken \/ GotUser
      BY <1>b, <3>1 DEF NoToken, GotUser
    <3>2. CASE Sent
      <4>1. Len(loops) \in Sending /\ ~m_uploadStatus'
        BY <1>2, <3>2 DEF Sent, Sending, Innermost
      <4>2. Sending' = {}
        BY <1>2, <1>a, <2>1, <4>1 DEF Sending, OneUpload
      <4> QED
        BY <4>1, <4>2 DEF OneUpload
    <3> QED
      BY <1>5, <3>1, <3>2
  <2> QED
    BY <1>0, <2>1, <2>2, <2>3, <2>4, ResultKeeps DEF IInv
<1> QED
  BY <1>3, <1>4, <1>5 DEF Return

LEMMA Preserved == IInv /\ [Next]_vars => IInv'
<1> SUFFICES ASSUME IInv, [Next]_vars PROVE IInv'
  OBVIOUS
<1>1. CASE AllowRequest
  BY <1>1 DEF AllowRequest, IInv, TypeOK, ListHasToken, OnlineMeansLoggedIn, HeldBackForAWhile, OneUpload, Sending
<1>2. CASE NoInterface
  BY <1>2 DEF NoInterface, IInv, TypeOK, ListHasToken, OnlineMeansLoggedIn, HeldBackForAWhile, OneUpload, Sending, timers, flags
<1>3. CASE UNCHANGED vars
  BY <1>3 DEF vars, IInv, TypeOK, ListHasToken, OnlineMeansLoggedIn, HeldBackForAWhile, OneUpload, Sending, timers, flags
<1> QED
  BY <1>1, <1>2, <1>3, StartsRequest, Settles, Returns DEF Next

\* Every variable keeps its type: the event loops that are under way are requests of the five kinds.
THEOREM TypeCorrect == Spec => []TypeOK
  BY Starts, Preserved, PTL DEF Spec, IInv

\* However requests return inside one another, exactly one of the login and the heartbeat timer runs, and a terminal
\* that counts as online has its token and beats (httpsclient.cpp:338-348, 422-449).
THEOREM OnlineLoggedIn == Spec => []OnlineMeansLoggedIn
  BY Starts, Preserved, PTL DEF Spec, IInv

\* However requests return inside one another, requests that are not allowed will be allowed again
\* (httpsclient.cpp:33-35, 257, 275-281).
THEOREM AllowedAgain == Spec => []HeldBackForAWhile
  BY Starts, Preserved, PTL DEF Spec, IInv

\* However many event loops lie inside one another, m_uploadStatus is set exactly while a heartbeat or an upload is under
\* way, and never two of them are (httpsclient.cpp:160-196, 451-469).
THEOREM OneUploadAtATime == Spec => []OneUpload
  BY Starts, Preserved, PTL DEF Spec, IInv
=============================================================================
