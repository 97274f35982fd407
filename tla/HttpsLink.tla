----------------------------- MODULE HttpsLink -----------------------------
(***************************************************************************)
(* HttpsClient, the connection of protocol 3. A request is made in an      *)
(* event loop of its own (QEventLoop::exec), which goes on to serve the    *)
(* timers and the signals of the other threads: their slots make requests  *)
(* on top of it. A loop that has been told to quit returns when those on   *)
(* top of it have returned, and only then looks whether the timer of its   *)
(* request still runs: a request that was answered in time may be taken    *)
(* for one that was not.                                                   *)
(*                                                                         *)
(* What an answer says is handed on (signals, sqlDeleteOffline) and not    *)
(* followed here, the answer to the token request apart.                   *)
(***************************************************************************)
EXTENDS Naturals, Sequences

CONSTANTS MaxCalls,     \* bound: signals from UserIdRequest, FaceIdentify and OfflineRecord
          MaxFaults     \* bound: requests that time out, logins that fail

ASSUME BoundsAssumption == MaxCalls \in Nat /\ MaxFaults \in Nat

VARIABLES
    m_loginTimer, m_heartbeatTimer, m_requestAllowTimer,    \* whether they run
    m_allowRequest, m_loginStatus, m_uploadStatus,
    m_netStatus,
    loops,              \* the requests under way, the innermost last
    calls, faults

timers == <<m_loginTimer, m_heartbeatTimer, m_requestAllowTimer>>
flags == <<m_allowRequest, m_loginStatus, m_uploadStatus>>
vars == <<timers, flags, m_netStatus, loops, calls, faults>>

\* A request, what has come back for it, and whether its timer has fired.
Request == [what : {"token", "list", "heartbeat", "user", "upload"},
            reply : {"none", "ok", "refused", "error"}, late : BOOLEAN]

Init ==
    /\ m_loginTimer = TRUE /\ m_heartbeatTimer = FALSE /\ m_requestAllowTimer = FALSE
    /\ m_allowRequest = TRUE /\ m_loginStatus = FALSE /\ m_uploadStatus = FALSE
    /\ m_netStatus = FALSE
    /\ loops = <<>> /\ calls = 0 /\ faults = 0
----------------------------------------------------------------------------
(***************************************************************************)
(* The slots, up to the event loop of their request. One that finds        *)
(* m_allowRequest false gets an empty answer at once.                      *)
(***************************************************************************)
Asked(what) == Append(loops, [what |-> what, reply |-> "none", late |-> FALSE])

\* A timer does not fire while its slot has not returned.
LoggingIn == \E i \in DOMAIN loops : loops[i].what \in {"token", "list"}

HttpLogin ==
    /\ m_loginTimer /\ ~LoggingIn /\ m_allowRequest
    /\ loops' = Asked("token")
    /\ UNCHANGED <<timers, flags, m_netStatus, calls, faults>>

HttpHeartbeat ==
    /\ m_heartbeatTimer /\ ~m_uploadStatus /\ m_allowRequest
    /\ m_uploadStatus' = TRUE
    /\ loops' = Asked("heartbeat")
    /\ UNCHANGED <<timers, m_allowRequest, m_loginStatus, m_netStatus, calls, faults>>

HttpsGetUsers ==
    /\ calls < MaxCalls /\ m_allowRequest
    /\ loops' = Asked("user")
    /\ calls' = calls + 1
    /\ UNCHANGED <<timers, flags, m_netStatus, faults>>

\* Before the first login, and while another upload or a heartbeat is under way, it is dropped.
HttpsUploadopenlog ==
    /\ calls < MaxCalls /\ m_allowRequest
    /\ m_loginStatus /\ ~m_uploadStatus
    /\ m_uploadStatus' = TRUE
    /\ loops' = Asked("upload")
    /\ calls' = calls + 1
    /\ UNCHANGED <<timers, m_allowRequest, m_loginStatus, m_netStatus, faults>>

\* m_requestAllowTimer
AllowRequest ==
    /\ m_requestAllowTimer
    /\ m_requestAllowTimer' = FALSE /\ m_allowRequest' = TRUE
    /\ UNCHANGED <<m_loginTimer, m_heartbeatTimer, m_loginStatus, m_uploadStatus, m_netStatus, loops, calls, faults>>
----------------------------------------------------------------------------
(***************************************************************************)
(* What ends an event loop: the reply of request i is finished, or its     *)
(* timer fires.                                                            *)
(***************************************************************************)
Costs(fault) ==
    IF fault THEN faults < MaxFaults /\ faults' = faults + 1 ELSE UNCHANGED faults

Finished(i) ==
    /\ loops[i].reply = "none"
    /\ \E r \in {"ok", "refused", "error"} :
          /\ loops' = [loops EXCEPT ![i].reply = r]
          /\ Costs(loops[i].what = "token" /\ r # "ok")
    /\ UNCHANGED <<timers, flags, m_netStatus, calls>>

\* The timer of a request that waits for those on top of it runs on.
TimeUp(i) ==
    /\ ~loops[i].late
    /\ loops' = [loops EXCEPT ![i].late = TRUE]
    /\ Costs(loops[i].reply = "none" \/ i = Len(loops))
    /\ UNCHANGED <<timers, flags, m_netStatus, calls>>
----------------------------------------------------------------------------
(***************************************************************************)
(* The innermost loop returns: requestGet, requestPost, requestPostHeart,  *)
(* and what their callers do with the answer.                              *)
(***************************************************************************)
Innermost == loops[Len(loops)]
Outer == SubSeq(loops, 1, Len(loops) - 1)
Quit == loops # <<>> /\ (Innermost.late \/ Innermost.reply # "none")

\* Mutant of TimedOut: both timers run on
TimedOutBoth ==
    /\ m_allowRequest' = FALSE /\ m_requestAllowTimer' = TRUE
    /\ m_loginTimer' = TRUE
    /\ m_netStatus' = FALSE
    /\ UNCHANGED m_heartbeatTimer

\* Mutant of TimedOut: nothing allows requests again
TimedOutForGood ==
    /\ m_allowRequest' = FALSE
    /\ m_loginTimer' = TRUE
    /\ m_heartbeatTimer' = IF m_loginTimer THEN m_heartbeatTimer ELSE FALSE
    /\ m_netStatus' = FALSE
    /\ UNCHANGED m_requestAllowTimer

TimedOut ==
    /\ m_allowRequest' = FALSE /\ m_requestAllowTimer' = TRUE
    /\ m_loginTimer' = TRUE
    /\ m_heartbeatTimer' = IF m_loginTimer THEN m_heartbeatTimer ELSE FALSE
    /\ m_netStatus' = FALSE

\* A reply with an error changes nothing: the request is made again when its turn comes.
Replied ==
    /\ m_allowRequest' = (m_allowRequest \/ Innermost.reply # "error")
    /\ UNCHANGED <<timers, m_netStatus>>

Result == IF Innermost.late THEN TimedOut ELSE Replied
Answered == ~Innermost.late /\ Innermost.reply = "ok"

\* HttpLogin has its token and asks for the list of persons, in an event loop on top of the same ones.
GotToken ==
    /\ Quit /\ Innermost.what = "token" /\ Answered
    /\ Replied
    /\ m_loginStatus' = TRUE
    /\ loops' = Append(Outer, [what |-> "list", reply |-> "none", late |-> FALSE])
    /\ UNCHANGED <<m_uploadStatus, calls, faults>>

\* Mutant of NoToken: the timer is stopped whatever the answer
NoTokenStops ==
    /\ Quit /\ Innermost.what = "token" /\ ~Answered
    /\ m_loginTimer' = FALSE /\ m_heartbeatTimer' = TRUE
    /\ loops' = Outer
    /\ UNCHANGED <<m_requestAllowTimer, flags, m_netStatus, calls, faults>>

NoToken ==
    /\ Quit /\ Innermost.what = "token" /\ ~Answered
    /\ Result
    /\ loops' = Outer
    /\ UNCHANGED <<m_loginStatus, m_uploadStatus, calls, faults>>

\* requestGet: the result again, but for the two timers and m_netStatus, which the end of HttpLogin sets at once.
ListResult ==
    /\ m_allowRequest' = (~Innermost.late /\ (m_allowRequest \/ Innermost.reply # "error"))
    /\ m_requestAllowTimer' = (m_requestAllowTimer \/ Innermost.late)

\* The end of HttpLogin, whatever has become of the list.
LoggedIn ==
    /\ Quit /\ Innermost.what = "list"
    /\ ListResult
    /\ m_loginTimer' = FALSE /\ m_heartbeatTimer' = TRUE /\ m_netStatus' = TRUE
    /\ loops' = Outer
    /\ UNCHANGED <<m_loginStatus, m_uploadStatus, calls, faults>>

GotUser ==
    /\ Quit /\ Innermost.what = "user"
    /\ Result
    /\ loops' = Outer
    /\ UNCHANGED <<m_loginStatus, m_uploadStatus, calls, faults>>

\* Mutant of Sent: the flag is cleared only after an answer
SentIfAnswered ==
    /\ Quit /\ Innermost.what \in {"heartbeat", "upload"}
    /\ Result
    /\ m_uploadStatus' = ~Answered
    /\ loops' = Outer
    /\ UNCHANGED <<m_loginStatus, calls, faults>>

\* The end of HttpHeartbeat and of httpsUploadopenlog.
Sent ==
    /\ Quit /\ Innermost.what \in {"heartbeat", "upload"}
    /\ Result
    /\ m_uploadStatus' = FALSE
    /\ loops' = Outer
    /\ UNCHANGED <<m_loginStatus, calls, faults>>

Return == GotToken \/ NoToken \/ LoggedIn \/ GotUser \/ Sent
----------------------------------------------------------------------------
\* NetManager finds no interface.
NoInterface ==
    /\ m_netStatus
    /\ m_netStatus' = FALSE
    /\ UNCHANGED <<timers, flags, loops, calls, faults>>

Settle(i) == Finished(i) \/ TimeUp(i)

Next ==
    \/ HttpLogin \/ HttpHeartbeat \/ AllowRequest
    \/ HttpsGetUsers \/ HttpsUploadopenlog
    \/ \E i \in DOMAIN loops : Settle(i)
    \/ Return
    \/ NoInterface

(***************************************************************************)
(* The event loops turn and the timers fire; a request is answered or its  *)
(* time is up.                                                             *)
(***************************************************************************)
Fairness ==
    /\ WF_vars(HttpLogin) /\ WF_vars(AllowRequest) /\ WF_vars(Return)
    /\ WF_vars(loops # <<>> /\ ~Quit /\ Settle(Len(loops)))

Spec == Init /\ [][Next]_vars /\ Fairness
----------------------------------------------------------------------------
TypeOK ==
    /\ m_loginTimer \in BOOLEAN /\ m_heartbeatTimer \in BOOLEAN /\ m_requestAllowTimer \in BOOLEAN
    /\ m_allowRequest \in BOOLEAN /\ m_loginStatus \in BOOLEAN /\ m_uploadStatus \in BOOLEAN
    /\ m_netStatus \in BOOLEAN
    /\ loops \in Seq(Request)
    /\ calls \in 0..MaxCalls /\ faults \in 0..MaxFaults

\* Whichever requests end inside one another, exactly one of the login and the heartbeat timer runs, and while the other
\* threads are told that the network is there the terminal has a token and beats (httpsclient.cpp:338-348, 422-449).
OnlineMeansLoggedIn ==
    /\ m_loginTimer # m_heartbeatTimer
    /\ m_netStatus => m_heartbeatTimer /\ m_loginStatus

\* Requests are held back only as long as the timer runs that allows them again, in whatever order the requests that
\* set and clear m_allowRequest return (httpsclient.cpp:33-35, 257, 275-281).
HeldBackForAWhile == ~m_allowRequest => m_requestAllowTimer

\* However requests return inside one another, m_uploadStatus is set exactly while a heartbeat or an upload is under way,
\* and there is never more than one of them (httpsclient.cpp:160-196, 451-469).
Sending == {i \in DOMAIN loops : loops[i].what \in {"heartbeat", "upload"}}
OneUpload ==
    /\ \A i, j \in Sending : i = j
    /\ m_uploadStatus <=> Sending # {}

\* An upload or a heartbeat ends, and lets the next one begin, whatever is started on top of it
\* (httpsclient.cpp:160-196, 451-469).
UploadEnds == m_uploadStatus ~> ~m_uploadStatus

\* Once the back end answers the terminal is logged in for good, though requests from before are still to return and take
\* the login back (httpsclient.cpp:338-349).
LoggedInForGood == <>[](m_heartbeatTimer /\ m_loginStatus)
=============================================================================
