------------------------------ MODULE TcpLink ------------------------------
(***************************************************************************)
(* The connection of the terminal with its back end: the thread of         *)
(* TcpClient (protocol 1), its socket and its three timers, and the flag   *)
(* m_netStatus, which NetManager writes too.  V1TcpClient (protocol 4)     *)
(* differs in the name of its login and in the length of one timer.        *)
(*                                                                         *)
(* Time passes in ticks.  An armed timer holds the ticks it has left and   *)
(* fires at 0.  Nobody looks at the errors and at the state of the socket  *)
(* (ConnectError and OnStateChanged do nothing), so that a connection the  *)
(* peer has given up is noticed by a timer only.  WriteDataToServer without *)
(* a socket is left out: its callers run in this thread, after ConnectHost *)
(* has made one.  Messages are taken whole, as OnReadData's framing should *)
(* deliver them; those behind a refused heartbeat in one read are dropped. *)
(***************************************************************************)
EXTENDS Naturals, Sequences

CONSTANTS
    Off,             \* a timer that is not armed
    HeartbeatTicks,  \* interval of m_heartbeatTimer, which repeats
    RequestTicks,    \* interval of m_requestTimer
    ConnectTicks,    \* interval of m_connectTimer
    MaxFaults,       \* bound: faults of the network and of the back end
    MaxWrites        \* bound: requests and commands besides those of the connection itself

ASSUME ConstantsAssumption ==
    /\ Off \notin Nat
    /\ HeartbeatTicks \in Nat \ {0}
    /\ RequestTicks \in Nat \ {0}
    /\ ConnectTicks \in Nat \ {0}
    /\ MaxFaults \in Nat
    /\ MaxWrites \in Nat

VARIABLES
    \* the network and the back end
    iface,      \* the terminal has an interface with a carrier
    reach,      \* the back end is there and can be reached from the interface
    peer,       \* the back end has this connection open
    session,    \* it regards the connection as logged in
    requests,   \* requests it has not answered yet
    known,      \* it knows the terminal's m_passwd
    faults, writes,
    \* the thread of TcpClient
    pc, socket, inbox,
    heartbeatTimer, requestTimer, connectTimer,
    m_netStatus,
    \* history
    heard,      \* data have come over this connection
    silence     \* ticks since data came last, ConnectTicks at most

netVars   == <<iface, reach>>
peerVars  == <<peer, session, requests>>
timerVars == <<heartbeatTimer, requestTimer, connectTimer>>
heardVars == <<heard, silence>>
vars == <<netVars, peerVars, known, faults, writes, pc, socket, inbox, timerVars,
          m_netStatus, heardVars>>

Kinds   == {"login", "register", "heartbeat", "other"}
Answers == {"login200", "login1002", "register200", "heartbeat401", "other"}

Timer(n) == 0..n \cup {Off}

TypeOK ==
    /\ iface \in BOOLEAN
    /\ reach \in BOOLEAN
    /\ peer \in BOOLEAN
    /\ session \in BOOLEAN
    /\ requests \in Seq(Kinds)
    /\ known \in BOOLEAN
    /\ faults \in 0..MaxFaults
    /\ writes \in 0..MaxWrites
    /\ pc \in {"connect", "idle", "read"}
    /\ socket \in {"connected", "dead"}
    /\ inbox \in Seq(Answers)
    /\ heartbeatTimer \in Timer(HeartbeatTicks)
    /\ requestTimer \in Timer(RequestTicks)
    /\ connectTimer \in Timer(ConnectTicks)
    /\ m_netStatus \in BOOLEAN
    /\ heard \in BOOLEAN
    /\ silence \in 0..ConnectTicks

Good == iface /\ reach

\* TcpClient::run is about to enter ConnectHost.
Init ==
    /\ iface \in BOOLEAN /\ reach \in BOOLEAN
    /\ peer = FALSE /\ session = FALSE /\ requests = <<>>
    /\ known \in BOOLEAN
    /\ faults = 0 /\ writes = 0
    /\ pc = "connect" /\ socket = "dead" /\ inbox = <<>>
    /\ heartbeatTimer = Off /\ requestTimer = Off /\ connectTimer = Off
    /\ m_netStatus = FALSE
    /\ heard = FALSE /\ silence = 0

Armed(t, n) == IF t = Off THEN n ELSE t

-----------------------------------------------------------------------------
(* The thread of TcpClient                                                 *)

\* What is written to a connection that is gone is lost; the answer is waited for all the same.
WriteDataToServer(kind) ==
    requests' = IF peer THEN Append(requests, kind) ELSE requests

envUnchanged == UNCHANGED <<netVars, faults>>

\* Mutant: the timer of the next attempt runs on.
ConnectSuccessKeepsRetry ==
    /\ pc = "connect"
    /\ Good
    /\ pc' = "idle"
    /\ socket' = "connected" /\ peer' = TRUE
    /\ heartbeatTimer' = Armed(heartbeatTimer, HeartbeatTicks)
    /\ requests' = <<"login">>
    /\ connectTimer' = Armed(connectTimer, ConnectTicks)
    /\ silence' = 0
    /\ envUnchanged
    /\ UNCHANGED <<session, known, writes, inbox, requestTimer, m_netStatus, heard>>

\* The second half of ConnectHost, waitForConnected having returned.
ConnectSuccess ==
    /\ pc = "connect"
    /\ Good
    /\ pc' = "idle"
    /\ socket' = "connected" /\ peer' = TRUE
    /\ requestTimer' = Off
    /\ heartbeatTimer' = Armed(heartbeatTimer, HeartbeatTicks)
    /\ requests' = <<"login">>
    /\ connectTimer' = Armed(connectTimer, ConnectTicks)
    /\ silence' = 0
    /\ envUnchanged
    /\ UNCHANGED <<session, known, writes, inbox, m_netStatus, heard>>

\* Mutant: no new attempt is scheduled when one has failed.
ConnectFailForgotten ==
    /\ pc = "connect"
    /\ ~Good
    /\ pc' = "idle"
    /\ m_netStatus' = FALSE
    /\ envUnchanged
    /\ UNCHANGED <<peerVars, known, writes, socket, inbox, timerVars, heardVars>>

ConnectFail ==
    /\ pc = "connect"
    /\ ~Good
    /\ pc' = "idle"
    /\ requestTimer' = RequestTicks
    /\ m_netStatus' = FALSE
    /\ envUnchanged
    /\ UNCHANGED <<peerVars, known, writes, socket, inbox, heartbeatTimer, connectTimer, heardVars>>

\* The first half: the old socket is aborted and its heartbeat stopped, a new one connects.
Reconnect ==
    /\ pc' = "connect"
    /\ socket' = "dead" /\ peer' = FALSE /\ session' = FALSE
    /\ requests' = <<>> /\ inbox' = <<>>
    /\ heartbeatTimer' = Off
    /\ heard' = FALSE
    /\ UNCHANGED <<known, writes, m_netStatus, silence>>

RequestTimeout ==
    /\ pc = "idle"
    /\ requestTimer = 0
    /\ requestTimer' = Off
    /\ Reconnect
    /\ envUnchanged
    /\ UNCHANGED connectTimer

ConnectTimeout ==
    /\ pc = "idle"
    /\ connectTimer = 0
    /\ connectTimer' = Off
    /\ Reconnect
    /\ envUnchanged
    /\ UNCHANGED requestTimer

\* A request of this thread or of a slot called for another one.
Written(kind) ==
    /\ pc = "idle"
    /\ WriteDataToServer(kind)
    /\ connectTimer' = Armed(connectTimer, ConnectTicks)
    /\ envUnchanged
    /\ UNCHANGED <<peer, session, known, pc, socket, inbox, requestTimer, m_netStatus, heardVars>>

requestHeartbeat ==
    /\ heartbeatTimer = 0
    /\ heartbeatTimer' = HeartbeatTicks
    /\ Written("heartbeat")
    /\ UNCHANGED writes

OtherRequest ==
    /\ writes < MaxWrites
    /\ writes' = writes + 1
    /\ Written("other")
    /\ UNCHANGED heartbeatTimer

\* Mutant: the wait for an answer goes on when data have come.
OnReadDataNoStop ==
    /\ pc = "idle"
    /\ inbox # <<>>
    /\ pc' = "read"
    /\ heard' = TRUE /\ silence' = 0
    /\ envUnchanged
    /\ UNCHANGED <<peerVars, known, writes, socket, inbox, timerVars, m_netStatus>>

\* Whatever the data are, they end the wait for an answer.
OnReadData ==
    /\ pc = "idle"
    /\ inbox # <<>>
    /\ pc' = "read"
    /\ connectTimer' = Off
    /\ heard' = TRUE /\ silence' = 0
    /\ envUnchanged
    /\ UNCHANGED <<peerVars, known, writes, socket, inbox, heartbeatTimer, requestTimer,
                   m_netStatus>>

\* The next message of those read at once; afterwards there may be more of them.
Parse(answer) ==
    /\ pc = "read"
    /\ inbox # <<>>
    /\ Head(inbox) = answer
    /\ envUnchanged
    /\ UNCHANGED writes

NextMessage ==
    /\ inbox' = Tail(inbox)
    /\ pc' \in IF inbox' = <<>> THEN {"idle"} ELSE {"idle", "read"}
    /\ UNCHANGED <<peer, session, socket, requestTimer, heardVars>>

Answering(kind) ==
    /\ WriteDataToServer(kind)
    /\ connectTimer' = Armed(connectTimer, ConnectTicks)
    /\ NextMessage

pareLogin ==
    \/ /\ Parse("login200")
       /\ m_netStatus' = TRUE
       /\ Answering("other")
       /\ UNCHANGED <<known, heartbeatTimer>>
    \/ /\ Parse("login1002")
       /\ Answering("register")
       /\ UNCHANGED <<known, heartbeatTimer, m_netStatus>>

pareRegister ==
    /\ Parse("register200")
    /\ heartbeatTimer' = Armed(heartbeatTimer, HeartbeatTicks)
    /\ known' = TRUE
    /\ Answering("login")
    /\ UNCHANGED m_netStatus

\* Mutant: a refused heartbeat is taken for any other answer.
pareHeartbeatIgnored ==
    /\ Parse("heartbeat401")
    /\ NextMessage
    /\ UNCHANGED <<requests, known, heartbeatTimer, connectTimer, m_netStatus>>

pareHeartbeat ==
    /\ pc = "read"
    /\ inbox # <<>>
    /\ Head(inbox) = "heartbeat401"
    /\ Reconnect
    /\ envUnchanged
    /\ UNCHANGED <<requestTimer, connectTimer>>

ParseOther ==
    /\ Parse("other")
    /\ NextMessage
    /\ UNCHANGED <<requests, known, heartbeatTimer, connectTimer, m_netStatus>>

-----------------------------------------------------------------------------
(* NetManager::run                                                         *)

NoInterface ==
    /\ ~iface
    /\ m_netStatus
    /\ m_netStatus' = FALSE
    /\ UNCHANGED <<netVars, peerVars, known, faults, writes, pc, socket, inbox, timerVars,
                   heardVars>>

-----------------------------------------------------------------------------
(* The network, the back end and the time                                  *)

threadUnchanged == UNCHANGED <<known, pc, timerVars, m_netStatus>>

Dec(t) == IF t = Off \/ t = 0 THEN t ELSE t - 1

Due == heartbeatTimer = 0 \/ requestTimer = 0 \/ connectTimer = 0

\* A timer that is due is served before the next tick, unless the thread waits for a connection.
\* While the network is good nothing that can be done at once takes as much as a tick.
Tick ==
    /\ Due => pc = "connect"
    /\ Good => pc = "idle" /\ requests = <<>> /\ inbox = <<>>
    /\ heartbeatTimer' = Dec(heartbeatTimer)
    /\ requestTimer' = Dec(requestTimer)
    /\ connectTimer' = Dec(connectTimer)
    /\ silence' = IF silence < ConnectTicks THEN silence + 1 ELSE silence
    /\ envUnchanged
    /\ UNCHANGED <<peerVars, known, writes, pc, socket, inbox, m_netStatus, heard>>

Reply(kind) ==
    CASE kind = "login"     -> IF known THEN "login200" ELSE "login1002"
      [] kind = "register"  -> "register200"
      [] kind = "heartbeat" -> IF session THEN "other" ELSE "heartbeat401"
      [] kind = "other"     -> "other"

ServerAnswer ==
    /\ Good
    /\ requests # <<>>
    /\ requests' = Tail(requests)
    /\ inbox' = Append(inbox, Reply(Head(requests)))
    /\ session' = (session \/ Reply(Head(requests)) = "login200")
    /\ envUnchanged
    /\ threadUnchanged
    /\ UNCHANGED <<peer, writes, socket, heardVars>>

\* A command of the back end.
ServerPush ==
    /\ Good
    /\ session
    /\ writes < MaxWrites
    /\ writes' = writes + 1
    /\ inbox' = Append(inbox, "other")
    /\ envUnchanged
    /\ threadUnchanged
    /\ UNCHANGED <<peerVars, socket, heardVars>>

\* One of the bounded faults.
Fault ==
    /\ faults < MaxFaults
    /\ faults' = faults + 1
    /\ threadUnchanged
    /\ UNCHANGED <<writes, heardVars>>

\* The interface or the way to the back end fails: open connections do not notice.
NetDown ==
    /\ Fault
    /\ \/ iface /\ iface' = FALSE /\ UNCHANGED reach
       \/ reach /\ reach' = FALSE /\ UNCHANGED iface
    /\ UNCHANGED <<peerVars, socket, inbox>>

NetUp ==
    /\ \/ ~iface /\ iface' = TRUE /\ UNCHANGED reach
       \/ ~reach /\ reach' = TRUE /\ UNCHANGED iface
    /\ threadUnchanged
    /\ UNCHANGED <<peerVars, faults, writes, socket, inbox, heardVars>>

\* The back end drops the connection, which the socket learns or not.
PeerDrop ==
    /\ Fault
    /\ peer
    /\ peer' = FALSE /\ session' = FALSE /\ requests' = <<>>
    /\ socket' \in {socket, "dead"}
    /\ UNCHANGED <<netVars, inbox>>

\* It forgets a login, or refuses one: the connection stays.
SessionLost ==
    /\ Fault
    /\ \/ session /\ session' = FALSE /\ UNCHANGED <<requests, inbox>>
       \/ /\ Good /\ requests # <<>> /\ Head(requests) \in {"login", "register"}
          /\ requests' = Tail(requests)
          /\ inbox' = Append(inbox, "other")
          /\ UNCHANGED session
    /\ UNCHANGED <<netVars, peer, socket>>

-----------------------------------------------------------------------------
Tcp == \/ ConnectSuccess \/ ConnectFail
       \/ RequestTimeout \/ ConnectTimeout \/ requestHeartbeat
       \/ OnReadData \/ pareLogin \/ pareRegister \/ pareHeartbeat \/ ParseOther

Next == \/ Tcp \/ OtherRequest \/ NoInterface
        \/ Tick \/ ServerAnswer \/ ServerPush
        \/ NetDown \/ NetUp \/ PeerDrop \/ SessionLost

Spec == Init /\ [][Next]_vars

\* Time passes, threads are scheduled, a back end that can be reached answers. Nothing is asked
\* of the network.
FairSpec ==
    /\ Spec
    /\ WF_vars(Tcp) /\ WF_vars(NoInterface) /\ WF_vars(Tick) /\ WF_vars(ServerAnswer)

-----------------------------------------------------------------------------
(* Properties                                                              *)

\* The thread never waits for events with no timer armed that will end in a new attempt or in a
\* write: the loss of a connection, which no signal of the socket reports, is always found out.
WillWake == pc # "connect" => heartbeatTimer # Off \/ requestTimer # Off

\* The timer of a new attempt runs only while there is no connection: a retry that was scheduled
\* does not tear down the connection another path has made meanwhile.
NoStrayRetry == requestTimer # Off => socket = "dead"

\* A connection over which data have come is given up only when the back end refuses a heartbeat
\* or has been silent for the whole time of the timer, however writes and answers overlap.
AnsweringPeerKept ==
    [][heard /\ ~heard' =>
         \/ silence = ConnectTicks
         \/ (pc = "read" /\ Head(inbox) = "heartbeat401")]_vars

\* Once the network is good and stays so the terminal is logged in, whatever state faults have
\* left its socket, its timers and the session in.
LoggedInAgain == Good ~> session \/ ~Good

-----------------------------------------------------------------------------
(* What makes the safety properties inductive                              *)

\* No connection, and nothing left of the one before.
NoLink ==
    /\ socket = "dead" /\ ~peer /\ ~session
    /\ requests = <<>> /\ inbox = <<>>
    /\ ~heard

LinkInv ==
    /\ pc = "connect" => NoLink
    /\ requestTimer # Off => NoLink

\* The timer is armed after the data that came last, and counts no faster than the silence.
SilenceInv == heard /\ connectTimer # Off => silence + connectTimer >= ConnectTicks

=============================================================================
