---------------------------- MODULE ToolSession ----------------------------
(***************************************************************************)
(* ToolTcpServer: the server of the configuration tool, and the firmware   *)
(* it uploads. One thread handles every socket; m_tcpSocket is the one     *)
(* accepted last, and every readyRead reads from it, whichever socket it   *)
(* comes from. A heartbeat of the tool starts a timer of six seconds that  *)
(* ends the connection, a piece of an upload stops it.                     *)
(*                                                                         *)
(* A message is <<kind, upload, piece>>, and travels as two symbols        *)
(* <<message, 1>> (which has the header of eleven bytes whole) and         *)
(* <<message, 2>>. The tool sends a piece when the one before it has been  *)
(* answered; its last piece is the one whose number is 1, and has the md5. *)
(***************************************************************************)
EXTENDS Naturals, Sequences, FiniteSets, SequencesExt

CONSTANTS Connections,      \* bound: connections the tool makes
          Uploads,          \* bound: uploads it starts
          Pieces,           \* pieces of an upload
          MaxTalk,          \* bound: heartbeats and cancellations it sends
          MaxCrashes        \* bound: ends of the process other than by an upload

ASSUME BoundsAssumption ==
    /\ {Connections, Uploads, MaxTalk, MaxCrashes} \subseteq Nat
    /\ Pieces \in Nat \ {0}

Connection == 1..Connections
None == 0
Message == ({"piece"} \X (1..Uploads) \X (1..Pieces)) \union {<<"heartbeat", 0, 0>>, <<"cancel", 0, 0>>}
Heartbeat == <<"heartbeat", 0, 0>>
Cancel == <<"cancel", 0, 0>>

VARIABLES
    \* the terminal
    m_tcpSocket,                    \* accepted last, None once the timer has deleted it
    m_heartBeat,                    \* whether the timer runs
    m_isSendingLostsOfData,
    mTool_msgBody, mTool_msgLen,    \* what onTcpRead keeps between two reads
    base64SaveFile,                 \* the pieces saved so far
    rebooting,                      \* an upload has been unpacked
    \* the connections and the tool
    link,           \* of each: new, up, silent (the tool is gone and has not said so), closed, gone
    arrived,        \* of each: symbols that have arrived and have not been read
    tool,           \* connection it uses, upload and piece it sends, and whether an answer is due
    made,           \* connections, uploads and talk so far
    crashes,
    \* history
    told,           \* connections whose end the other modules have been told of
    heard,          \* the last message parsed (not one dropped), <<>> after another connection has stopped the timer
    since,          \* the uploads of which a piece has been saved since the files were last removed
    refused         \* an upload has been answered with "error" though it was the only one

server == <<m_tcpSocket, m_heartBeat, m_isSendingLostsOfData, mTool_msgBody, mTool_msgLen,
            base64SaveFile, rebooting>>
history == <<told, heard, since, refused>>
vars == <<server, link, arrived, tool, made, crashes, history>>

Idle(c) == [at |-> c, upload |-> 0, piece |-> 0, due |-> FALSE]
----------------------------------------------------------------------------
Init ==
    /\ m_tcpSocket = None /\ m_heartBeat = FALSE /\ m_isSendingLostsOfData = FALSE
    /\ mTool_msgBody = <<>> /\ mTool_msgLen = 0
    /\ base64SaveFile = <<>> /\ rebooting = FALSE
    /\ link = [c \in Connection |-> "new"] /\ arrived = [c \in Connection |-> <<>>]
    /\ tool = Idle(None) /\ made = [connections |-> 0, uploads |-> 0, talk |-> 0] /\ crashes = 0
    /\ told = {} /\ heard = <<>> /\ since = {} /\ refused = FALSE
----------------------------------------------------------------------------
(***************************************************************************)
(* The tool.                                                               *)
(***************************************************************************)
Uploading == tool.upload # 0

Send(c, m) == arrived' = [arrived EXCEPT ![c] = @ \o <<<<m, 1>>, <<m, 2>>>>]

\* It connects, and gives up what it did before; the old connection it ends or just leaves.
\* The terminal's side is onNewConnect: the timer stops, and nothing else is reset.
Connect ==
    /\ made.connections < Connections
    /\ LET c == made.connections + 1 IN
       /\ made' = [made EXCEPT !.connections = c]
       /\ link' = [link EXCEPT ![c] = "up"]
       /\ tool' = Idle(c)
       /\ m_tcpSocket' = c /\ m_heartBeat' = FALSE
       /\ heard' = <<>>
    /\ UNCHANGED <<m_isSendingLostsOfData, mTool_msgBody, mTool_msgLen, base64SaveFile, rebooting,
                   arrived, crashes, told, since, refused>>

Reaches == tool.at # None /\ link[tool.at] = "up"

SendPiece ==
    /\ Reaches /\ ~tool.due
    /\ \/ /\ ~Uploading /\ made.uploads < Uploads
          /\ made' = [made EXCEPT !.uploads = @ + 1]
          /\ tool' = [tool EXCEPT !.upload = made.uploads + 1, !.piece = 1, !.due = TRUE]
       \/ /\ Uploading
          /\ tool' = [tool EXCEPT !.piece = @ + 1, !.due = TRUE]
          /\ UNCHANGED made
    /\ Send(tool.at, <<"piece", tool'.upload, tool'.piece>>)
    /\ UNCHANGED <<server, link, crashes, history>>

\* of any connection: another tool may be at the other end
SendHeartbeat(c) ==
    /\ link[c] = "up" /\ made.talk < MaxTalk
    /\ made' = [made EXCEPT !.talk = @ + 1]
    /\ Send(c, Heartbeat)
    /\ UNCHANGED <<server, link, tool, crashes, history>>

\* It gives an upload up and says so.
SendCancel ==
    /\ Reaches /\ made.talk < MaxTalk /\ Uploading
    /\ made' = [made EXCEPT !.talk = @ + 1]
    /\ Send(tool.at, Cancel)
    /\ tool' = Idle(tool.at)
    /\ UNCHANGED <<server, link, crashes, history>>

\* Any of its connections ends, in order or without a word.
Leave(c) ==
    /\ link[c] = "up"
    /\ \E how \in {"silent", "closed"} : link' = [link EXCEPT ![c] = how]
    /\ tool' = IF c = tool.at THEN Idle(None) ELSE tool
    /\ UNCHANGED <<server, arrived, made, crashes, history>>

\* The answer goes to m_tcpSocket.
Answered == m_tcpSocket = tool.at /\ Reaches
----------------------------------------------------------------------------
(***************************************************************************)
(* parseData and what it calls.                                            *)
(***************************************************************************)
\* Mutant of SetSending: the flag is set, and the timer keeps running or stopped as it was
SetSendingFlagOnly(flag) ==
    /\ m_isSendingLostsOfData' = flag
    /\ UNCHANGED m_heartBeat

\* setSendingLostsOfData
SetSending(flag) ==
    /\ m_isSendingLostsOfData' = flag
    /\ m_heartBeat' = ~flag

\* Mutant of RemoveFiles: the pieces stay
RemoveNothing == UNCHANGED base64SaveFile

RemoveFiles == base64SaveFile' = <<>>

\* DevUpdate: the piece is appended; the one whose number is 1 has the pieces unpacked if their md5 is right.
DevUpdate(u, k) ==
    LET saved == Append(base64SaveFile, <<u, k>>)
        whole == saved = [j \in 1..Pieces |-> <<u, j>>]
        own == Answered /\ tool.due /\ tool.upload = u /\ tool.piece = k
    IN /\ SetSending(TRUE)
       /\ \/ /\ k # Pieces
             /\ base64SaveFile' = saved
             /\ tool' = IF own THEN [tool EXCEPT !.due = FALSE] ELSE tool
             /\ since' = since \union {u}
             /\ UNCHANGED <<rebooting, refused>>
          \/ /\ k = Pieces
             /\ RemoveFiles
             /\ rebooting' = (rebooting \/ whole)
             /\ tool' = IF own THEN Idle(tool.at) ELSE tool
             /\ since' = {}
             /\ refused' = (refused \/ (~whole /\ since \subseteq {u}))

\* parseData with the message m; what is not one whole message is not JSON.
ParseData(m) ==
    \/ /\ m = Heartbeat
       /\ SetSending(FALSE)
       /\ UNCHANGED <<base64SaveFile, rebooting, tool, since, refused>>
    \/ /\ m = Cancel
       /\ RemoveFiles
       /\ since' = {}
       /\ UNCHANGED <<m_heartBeat, m_isSendingLostsOfData, rebooting, tool, refused>>
    \/ /\ m[1] = "piece"
       /\ DevUpdate(m[2], m[3])

IsHeader(s) == s # <<>> /\ s[1][2] = 1
Whole(s) == Len(s) = 2 /\ IsHeader(s) /\ s[2] = <<s[1][1], 2>>

ParseSymbols(s) ==
    \/ /\ Whole(s)
       /\ ParseData(s[1][1]) /\ heard' = s[1][1]
    \/ /\ ~Whole(s)
       /\ UNCHANGED <<m_heartBeat, m_isSendingLostsOfData, base64SaveFile, rebooting, tool, heard, since, refused>>

(***************************************************************************)
(* onTcpRead. What begins with a header starts anew, anything else is      *)
(* added to what is kept. parseData ends by clearing mTool_msgBody, so     *)
(* that nothing is left of it behind the message: the rest of the read is  *)
(* dropped, whole messages too.                                            *)
(***************************************************************************)
ReadSymbols(d) ==
    LET body == IF IsHeader(d) THEN d ELSE mTool_msgBody \o d
        len == IF IsHeader(d) THEN 2 ELSE mTool_msgLen
    IN \/ /\ len > Len(body)
          /\ mTool_msgBody' = body /\ mTool_msgLen' = len
          /\ UNCHANGED <<m_heartBeat, m_isSendingLostsOfData, base64SaveFile, rebooting, tool, heard, since, refused>>
       \/ /\ len <= Len(body)
          /\ ParseSymbols(SubSeq(body, 1, len))
          /\ mTool_msgBody' = <<>> /\ mTool_msgLen' = 0

\* readAll returns what has arrived by then, and nothing if it is another connection that has something to read
OnTcpRead ==
    /\ m_tcpSocket # None /\ \E c \in Connection : arrived[c] # <<>>
    /\ \E n \in 0..Len(arrived[m_tcpSocket]) :
          /\ ReadSymbols(SubSeq(arrived[m_tcpSocket], 1, n))
          /\ arrived' = [arrived EXCEPT ![m_tcpSocket] = SubSeq(@, n + 1, Len(@))]
    /\ UNCHANGED <<m_tcpSocket, link, made, crashes, told>>
----------------------------------------------------------------------------
(***************************************************************************)
(* OnStateChanged, of any socket; what it has not read, if it is the one   *)
(* accepted last, is read first.                                           *)
(***************************************************************************)
OnStateChanged(c) ==
    /\ link[c] = "closed"
    /\ c = m_tcpSocket => arrived[c] = <<>>
    /\ link' = [link EXCEPT ![c] = "gone"]
    /\ m_heartBeat' = FALSE
    /\ heard' = IF c = m_tcpSocket THEN heard ELSE <<>>
    /\ told' = told \union {c}
    /\ UNCHANGED <<m_tcpSocket, m_isSendingLostsOfData, mTool_msgBody, mTool_msgLen, base64SaveFile, rebooting,
                   arrived, tool, made, crashes, since, refused>>

\* The timer: six seconds without a heartbeat. waitForDisconnected may fail if nobody is at the other end.
HeartBeatTimeout ==
    /\ m_heartBeat
    /\ m_heartBeat' = FALSE
    /\ \/ /\ m_tcpSocket # None /\ ~m_isSendingLostsOfData
          /\ link' = [link EXCEPT ![m_tcpSocket] = "gone"]
          /\ told' = told \union {m_tcpSocket}
          /\ \/ m_tcpSocket' = None
             \/ link[m_tcpSocket] = "silent" /\ UNCHANGED m_tcpSocket
          /\ tool' = IF tool.at = m_tcpSocket THEN Idle(None) ELSE tool
       \/ /\ m_tcpSocket = None \/ m_isSendingLostsOfData
          /\ UNCHANGED <<link, told, m_tcpSocket, tool>>
    /\ UNCHANGED <<m_isSendingLostsOfData, mTool_msgBody, mTool_msgLen, base64SaveFile, rebooting,
                   arrived, made, crashes, heard, since, refused>>

(***************************************************************************)
(* The process ends: after an upload, because an older connection has data *)
(* when m_tcpSocket is null, or for a reason outside of this module. The   *)
(* constructor removes the files.                                          *)
(***************************************************************************)
NullRead == m_tcpSocket = None /\ \E c \in Connection : link[c] = "up" /\ arrived[c] # <<>>

Restart ==
    /\ \/ rebooting \/ NullRead
       \/ crashes < MaxCrashes
    /\ crashes' = IF rebooting \/ NullRead THEN crashes ELSE crashes + 1
    /\ m_tcpSocket' = None /\ m_heartBeat' = FALSE /\ m_isSendingLostsOfData' = FALSE
    /\ mTool_msgBody' = <<>> /\ mTool_msgLen' = 0
    /\ base64SaveFile' = <<>> /\ rebooting' = FALSE
    /\ link' = [c \in Connection |-> IF link[c] = "new" THEN "new" ELSE "gone"]
    /\ arrived' = [c \in Connection |-> <<>>]
    /\ tool' = Idle(None)
    /\ told' = told \union {c \in Connection : link[c] # "new"}
    /\ heard' = <<>> /\ since' = {}
    /\ UNCHANGED <<made, refused>>

Tool == Connect \/ SendPiece \/ SendCancel \/ \E c \in Connection : SendHeartbeat(c) \/ Leave(c)
Server == OnTcpRead \/ HeartBeatTimeout \/ \E c \in Connection : OnStateChanged(c)

Next == Tool \/ Server \/ Restart

(***************************************************************************)
(* The event loop comes back to every socket with something to read and to *)
(* every timer that has fired. The tool may stop, so may the process.      *)
(***************************************************************************)
Fairness ==
    /\ WF_vars(OnTcpRead) /\ WF_vars(HeartBeatTimeout)
    /\ \A c \in Connection : WF_vars(OnStateChanged(c))

Spec == Init /\ [][Next]_vars /\ Fairness
----------------------------------------------------------------------------
TypeOK ==
    /\ m_tcpSocket \in Connection \union {None}
    /\ m_heartBeat \in BOOLEAN /\ m_isSendingLostsOfData \in BOOLEAN /\ rebooting \in BOOLEAN
    /\ mTool_msgBody \in Seq(Message \X {1, 2}) /\ mTool_msgLen \in {0, 2}
    /\ base64SaveFile \in Seq((1..Uploads) \X (1..Pieces))
    /\ link \in [Connection -> {"new", "up", "silent", "closed", "gone"}]
    /\ arrived \in [Connection -> Seq(Message \X {1, 2})]
    /\ tool \in [at : Connection \union {None}, upload : 0..Uploads, piece : 0..Pieces, due : BOOLEAN]
    /\ made \in [connections : 0..Connections, uploads : 0..Uploads, talk : 0..MaxTalk]
    /\ crashes \in 0..MaxCrashes
    /\ told \subseteq Connection /\ heard \in Message \union {<<>>}
    /\ since \subseteq 1..Uploads /\ refused \in BOOLEAN

\* An upload is refused only for the pieces another one, broken off, has left behind: after a refusal, a
\* cancellation that was heard or a restart the next is unpacked if all of it is parsed, however the reads cut, glue
\* and drop the messages, whichever come too and whatever was on its way (ToolTcpServer.cpp:300-366, 1165-1300).
RefusedOnlyIfSpoilt == ~refused

\* While the last message that was parsed is a heartbeat, the tool, unless its end has been told, is being timed,
\* whatever older connections, uploads and their pieces have done to the timer before. Of a heartbeat that is dropped
\* behind another message of the same read this says nothing (ToolTcpServer.cpp:191-261, 322-334, 1455-1465).
HeartbeatIsTimed ==
    (heard = Heartbeat /\ m_tcpSocket # None /\ m_tcpSocket \notin told)
        => (m_heartBeat /\ ~m_isSendingLostsOfData)

\* The other modules are told of the end of a connection the tool has left without a word, if the last message of it
\* that was parsed is a heartbeat and no other connection has stopped the timer since (ToolTcpServer.cpp:191-206).
SilenceIsTold ==
    \A c \in Connection :
        (m_tcpSocket = c /\ link[c] = "silent" /\ heard = Heartbeat)
            ~> (c \in told \/ m_tcpSocket # c \/ heard # Heartbeat)
=============================================================================
