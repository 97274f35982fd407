------------------------------ MODULE Framing ------------------------------
(***************************************************************************)
(* How TcpClient cuts the bytes of the connection into messages            *)
(* (OnReadData, checkReadData, parseData in tcpclient.cpp; V1TcpClient and *)
(* TcpMiddware repeat the code). A message is a header of eleven bytes     *)
(* ("OFZL", version, type, cmd, length) and a body of JSON that ends in    *)
(* "}". readAll returns whatever has arrived: any piece of the stream.     *)
(*                                                                         *)
(* A symbol <<i, k>> is a piece of message i that no read divides: 1 and 2 *)
(* are the halves of "OFZL", 3 the rest of the header, the others the      *)
(* body, whose last symbol holds the "}". The cmd of message i is i.       *)
(***************************************************************************)
EXTENDS Integers, Sequences, FiniteSetsExt, Functions

CONSTANTS Messages,     \* bound: messages the back end sends
          MaxSize,      \* bound: symbols of a body
          MaxBreaks,    \* bound: connections that break
          None          \* what the cmd is read from bytes that hold none

ASSUME ConstantsAssumption ==
    /\ Messages \in Nat /\ MaxSize \in Nat \ {0} /\ MaxBreaks \in Nat
    /\ None \notin 1..Messages

Message == 1..Messages
Header == 3

Symbol == Message \X (1..(Header + MaxSize))

VARIABLES
    size,           \* of the body of each message
    sent,           \* messages sent so far
    coming,         \* what has been sent and not been read
    breaks,         \* connections broken so far
    m_msgData, m_msgLength, m_cmdType,
    rest,           \* the argument of the checkReadData that is to run, <<>> if none is
    parsed,         \* history: what parseData found, as <<cmd, message>>
    owed            \* history: the messages that arrived as OnReadData expects

vars == <<size, sent, coming, breaks, m_msgData, m_msgLength, m_cmdType, rest, parsed, owed>>
----------------------------------------------------------------------------
Piece(i) == [k \in 1..(Header + size[i]) |-> <<i, k>>]
Body(i) == [k \in 1..size[i] |-> <<i, Header + k>>]
End(i) == <<i, Header + size[i]>>

(***************************************************************************)
(* What the code reads in a piece d: mid(0,4) == "OFZL", mid(7,4),         *)
(* mid(6,1), remove(0,11), and indexOf("}OFZL").                           *)
(***************************************************************************)
HasMagic(d) == Len(d) >= 2 /\ d[1][2] = 1 /\ d[2][2] = 2
LengthIn(d) == IF Len(d) < Header THEN 0 ELSE size[d[Header][1]]
CommandIn(d) == IF Len(d) < Header THEN None ELSE d[Header][1]
AfterHeader(d) == SubSeq(d, Header + 1, Len(d))
Tails(d) == {k \in 1..(Len(d) - 2) : d[k] = End(d[k][1]) /\ d[k + 1][2] = 1 /\ d[k + 2][2] = 2}

\* What parseData finds: an object if the data are one whole body.
Found(cmd, data) ==
    IF data # <<>> /\ data = Body(data[1][1]) THEN <<<<cmd, data[1][1]>>>> ELSE <<>>
----------------------------------------------------------------------------
Init ==
    /\ size \in [Message -> 1..MaxSize]
    /\ sent = 0 /\ coming = <<>> /\ breaks = 0
    /\ m_msgData = <<>> /\ m_msgLength = 0 /\ m_cmdType = None
    /\ rest = <<>> /\ parsed = <<>> /\ owed = {}

\* The back end sends the next message.
Send ==
    /\ sent < Messages
    /\ sent' = sent + 1
    /\ coming' = coming \o Piece(sent + 1)
    /\ UNCHANGED <<size, breaks, m_msgData, m_msgLength, m_cmdType, rest, parsed, owed>>

(***************************************************************************)
(* OnReadData with the piece d.                                            *)
(***************************************************************************)
\* Mutant of ReadHeader: m_msgData is not cleared
ReadHeaderKeeping(d) ==
    LET msg == m_msgData \o AfterHeader(d) IN
    /\ HasMagic(d)
    /\ m_msgData' = msg /\ m_msgLength' = LengthIn(d) /\ m_cmdType' = CommandIn(d)
    /\ parsed' = IF Len(msg) = LengthIn(d) THEN parsed \o Found(CommandIn(d), msg) ELSE parsed
    /\ rest' = IF Len(msg) > LengthIn(d) THEN d ELSE <<>>

\* d begins with a header: m_msgData starts afresh, even when d holds more than one message.
ReadHeader(d) ==
    LET msg == AfterHeader(d) IN
    /\ HasMagic(d)
    /\ m_msgData' = msg /\ m_msgLength' = LengthIn(d) /\ m_cmdType' = CommandIn(d)
    /\ parsed' = IF Len(msg) = LengthIn(d) THEN parsed \o Found(CommandIn(d), msg) ELSE parsed
    /\ rest' = IF Len(msg) > LengthIn(d) THEN d ELSE <<>>

(***************************************************************************)
(* What is done with the header r that follows a tail in the same read. A  *)
(* message that is not whole is appended to the one just parsed; of one    *)
(* that is followed by more, all that is left is parsed, not its body. The *)
(* cmd is read before or after the header is removed: the order of the     *)
(* arguments of parseData is not specified.                                *)
(***************************************************************************)
NextHeader(r, whole, found) ==
    LET msg == AfterHeader(r)
        len == LengthIn(r)
    IN /\ m_msgLength' = len
       /\ \/ /\ len > Len(msg)
             /\ m_msgData' = whole \o msg
             /\ parsed' = found /\ rest' = <<>>
          \/ /\ len <= Len(msg)
             /\ \E cmd \in {CommandIn(r), None} : parsed' = found \o Found(cmd, msg)
             /\ m_msgData' = whole
             /\ rest' = SubSeq(msg, len + 1, Len(msg))

\* d has the end of a message and the "OFZL" of another; unless the end is where it should be, d is dropped.
ReadTail(d) ==
    LET at == Min(Tails(d))
        whole == m_msgData \o SubSeq(d, 1, at)
        r == SubSeq(d, at + 1, Len(d))
        found == parsed \o Found(m_cmdType, whole)
    IN /\ ~HasMagic(d) /\ Tails(d) # {}
       /\ \/ /\ Len(whole) # m_msgLength
             /\ UNCHANGED <<m_msgData, m_msgLength, parsed, rest>>
          \/ /\ Len(whole) = m_msgLength /\ Len(r) <= Header
             /\ m_msgData' = whole /\ m_msgLength' = 0
             /\ parsed' = found /\ rest' = <<>>
          \/ /\ Len(whole) = m_msgLength /\ Len(r) > Header
             /\ NextHeader(r, whole, found)
       /\ UNCHANGED m_cmdType

\* d is the middle or the end of a message
ReadMore(d) ==
    LET whole == m_msgData \o d IN
    /\ ~HasMagic(d) /\ Tails(d) = {}
    /\ m_msgData' = whole
    /\ parsed' = IF Len(whole) = m_msgLength THEN parsed \o Found(m_cmdType, whole) ELSE parsed
    /\ UNCHANGED <<m_msgLength, m_cmdType, rest>>

(***************************************************************************)
(* The messages that arrive as OnReadData expects: the header begins a     *)
(* read, and no read ends inside the magic behind it; and those that lie   *)
(* whole in a read that begins with a header.                              *)
(***************************************************************************)
Expected(d) ==
    IF HasMagic(d)
    THEN {i \in Message : End(i) \in Range(d) \/ (i = d[1][1] /\ Len(d) >= Header)}
    ELSE {}
Spoilt(d) == IF ~HasMagic(d) /\ Len(d) >= 2 /\ d[Len(d)][2] = 1 THEN {d[Len(d) - 1][1]} ELSE {}

Read ==
    /\ rest = <<>>
    /\ \E n \in 1..Len(coming) :
          LET d == SubSeq(coming, 1, n) IN
          /\ ReadHeader(d) \/ ReadTail(d) \/ ReadMore(d)
          /\ owed' = (owed \ Spoilt(d)) \union Expected(d)
          /\ coming' = SubSeq(coming, n + 1, Len(coming))
    /\ UNCHANGED <<size, sent, breaks>>

(***************************************************************************)
(* checkReadData, one call after the other (it calls itself). A message    *)
(* that is not whole is appended to m_msgData, and its cmd is not kept.    *)
(***************************************************************************)
\* Mutant of CheckPartial: m_msgData starts afresh, and still the cmd is not kept
CheckPartialCleared(len, msg) ==
    /\ m_msgLength' = len /\ m_msgData' = msg
    /\ UNCHANGED m_cmdType

CheckPartial(len, msg) ==
    /\ m_msgLength' = len /\ m_msgData' = m_msgData \o msg
    /\ UNCHANGED m_cmdType

CheckRead ==
    LET msg == AfterHeader(rest)
        len == LengthIn(rest)
    IN /\ rest # <<>>
       /\ \/ /\ ~HasMagic(rest)
             /\ rest' = <<>>
             /\ UNCHANGED <<m_msgData, m_msgLength, m_cmdType, parsed>>
          \/ /\ HasMagic(rest) /\ Len(msg) < len
             /\ CheckPartial(len, msg)
             /\ rest' = <<>> /\ UNCHANGED parsed
          \/ /\ HasMagic(rest) /\ Len(msg) >= len
             /\ parsed' = parsed \o Found(CommandIn(rest), SubSeq(msg, 1, len))
             /\ rest' = SubSeq(msg, len + 1, Len(msg))
             /\ UNCHANGED <<m_msgData, m_msgLength, m_cmdType>>
       /\ UNCHANGED <<size, sent, coming, breaks, owed>>

(***************************************************************************)
(* The connection breaks: what was on its way is lost, the next connection *)
(* starts with a message. Reconnect leaves m_msgData, m_msgLength and      *)
(* m_cmdType as they are.                                                  *)
(***************************************************************************)
Break ==
    /\ rest = <<>> /\ coming # <<>> /\ breaks < MaxBreaks
    /\ coming' = <<>>
    /\ owed' = owed \ {coming[1][1]}
    /\ breaks' = breaks + 1
    /\ UNCHANGED <<size, sent, m_msgData, m_msgLength, m_cmdType, rest, parsed>>

Next == Send \/ Read \/ CheckRead \/ Break

Spec == Init /\ [][Next]_vars
----------------------------------------------------------------------------
TypeOK ==
    /\ size \in [Message -> 1..MaxSize]
    /\ sent \in 0..Messages /\ breaks \in 0..MaxBreaks
    /\ coming \in Seq(Symbol) /\ m_msgData \in Seq(Symbol) /\ rest \in Seq(Symbol)
    /\ m_msgLength \in 0..MaxSize
    /\ m_cmdType \in Message \union {None}
    /\ parsed \in Seq((Message \union {None}) \X Message)
    /\ owed \subseteq Message

\* However the stream is cut and wherever the connection breaks, the messages that are handed on are handed
\* on once, in the order of the stream, and never under the cmd of another message: what m_msgData is left
\* with by a message that was lost never completes one (tcpclient.cpp:150-262).
InOrderOnce ==
    \A j, k \in DOMAIN parsed :
        /\ parsed[j][1] \in {parsed[j][2], None}
        /\ j < k => parsed[j][2] < parsed[k][2]

\* A message that arrives as OnReadData expects is handed on under its own cmd by the time its last byte has
\* been dealt with, whatever an earlier message left in m_msgData and m_msgLength, and however many
\* messages lie behind it in the same read (tcpclient.cpp:187-262).
OwedIsParsed ==
    rest = <<>> => \A i \in owed : End(i) \notin Range(coming) => <<i, i>> \in Range(parsed)
=============================================================================
