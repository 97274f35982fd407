------------------------- MODULE ToolSessionProofs -------------------------
(***************************************************************************)
(* RefusedOnlyIfSpoilt holds for any number of connections, uploads and    *)
(* pieces. The inductive invariant speaks of the symbols the terminal may  *)
(* still parse: every read leaves an end of them, a connection that is     *)
(* replaced or deleted leaves a beginning, and a message that is sent is   *)
(* added behind them.                                                      *)
(***************************************************************************)
EXTENDS ToolSession, SequenceTheorems, TLAPS

Line == mTool_msgBody \o (IF m_tcpSocket = None THEN <<>> ELSE arrived[m_tcpSocket])

\* The message m lies whole at p; the first half of the piece k of the upload u lies at p.
WholeAt(s, p, m) == p \in DOMAIN s /\ p + 1 \in DOMAIN s /\ s[p] = <<m, 1>> /\ s[p + 1] = <<m, 2>>
PieceAt(s, p, u, k) == p \in DOMAIN s /\ s[p] = <<<<"piece", u, k>>, 1>>

\* The pieces that precede the piece k + 1 of u are the ones saved, unless another upload has left some.
Saved(u, k) == since \subseteq {u} => base64SaveFile = [j \in 1..k |-> <<u, j>>]
----------------------------------------------------------------------------
(***************************************************************************)
(* The inductive invariant.                                                *)
(***************************************************************************)
\* The tool's connection is the one accepted last; nothing has arrived on a connection that is not made yet.
Sockets ==
    /\ tool.at # None => m_tcpSocket = tool.at
    /\ Uploading => Reaches
    /\ m_tcpSocket <= made.connections
    /\ \A c \in Connection : c > made.connections => link[c] = "new" /\ arrived[c] = <<>>

Files ==
    /\ since = {} => base64SaveFile = <<>>
    /\ \A u \in since : u <= made.uploads
    /\ tool.upload <= made.uploads

PiecesOfUploads == \A p, u, k \in Nat : PieceAt(Line, p, u, k) => u <= made.uploads

\* The tool waits for the answer to a piece before it sends the next.
OneOfEach ==
    \A p, q, u, j, k \in Nat : PieceAt(Line, p, u, j) /\ PieceAt(Line, q, u, k) => p = q

Begins == \A p, u \in Nat : PieceAt(Line, p, u, 1) => u \notin since

\* Nothing that is parsed before a piece changes what has been saved for it.
Continues ==
    \A p, u, k \in Nat : PieceAt(Line, p, u, k) /\ k >= 2 =>
        /\ Saved(u, k - 1)
        /\ \A q \in Nat, m \in Message : WholeAt(Line, q, m) /\ q < p => m = Heartbeat

\* A piece has been answered and the next is not sent.
Between ==
    Uploading /\ ~tool.due =>
        /\ tool.piece \in 1..(Pieces - 1)
        /\ Saved(tool.upload, tool.piece)
        /\ \A p, k \in Nat : ~PieceAt(Line, p, tool.upload, k)
        /\ \A q \in Nat, m \in Message : WholeAt(Line, q, m) => m = Heartbeat

\* A piece has been sent and not been answered.
Waiting ==
    Uploading /\ tool.due =>
        \A p, k, q \in Nat, m \in Message :
            PieceAt(Line, p, tool.upload, k) /\ WholeAt(Line, q, m) /\ p < q => m = Heartbeat

LineInv == PiecesOfUploads /\ OneOfEach /\ Begins /\ Continues /\ Between /\ Waiting

IInv == TypeOK /\ Sockets /\ Files /\ LineInv /\ RefusedOnlyIfSpoilt
----------------------------------------------------------------------------
(***************************************************************************)
(* Messages, and how the symbols change.                                   *)
(***************************************************************************)
Symbols == Message \X {1, 2}

LEMMA MessageFacts ==
    /\ Heartbeat \in Message /\ Cancel \in Message /\ Heartbeat # Cancel
    /\ \A u \in 1..Uploads, k \in 1..Pieces : <<"piece", u, k>> \in Message
    /\ \A u, k : <<"piece", u, k>> # Heartbeat /\ <<"piece", u, k>> # Cancel
    /\ \A m \in Message : m[1] = "piece" =>
          m[2] \in 1..Uploads /\ m[3] \in 1..Pieces /\ m = <<"piece", m[2], m[3]>>
BY DEF Message, Heartbeat, Cancel

LEMMA LineType == TypeOK => Line \in Seq(Symbols)
<1> SUFFICES ASSUME TypeOK PROVE Line \in Seq(Symbols)
  OBVIOUS
<1>1. mTool_msgBody \in Seq(Symbols)
  BY DEF TypeOK, Symbols
<1>2. (IF m_tcpSocket = None THEN <<>> ELSE arrived[m_tcpSocket]) \in Seq(Symbols)
  BY EmptySeq DEF TypeOK, Symbols
<1> QED
  BY <1>1, <1>2, ConcatProperties DEF Line

\* t is what begins behind the first a symbols of s, or the beginning of that.
PartOf(t, s, a) == Len(t) + a <= Len(s) /\ \A j \in 1..Len(t) : t[j] = s[a + j]
Sent(t, s, m) ==
    /\ Len(t) = Len(s) + 2
    /\ \A j \in 1..Len(s) : t[j] = s[j]
    /\ t[Len(s) + 1] = <<m, 1>> /\ t[Len(s) + 2] = <<m, 2>>

LEMMA PartHolds ==
    ASSUME NEW s \in Seq(Symbols), NEW t \in Seq(Symbols), NEW a \in Nat, PartOf(t, s, a)
    PROVE  /\ \A p, u, k \in Nat : PieceAt(t, p, u, k) => PieceAt(s, a + p, u, k)
           /\ \A p \in Nat, m \in Message : WholeAt(t, p, m) => WholeAt(s, a + p, m)
<1>1. DOMAIN s = 1..Len(s) /\ DOMAIN t = 1..Len(t) /\ Len(s) \in Nat /\ Len(t) \in Nat
  BY LenProperties
<1>2. \A j \in DOMAIN t : a + j \in DOMAIN s /\ t[j] = s[a + j]
  BY <1>1 DEF PartOf
<1>3. ASSUME NEW p \in Nat, NEW u \in Nat, NEW k \in Nat, PieceAt(t, p, u, k)
      PROVE  PieceAt(s, a + p, u, k)
  BY <1>2, <1>3 DEF PieceAt
<1>4. ASSUME NEW p \in Nat, NEW m \in Message, WholeAt(t, p, m)
      PROVE  WholeAt(s, a + p, m)
  <2>1. p \in DOMAIN t /\ p + 1 \in DOMAIN t /\ t[p] = <<m, 1>> /\ t[p + 1] = <<m, 2>>
    BY <1>4 DEF WholeAt
  <2>2. a + (p + 1) = (a + p) + 1
    OBVIOUS
  <2> QED
    BY <1>2, <2>1, <2>2 DEF WholeAt
<1> QED
  BY <1>3, <1>4

LEMMA SentHolds ==
    ASSUME NEW s \in Seq(Symbols), NEW t \in Seq(Symbols), NEW n \in Message, Sent(t, s, n)
    PROVE  /\ \A p, u, k \in Nat : PieceAt(t, p, u, k) =>
                 \/ PieceAt(s, p, u, k) /\ p <= Len(s)
                 \/ p = Len(s) + 1 /\ n = <<"piece", u, k>>
           /\ \A p \in Nat, m \in Message : WholeAt(t, p, m) =>
                 \/ WholeAt(s, p, m) /\ p < Len(s)
                 \/ p = Len(s) + 1 /\ m = n
           /\ Len(s) \in Nat
<1>1. DOMAIN s = 1..Len(s) /\ DOMAIN t = 1..(Len(s) + 2) /\ Len(s) \in Nat
  BY LenProperties DEF Sent
<1>2. \A j \in DOMAIN t : \/ j \in DOMAIN s /\ t[j] = s[j]
                          \/ j = Len(s) + 1 /\ t[j] = <<n, 1>>
                          \/ j = Len(s) + 2 /\ t[j] = <<n, 2>>
  BY <1>1 DEF Sent
<1>3. ASSUME NEW p \in Nat, NEW u \in Nat, NEW k \in Nat, PieceAt(t, p, u, k)
      PROVE  \/ PieceAt(s, p, u, k) /\ p <= Len(s)
             \/ p = Len(s) + 1 /\ n = <<"piece", u, k>>
  BY <1>1, <1>2, <1>3 DEF PieceAt
<1>4. ASSUME NEW p \in Nat, NEW m \in Message, WholeAt(t, p, m)
      PROVE  \/ WholeAt(s, p, m) /\ p < Len(s)
             \/ p = Len(s) + 1 /\ m = n
  <2>1. p \in DOMAIN t /\ p + 1 \in DOMAIN t /\ t[p] = <<m, 1>> /\ t[p + 1] = <<m, 2>>
    BY <1>4 DEF WholeAt
  <2>2. p \in 1..(Len(s) + 1) /\ p < Len(s) + 2
    BY <1>1, <2>1
  <2>3. CASE p < Len(s)
    <3>1. p \in DOMAIN s /\ p + 1 \in DOMAIN s
      BY <1>1, <2>2, <2>3
    <3>2. t[p] = s[p] /\ t[p + 1] = s[p + 1]
      BY <1>1, <2>3, <3>1 DEF Sent
    <3> QED
      BY <2>1, <2>3, <3>1, <3>2 DEF WholeAt
  <2>4. CASE p = Len(s)
    <3>1. t[p + 1] = <<n, 1>>
      BY <2>4 DEF Sent
    <3> QED
      BY <2>1, <3>1
  <2>5. CASE p = Len(s) + 1
    BY <2>1, <2>5 DEF Sent
  <2>6. p < Len(s) \/ p = Len(s) \/ p = Len(s) + 1
    <3>1. Len(s) \in Nat
      BY <1>1
    <3> QED
      BY <2>2, <3>1
  <2> QED
    BY <2>3, <2>4, <2>5, <2>6
<1> QED
  BY <1>1, <1>3, <1>4

----------------------------------------------------------------------------
(***************************************************************************)
(* What a step leaves of the symbols, and what it adds.                    *)
(***************************************************************************)
LEMMA Shrinks ==
    /\ IInv /\ TypeOK'
    /\ \E a \in Nat : PartOf(Line', Line, a)
    /\ tool' = tool \/ tool'.upload = 0
    /\ UNCHANGED <<since, base64SaveFile>>
    /\ made.uploads <= made'.uploads
    => LineInv'
<1> SUFFICES ASSUME IInv, TypeOK', NEW a \in Nat, PartOf(Line', Line, a), tool' = tool \/ tool'.upload = 0,
                    UNCHANGED <<since, base64SaveFile>>, made.uploads <= made'.uploads
             PROVE  LineInv'
  OBVIOUS
<1>1. Line \in Seq(Symbols)
  BY LineType DEF IInv
<1>2. (Line \in Seq(Symbols))'
  BY LineType, PTL
<1>3. /\ \A p, u, k \in Nat : PieceAt(Line', p, u, k) => PieceAt(Line, a + p, u, k)
      /\ \A p \in Nat, m \in Message : WholeAt(Line', p, m) => WholeAt(Line, a + p, m)
  BY <1>1, <1>2, PartHolds
<1>4. \A p \in Nat : a + p \in Nat
  OBVIOUS
<1>5. \A p, q \in Nat : a + p = a + q => p = q
  OBVIOUS
<1>6. \A p, q \in Nat : p < q => a + p < a + q
  OBVIOUS
<1>7. made.uploads \in Nat /\ made'.uploads \in Nat
  BY DEF IInv, TypeOK
<1>8. Uploading' => tool' = tool
  BY DEF Uploading
<1>9. \A u, k : Saved(u, k)' = Saved(u, k)
  BY DEF Saved
<1>10. PiecesOfUploads'
  BY <1>3, <1>4, <1>7 DEF IInv, LineInv, PiecesOfUploads
<1>11. OneOfEach'
  BY <1>3, <1>4, <1>5 DEF IInv, LineInv, OneOfEach
<1>12. Begins'
  <2> SUFFICES ASSUME NEW p \in Nat, NEW u \in Nat, PieceAt(Line', p, u, 1) PROVE u \notin since
    BY DEF Begins
  <2>1. PieceAt(Line, a + p, u, 1)
    BY <1>3
  <2> QED
    BY <2>1, <1>4 DEF IInv, LineInv, Begins
<1>13. Continues'
  <2> SUFFICES ASSUME NEW p \in Nat, NEW u \in Nat, NEW k \in Nat, PieceAt(Line', p, u, k), k >= 2
               PROVE  /\ Saved(u, k - 1)
                      /\ \A q \in Nat, m \in Message : WholeAt(Line', q, m) /\ q < p => m = Heartbeat
    BY <1>9 DEF Continues
  <2>1. PieceAt(Line, a + p, u, k)
    BY <1>3
  <2>2. /\ Saved(u, k - 1)
        /\ \A q \in Nat, m \in Message : WholeAt(Line, q, m) /\ q < a + p => m = Heartbeat
    BY <2>1, <1>4 DEF IInv, LineInv, Continues
  <2> QED
    BY <2>2, <1>3, <1>4, <1>6
<1>14. Between'
  <2> SUFFICES ASSUME Uploading', ~tool'.due
               PROVE  /\ tool'.piece \in 1..(Pieces - 1)
                      /\ Saved(tool.upload, tool.piece)'
                      /\ \A p, k \in Nat : ~PieceAt(Line', p, tool'.upload, k)
                      /\ \A q \in Nat, m \in Message : WholeAt(Line', q, m) => m = Heartbeat
    BY DEF Between
  <2>1. tool' = tool /\ Uploading /\ tool.upload \in Nat
    BY <1>8 DEF Uploading, IInv, TypeOK
  <2>2. /\ tool.piece \in 1..(Pieces - 1)
        /\ Saved(tool.upload, tool.piece)
        /\ \A p, k \in Nat : ~PieceAt(Line, p, tool.upload, k)
        /\ \A q \in Nat, m \in Message : WholeAt(Line, q, m) => m = Heartbeat
    BY <2>1 DEF IInv, LineInv, Between
  <2>3. Saved(tool.upload, tool.piece)'
    BY <2>1, <2>2 DEF Saved
  <2> QED
    BY <2>1, <2>2, <2>3, <1>3, <1>4
<1>15. Waiting'
  <2> SUFFICES ASSUME Uploading', tool'.due, NEW p \in Nat, NEW k \in Nat, NEW q \in Nat, NEW m \in Message,
                      PieceAt(Line', p, tool'.upload, k), WholeAt(Line', q, m), p < q
               PROVE  m = Heartbeat
    BY DEF Waiting
  <2>1. tool' = tool /\ Uploading /\ tool.upload \in Nat
    BY <1>8 DEF Uploading, IInv, TypeOK
  <2>2. PieceAt(Line, a + p, tool.upload, k) /\ WholeAt(Line, a + q, m) /\ a + p < a + q
    BY <2>1, <1>3, <1>6
  <2> QED
    BY <2>1, <2>2, <1>4 DEF IInv, LineInv, Waiting
<1> QED
  BY <1>10, <1>11, <1>12, <1>13, <1>14, <1>15 DEF LineInv

\* A heartbeat or a cancellation is sent, which has no piece.
LEMMA Talks ==
    ASSUME NEW n \in {Heartbeat, Cancel}
    PROVE  /\ IInv /\ TypeOK'
           /\ Sent(Line', Line, n)
           /\ \/ tool' = tool /\ n = Heartbeat
              \/ tool'.upload = 0
           /\ UNCHANGED <<since, base64SaveFile>>
           /\ made.uploads = made'.uploads
           => LineInv'
<1> SUFFICES ASSUME IInv, TypeOK', Sent(Line', Line, n), (tool' = tool /\ n = Heartbeat) \/ tool'.upload = 0,
                    UNCHANGED <<since, base64SaveFile>>, made.uploads = made'.uploads
             PROVE  LineInv'
  OBVIOUS
<1>1. Line \in Seq(Symbols)
  BY LineType DEF IInv
<1>2. (Line \in Seq(Symbols))'
  BY LineType, PTL
<1>3. n \in Message /\ \A u, k : n # <<"piece", u, k>>
  BY MessageFacts
<1>4. /\ \A p, u, k \in Nat : PieceAt(Line', p, u, k) => PieceAt(Line, p, u, k) /\ p <= Len(Line)
      /\ \A p \in Nat, m \in Message : WholeAt(Line', p, m) =>
            \/ WholeAt(Line, p, m)
            \/ p = Len(Line) + 1 /\ m = n
      /\ Len(Line) \in Nat
  <2> HIDE DEF Line
  <2> QED
    BY <1>1, <1>2, <1>3, SentHolds
<1>8. Uploading' => tool' = tool /\ n = Heartbeat
  BY DEF Uploading
<1>9. \A u, k : Saved(u, k)' = Saved(u, k)
  BY DEF Saved
<1>10. PiecesOfUploads'
  BY <1>4 DEF IInv, LineInv, PiecesOfUploads
<1>11. OneOfEach'
  BY <1>4 DEF IInv, LineInv, OneOfEach
<1>12. Begins'
  <2> SUFFICES ASSUME NEW p \in Nat, NEW u \in Nat, PieceAt(Line', p, u, 1) PROVE u \notin since
    BY DEF Begins
  <2>1. PieceAt(Line, p, u, 1)
    BY <1>4
  <2> QED
    BY <2>1 DEF IInv, LineInv, Begins
<1>13. Continues'
  <2> SUFFICES ASSUME NEW p \in Nat, NEW u \in Nat, NEW k \in Nat, PieceAt(Line', p, u, k), k >= 2
               PROVE  /\ Saved(u, k - 1)
                      /\ \A q \in Nat, m \in Message : WholeAt(Line', q, m) /\ q < p => m = Heartbeat
    BY <1>9 DEF Continues
  <2>1. PieceAt(Line, p, u, k) /\ p <= Len(Line)
    BY <1>4
  <2>2. /\ Saved(u, k - 1)
        /\ \A q \in Nat, m \in Message : WholeAt(Line, q, m) /\ q < p => m = Heartbeat
    BY <2>1 DEF IInv, LineInv, Continues
  <2>3. \A q \in Nat, m \in Message : WholeAt(Line', q, m) /\ q < p => WholeAt(Line, q, m)
    BY <2>1, <1>4
  <2> QED
    BY <2>2, <2>3
<1>14. Between'
  <2> SUFFICES ASSUME Uploading', ~tool'.due
               PROVE  /\ tool'.piece \in 1..(Pieces - 1)
                      /\ Saved(tool.upload, tool.piece)'
                      /\ \A p, k \in Nat : ~PieceAt(Line', p, tool'.upload, k)
                      /\ \A q \in Nat, m \in Message : WholeAt(Line', q, m) => m = Heartbeat
    BY DEF Between
  <2>1. tool' = tool /\ Uploading /\ tool.upload \in Nat /\ n = Heartbeat
    BY <1>8 DEF Uploading, IInv, TypeOK
  <2>2. /\ tool.piece \in 1..(Pieces - 1)
        /\ Saved(tool.upload, tool.piece)
        /\ \A p, k \in Nat : ~PieceAt(Line, p, tool.upload, k)
        /\ \A q \in Nat, m \in Message : WholeAt(Line, q, m) => m = Heartbeat
    BY <2>1 DEF IInv, LineInv, Between
  <2>3. Saved(tool.upload, tool.piece)'
    BY <2>1, <2>2 DEF Saved
  <2> QED
    BY <2>1, <2>2, <2>3, <1>4
<1>15. Waiting'
  <2> SUFFICES ASSUME Uploading', tool'.due, NEW p \in Nat, NEW k \in Nat, NEW q \in Nat, NEW m \in Message,
                      PieceAt(Line', p, tool'.upload, k), WholeAt(Line', q, m), p < q
               PROVE  m = Heartbeat
    BY DEF Waiting
  <2>1. tool' = tool /\ Uploading /\ tool.upload \in Nat /\ n = Heartbeat
    BY <1>8 DEF Uploading, IInv, TypeOK
  <2>2. PieceAt(Line, p, tool.upload, k) /\ (WholeAt(Line, q, m) \/ m = Heartbeat)
    BY <2>1, <1>4
  <2> QED
    BY <2>1, <2>2 DEF IInv, LineInv, Waiting
<1> QED
  BY <1>10, <1>11, <1>12, <1>13, <1>14, <1>15 DEF LineInv

\* A piece is sent: the first of an upload, or the one behind the piece that has been answered.
LEMMA PieceGoes ==
    IInv /\ TypeOK' /\ SendPiece /\ Sent(Line', Line, <<"piece", tool'.upload, tool'.piece>>) => LineInv'
<1> SUFFICES ASSUME IInv, TypeOK', SendPiece, Sent(Line', Line, <<"piece", tool'.upload, tool'.piece>>)
             PROVE  LineInv'
  OBVIOUS
<1>1. Line \in Seq(Symbols)
  BY LineType DEF IInv
<1>2. (Line \in Seq(Symbols))'
  BY LineType, PTL
<1>3. /\ tool'.upload \in Nat /\ tool'.piece \in Nat /\ tool'.due
      /\ made.uploads \in Nat /\ tool.upload \in Nat /\ tool.piece \in Nat
      /\ UNCHANGED <<since, base64SaveFile>>
      /\ \/ /\ tool'.upload = made.uploads + 1 /\ tool'.piece = 1
            /\ made'.uploads = made.uploads + 1 /\ made.uploads < Uploads
         \/ /\ Uploading /\ ~tool.due
            /\ tool'.upload = tool.upload /\ tool'.piece = tool.piece + 1
            /\ made' = made
  <2>1. /\ tool \in [at : Connection \union {None}, upload : 0..Uploads, piece : 0..Pieces, due : BOOLEAN]
        /\ made \in [connections : 0..Connections, uploads : 0..Uploads, talk : 0..MaxTalk]
        /\ UNCHANGED <<since, base64SaveFile>>
    BY DEF IInv, TypeOK, SendPiece, history, server
  <2>2. CASE /\ ~Uploading /\ made.uploads < Uploads
             /\ made' = [made EXCEPT !.uploads = @ + 1]
             /\ tool' = [tool EXCEPT !.upload = made.uploads + 1, !.piece = 1, !.due = TRUE]
    <3>1. made'.uploads = made.uploads + 1
      BY <2>1, <2>2, Zenon
    <3>2. tool'.upload = made.uploads + 1 /\ tool'.piece = 1 /\ tool'.due
      BY <2>1, <2>2, Zenon
    <3> QED
      BY <2>1, <2>2, <3>1, <3>2
  <2>3. CASE Uploading /\ tool' = [tool EXCEPT !.piece = @ + 1, !.due = TRUE] /\ made' = made /\ ~tool.due
    <3>1. tool'.upload = tool.upload /\ tool'.piece = tool.piece + 1 /\ tool'.due
      BY <2>1, <2>3, Zenon
    <3> QED
      BY <2>1, <2>3, <3>1
  <2> QED
    BY <2>2, <2>3 DEF SendPiece
<1>4. \A p, j \in Nat : ~PieceAt(Line, p, tool'.upload, j)
  BY <1>3 DEF IInv, LineInv, PiecesOfUploads, Between
<1>5. tool'.piece = 1 => tool'.upload \notin since
  BY <1>3 DEF IInv, LineInv, Between, Files
<1>6. tool'.piece >= 2 =>
        /\ Saved(tool'.upload, tool'.piece - 1)
        /\ \A q \in Nat, m \in Message : WholeAt(Line, q, m) => m = Heartbeat
  <2> SUFFICES ASSUME tool'.piece >= 2
               PROVE  /\ Saved(tool'.upload, tool'.piece - 1)
                      /\ \A q \in Nat, m \in Message : WholeAt(Line, q, m) => m = Heartbeat
    OBVIOUS
  <2>1. Uploading /\ ~tool.due /\ tool'.upload = tool.upload /\ tool'.piece - 1 = tool.piece
    BY <1>3
  <2> QED
    BY <2>1 DEF IInv, LineInv, Between
<1>7. tool'.upload <= made'.uploads /\ made.uploads <= made'.uploads /\ made'.uploads \in Nat
  BY <1>3 DEF IInv, Files
<1>8. tool'.upload \in 1..Uploads /\ tool'.piece \in 1..Pieces
  <2>1. tool'.upload \in 1..Uploads
    <3>1. tool.upload \in 0..Uploads /\ made.uploads \in 0..Uploads
      BY DEF IInv, TypeOK
    <3> QED
      BY <1>3, <3>1, BoundsAssumption DEF Uploading
  <2>2. tool'.piece \in 1..Pieces
    BY <1>3, BoundsAssumption DEF IInv, LineInv, Between
  <2> QED
    BY <2>1, <2>2
<1>9. <<"piece", tool'.upload, tool'.piece>> \in Message
  BY <1>8, MessageFacts
<1>10. /\ \A p, u, k \in Nat : PieceAt(Line', p, u, k) =>
             \/ PieceAt(Line, p, u, k) /\ p <= Len(Line)
             \/ p = Len(Line) + 1 /\ u = tool'.upload /\ k = tool'.piece
       /\ \A p \in Nat, m \in Message : WholeAt(Line', p, m) =>
             \/ WholeAt(Line, p, m) /\ p < Len(Line)
             \/ p = Len(Line) + 1 /\ m = <<"piece", tool'.upload, tool'.piece>>
       /\ Len(Line) \in Nat
  <2>1. /\ \A p, u, k \in Nat : PieceAt(Line', p, u, k) =>
             \/ PieceAt(Line, p, u, k) /\ p <= Len(Line)
             \/ p = Len(Line) + 1 /\ <<"piece", tool'.upload, tool'.piece>> = <<"piece", u, k>>
        /\ \A p \in Nat, m \in Message : WholeAt(Line', p, m) =>
             \/ WholeAt(Line, p, m) /\ p < Len(Line)
             \/ p = Len(Line) + 1 /\ m = <<"piece", tool'.upload, tool'.piece>>
        /\ Len(Line) \in Nat
    BY <1>1, <1>2, <1>9, SentHolds
  <2> QED
    BY <2>1
<1>11. PiecesOfUploads'
  BY <1>7, <1>10, <1>3 DEF IInv, LineInv, PiecesOfUploads
<1>12. OneOfEach'
  <2> SUFFICES ASSUME NEW p \in Nat, NEW q \in Nat, NEW u \in Nat, NEW j \in Nat, NEW k \in Nat,
                      PieceAt(Line', p, u, j), PieceAt(Line', q, u, k)
               PROVE  p = q
    BY DEF OneOfEach
  <2>1. CASE u = tool'.upload
    BY <2>1, <1>4, <1>10
  <2>2. CASE u # tool'.upload
    BY <2>2, <1>10 DEF IInv, LineInv, OneOfEach
  <2> QED
    BY <2>1, <2>2
<1>13. Begins'
  BY <1>5, <1>10, <1>3 DEF IInv, LineInv, Begins
<1>14. Continues'
  <2> SUFFICES ASSUME NEW p \in Nat, NEW u \in Nat, NEW k \in Nat, PieceAt(Line', p, u, k), k >= 2
               PROVE  /\ Saved(u, k - 1)
                      /\ \A q \in Nat, m \in Message : WholeAt(Line', q, m) /\ q < p => m = Heartbeat
    BY <1>3 DEF Continues, Saved
  <2>1. CASE PieceAt(Line, p, u, k) /\ p <= Len(Line)
    <3>1. /\ Saved(u, k - 1)
          /\ \A q \in Nat, m \in Message : WholeAt(Line, q, m) /\ q < p => m = Heartbeat
      BY <2>1 DEF IInv, LineInv, Continues
    <3> QED
      BY <2>1, <3>1, <1>10
  <2>2. CASE p = Len(Line) + 1 /\ u = tool'.upload /\ k = tool'.piece
    BY <2>2, <1>6, <1>10
  <2> QED
    BY <2>1, <2>2, <1>10
<1>15. Between'
  BY <1>3 DEF Between
<1>16. Waiting'
  <2> SUFFICES ASSUME NEW p \in Nat, NEW k \in Nat, NEW q \in Nat, NEW m \in Message,
                      PieceAt(Line', p, tool'.upload, k), WholeAt(Line', q, m), p < q
               PROVE  FALSE
    BY DEF Waiting
  <2>1. p = Len(Line) + 1
    BY <1>3, <1>4, <1>10
  <2> QED
    BY <2>1, <1>10
<1> QED
  BY <1>11, <1>12, <1>13, <1>14, <1>15, <1>16 DEF LineInv
----------------------------------------------------------------------------
(***************************************************************************)
(* A read. B is what was kept, A what has arrived, d the part of A that is *)
(* read.                                                                   *)
(***************************************************************************)
LEMMA ReadParts ==
    ASSUME NEW B \in Seq(Symbols), NEW A \in Seq(Symbols), NEW n \in 0..Len(A), NEW body, NEW o,
           \/ o = Len(B) /\ body = SubSeq(A, 1, n)
           \/ o = 0 /\ body = B \o SubSeq(A, 1, n)
    PROVE  /\ body \in Seq(Symbols) /\ o \in Nat /\ Len(body) \in Nat
           /\ \A j \in 1..Len(body) : o + j \in DOMAIN (B \o A) /\ body[j] = (B \o A)[o + j]
           /\ PartOf(body \o SubSeq(A, n + 1, Len(A)), B \o A, o)
           /\ PartOf(SubSeq(A, n + 1, Len(A)), B \o A, o + Len(body))
           /\ SubSeq(A, n + 1, Len(A)) \in Seq(Symbols)
<1> DEFINE d == SubSeq(A, 1, n)
           r == SubSeq(A, n + 1, Len(A))
           s == B \o A
<1>1. Len(A) \in Nat /\ Len(B) \in Nat /\ (\A j \in 1..Len(A) : A[j] \in Symbols)
  BY LenProperties, ElementOfSeq
<1>2. d \in Seq(Symbols) /\ Len(d) = n /\ \A j \in 1..n : d[j] = A[j]
  BY <1>1, SubSeqProperties, Z3
<1>3. r \in Seq(Symbols) /\ Len(r) = Len(A) - n /\ \A j \in 1..(Len(A) - n) : r[j] = A[n + j]
  <2>1. \A i \in (n + 1)..Len(A) : A[i] \in Symbols
    BY <1>1
  <2>2. /\ r \in Seq(Symbols) /\ Len(r) = (IF n + 1 <= Len(A) THEN Len(A) - (n + 1) + 1 ELSE 0)
        /\ \A i \in 1..(Len(A) - (n + 1) + 1) : r[i] = A[(n + 1) + i - 1]
    BY <1>1, <2>1, SubSeqProperties
  <2> QED
    BY <1>1, <2>2
<1>4. /\ s \in Seq(Symbols) /\ Len(s) = Len(B) + Len(A) /\ DOMAIN s = 1..(Len(B) + Len(A))
      /\ \A i \in 1..(Len(B) + Len(A)) : s[i] = IF i <= Len(B) THEN B[i] ELSE A[i - Len(B)]
  BY ConcatProperties, LenProperties
<1>5. /\ B \o d \in Seq(Symbols) /\ Len(B \o d) = Len(B) + n
      /\ \A i \in 1..(Len(B) + n) : (B \o d)[i] = IF i <= Len(B) THEN B[i] ELSE d[i - Len(B)]
  BY <1>1, <1>2, ConcatProperties
<1> HIDE DEF d, r, s
<1>6. \A j \in 1..Len(A) : Len(B) + j \in 1..Len(s) /\ s[Len(B) + j] = A[j]
  <2> TAKE j \in 1..Len(A)
  <2>1. Len(B) + j \in 1..(Len(B) + Len(A)) /\ ~(Len(B) + j <= Len(B)) /\ (Len(B) + j) - Len(B) = j
    BY <1>1
  <2> QED
    BY <2>1, <1>4
<1>7. /\ body \in Seq(Symbols) /\ o \in Nat /\ Len(body) \in Nat
      /\ o + Len(body) = Len(B) + n
      /\ \A j \in 1..Len(body) : o + j \in 1..Len(s) /\ body[j] = s[o + j]
  <2>1. CASE o = Len(B) /\ body = d
    BY <2>1, <1>1, <1>2, <1>4, <1>6, SMTT(20)
  <2>2. CASE o = 0 /\ body = B \o d
    <3>1. body \in Seq(Symbols) /\ o \in Nat /\ Len(body) = Len(B) + n
      BY <2>2, <1>1, <1>5
    <3>2. ASSUME NEW j \in 1..(Len(B) + n) PROVE o + j \in 1..Len(s) /\ body[j] = s[o + j]
      <4>1. o + j = j /\ j \in 1..(Len(B) + Len(A))
        BY <2>2, <1>1
      <4>2. CASE j <= Len(B)
        BY <4>1, <4>2, <2>2, <1>4, <1>5
      <4>3. CASE ~(j <= Len(B))
        <5>1. j - Len(B) \in 1..n
          BY <4>3, <1>1
        <5> QED
          BY <4>1, <4>3, <5>1, <2>2, <1>2, <1>4, <1>5
      <4> QED
        BY <4>2, <4>3
    <3> QED
      BY <3>1, <3>2, <2>2, <1>1
  <2> QED
    BY <2>1, <2>2 DEF d
<1>8. \A j \in 1..(Len(A) - n) : r[j] = s[(o + Len(body)) + j]
  <2> TAKE j \in 1..(Len(A) - n)
  <2>1. n \in Nat /\ j \in Nat /\ n + j \in 1..Len(A)
    BY <1>1
  <2>2. o + Len(body) = Len(B) + n
    BY <1>7
  <2>3. (o + Len(body)) + j = Len(B) + (n + j)
    BY <2>1, <2>2, <1>1
  <2> QED
    BY <2>1, <2>3, <1>3, <1>6
<1>9. PartOf(body \o r, s, o)
  <2>1. /\ Len(body \o r) = Len(body) + Len(r)
        /\ \A i \in 1..(Len(body) + Len(r)) : (body \o r)[i] = IF i <= Len(body) THEN body[i] ELSE r[i - Len(body)]
    BY <1>3, <1>7, ConcatProperties
  <2>2. ASSUME NEW i \in 1..(Len(body) + Len(r)) PROVE (body \o r)[i] = s[o + i]
    <3>1. CASE i <= Len(body)
      <4>1. (body \o r)[i] = body[i] /\ i \in 1..Len(body)
        BY <2>1, <3>1, <1>7
      <4> QED
        BY <4>1, <1>7
    <3>2. CASE ~(i <= Len(body))
      <4>1. i - Len(body) \in 1..(Len(A) - n) /\ (o + Len(body)) + (i - Len(body)) = o + i
        BY <3>2, <1>7, <1>3, <1>1
      <4>2. (body \o r)[i] = r[i - Len(body)]
        BY <2>1, <3>2
      <4> QED
        BY <4>1, <4>2, <1>8
    <3> QED
      BY <3>1, <3>2
  <2>3. Len(body) + Len(r) + o <= Len(s)
    BY <1>1, <1>3, <1>4, <1>7
  <2> QED
    BY <2>1, <2>2, <2>3 DEF PartOf
<1>10. PartOf(r, s, o + Len(body))
  BY <1>1, <1>3, <1>4, <1>7, <1>8 DEF PartOf
<1> QED
  BY <1>3, <1>4, <1>7, <1>9, <1>10 DEF r, s

LEMMA ReadCuts ==
    IInv /\ OnTcpRead =>
        /\ mTool_msgBody' \in Seq(Symbols) /\ mTool_msgLen' \in {0, 2}
        /\ arrived' \in [Connection -> Seq(Symbols)]
        /\ \A c \in Connection : c # m_tcpSocket => arrived'[c] = arrived[c]
        /\ \E a \in Nat :
              /\ PartOf(Line', Line, a)
              /\ \/ UNCHANGED <<m_heartBeat, m_isSendingLostsOfData, base64SaveFile, rebooting, tool, heard,
                                since, refused>>
                 \/ \E p \in Nat, m \in Message :
                       WholeAt(Line, p, m) /\ p < a /\ ParseData(m) /\ heard' = m
<1> SUFFICES ASSUME IInv, OnTcpRead
             PROVE  /\ mTool_msgBody' \in Seq(Symbols) /\ mTool_msgLen' \in {0, 2}
                    /\ arrived' \in [Connection -> Seq(Symbols)]
                    /\ \A c \in Connection : c # m_tcpSocket => arrived'[c] = arrived[c]
                    /\ \E a \in Nat :
                          /\ PartOf(Line', Line, a)
                          /\ \/ UNCHANGED <<m_heartBeat, m_isSendingLostsOfData, base64SaveFile, rebooting,
                                            tool, heard, since, refused>>
                             \/ \E p \in Nat, m \in Message :
                                   WholeAt(Line, p, m) /\ p < a /\ ParseData(m) /\ heard' = m
  OBVIOUS
<1> DEFINE B == mTool_msgBody
           A == arrived[m_tcpSocket]
<1>1. /\ m_tcpSocket \in Connection /\ m_tcpSocket # None /\ m_tcpSocket' = m_tcpSocket
      /\ B \in Seq(Symbols) /\ A \in Seq(Symbols) /\ arrived \in [Connection -> Seq(Symbols)]
      /\ mTool_msgLen \in {0, 2}
  BY DEF IInv, TypeOK, OnTcpRead, Symbols
<1>2. PICK n \in 0..Len(A) : ReadSymbols(SubSeq(A, 1, n)) /\ arrived' = [arrived EXCEPT ![m_tcpSocket] = SubSeq(@, n + 1, Len(@))]
  BY DEF OnTcpRead
<1> DEFINE d == SubSeq(A, 1, n)
           r == SubSeq(A, n + 1, Len(A))
           body == IF IsHeader(d) THEN d ELSE B \o d
           o == IF IsHeader(d) THEN Len(B) ELSE 0
           len == IF IsHeader(d) THEN 2 ELSE mTool_msgLen
<1>3. arrived'[m_tcpSocket] = r /\ \A c \in Connection : c # m_tcpSocket => arrived'[c] = arrived[c]
  BY <1>1, <1>2
<1>4. Line = B \o A /\ Line' = mTool_msgBody' \o r
  BY <1>1, <1>3 DEF Line
<1>5. /\ body \in Seq(Symbols) /\ o \in Nat /\ Len(body) \in Nat
      /\ \A j \in 1..Len(body) : o + j \in DOMAIN (B \o A) /\ body[j] = (B \o A)[o + j]
      /\ PartOf(body \o r, B \o A, o)
      /\ PartOf(r, B \o A, o + Len(body))
      /\ r \in Seq(Symbols)
  <2>1. \/ o = Len(B) /\ body = SubSeq(A, 1, n)
        \/ o = 0 /\ body = B \o SubSeq(A, 1, n)
    OBVIOUS
  <2> HIDE DEF body, o, A, B
  <2> QED
    BY <1>1, <2>1, ReadParts
<1>6. arrived' \in [Connection -> Seq(Symbols)]
  BY <1>1, <1>2, <1>3, <1>5
<1>7. len \in {0, 2}
  BY <1>1
<1>8. \/ /\ len > Len(body)
         /\ mTool_msgBody' = body /\ mTool_msgLen' = len
         /\ UNCHANGED <<m_heartBeat, m_isSendingLostsOfData, base64SaveFile, rebooting, tool, heard, since, refused>>
      \/ /\ len <= Len(body)
         /\ ParseSymbols(SubSeq(body, 1, len))
         /\ mTool_msgBody' = <<>> /\ mTool_msgLen' = 0
  BY <1>2 DEF ReadSymbols
<1> HIDE DEF body, o, A, B, len, r, d
<1>9. CASE /\ len > Len(body)
           /\ mTool_msgBody' = body /\ mTool_msgLen' = len
           /\ UNCHANGED <<m_heartBeat, m_isSendingLostsOfData, base64SaveFile, rebooting, tool, heard, since, refused>>
  <2>1. PartOf(Line', Line, o)
    BY <1>4, <1>5, <1>9
  <2>2. mTool_msgBody' \in Seq(Symbols) /\ mTool_msgLen' \in {0, 2}
    BY <1>5, <1>7, <1>9
  <2> QED
    BY <2>1, <2>2, <1>3, <1>5, <1>6, <1>9
<1>10. CASE /\ len <= Len(body)
            /\ ParseSymbols(SubSeq(body, 1, len))
            /\ mTool_msgBody' = <<>> /\ mTool_msgLen' = 0
  <2>1. len \in 0..Len(body)
    BY <1>5, <1>7, <1>10
  <2>2. Line' = r
    BY <1>4, <1>5, <1>10, ConcatEmptySeq
  <2>3. PICK a \in Nat : a >= o + len /\ PartOf(Line', Line, a)
    <3>1. o + Len(body) \in Nat /\ o + Len(body) >= o + len
      BY <1>5, <2>1
    <3> QED
      BY <2>2, <3>1, <1>4, <1>5
  <2>4. mTool_msgBody' \in Seq(Symbols) /\ mTool_msgLen' \in {0, 2}
    BY <1>10, EmptySeq
  <2>5. CASE ~Whole(SubSeq(body, 1, len))
    <3>1. UNCHANGED <<m_heartBeat, m_isSendingLostsOfData, base64SaveFile, rebooting, tool, heard, since, refused>>
      BY <1>10, <2>5 DEF ParseSymbols
    <3> QED
      BY <2>3, <2>4, <3>1, <1>3, <1>6
  <2>6. CASE Whole(SubSeq(body, 1, len))
    <3> DEFINE s == SubSeq(body, 1, len)
    <3>1. \A i \in 1..len : body[i] \in Symbols
      BY <1>5, <2>1, ElementOfSeq
    <3>2. s \in Seq(Symbols) /\ Len(s) = len /\ \A i \in 1..len : s[i] = body[i]
      <4>1. 1 \in Int /\ len \in Int
        BY <1>7
      <4>2. /\ s \in Seq(Symbols) /\ Len(s) = (IF 1 <= len THEN len - 1 + 1 ELSE 0)
            /\ \A i \in 1..(len - 1 + 1) : s[i] = body[1 + i - 1]
        BY <3>1, <4>1, SubSeqProperties
      <4> QED
        BY <4>2, <1>7
    <3> HIDE DEF s
    <3>3. /\ len = 2 /\ s[1][2] = 1 /\ s[2] = <<s[1][1], 2>>
      BY <2>6, <3>2 DEF Whole, IsHeader, s
    <3>4. s[1] \in Symbols
      <4>1. 1 \in 1..Len(s)
        BY <3>2, <3>3
      <4>2. s \in Seq(Symbols)
        BY <3>2
      <4> QED
        BY <4>1, <4>2, ElementOfSeq
    <3>5. PICK m \in Message : s[1] = <<m, 1>> /\ s[2] = <<m, 2>>
      BY <3>3, <3>4 DEF Symbols
    <3>6. ParseData(m) /\ heard' = m
      <4>1. ParseData(s[1][1]) /\ heard' = s[1][1]
        BY <1>10, <2>6 DEF ParseSymbols, s
      <4>2. s[1][1] = m
        BY <3>5
      <4> QED
        BY <4>1, <4>2
    <3>7. WholeAt(Line, o + 1, m)
      <4>1. 1 \in 1..Len(body) /\ 2 \in 1..Len(body)
        BY <2>1, <3>3, <1>5
      <4>2. body[1] = <<m, 1>> /\ body[2] = <<m, 2>>
        BY <3>2, <3>3, <3>5
      <4>3. (o + 1) + 1 = o + 2
        BY <1>5
      <4>4. /\ o + 1 \in DOMAIN Line /\ o + 2 \in DOMAIN Line
            /\ body[1] = Line[o + 1] /\ body[2] = Line[o + 2]
        BY <4>1, <1>4, <1>5
      <4> QED
        BY <4>2, <4>3, <4>4 DEF WholeAt
    <3>8. o + 1 \in Nat /\ o + 1 < a
      BY <2>3, <3>3, <1>5
    <3> QED
      BY <2>3, <2>4, <3>6, <3>7, <3>8, <1>3, <1>6
  <2> QED
    BY <2>5, <2>6
<1> QED
  BY <1>8, <1>9, <1>10
----------------------------------------------------------------------------
(***************************************************************************)
(* A message is parsed.                                                    *)
(***************************************************************************)
LEMMA AppendPiece ==
    ASSUME NEW u \in Nat, NEW k \in Nat \ {0}
    PROVE  Append([j \in 1..(k - 1) |-> <<u, j>>], <<u, k>>) = [j \in 1..k |-> <<u, j>>]
<1> DEFINE s == [j \in 1..(k - 1) |-> <<u, j>>]
           t == [j \in 1..k |-> <<u, j>>]
           S == {u} \X Nat
<1>1. s \in [1..(k - 1) -> S] /\ t \in [1..k -> S] /\ <<u, k>> \in S /\ k - 1 \in Nat /\ k \in Nat
  OBVIOUS
<1>2. s \in Seq(S) /\ t \in Seq(S) /\ Len(s) = k - 1 /\ Len(t) = k
  BY <1>1, SeqDef, LenProperties
<1>3. \A j \in 1..(k - 1) : s[j] = <<u, j>>
  OBVIOUS
<1>4. \A j \in 1..k : t[j] = <<u, j>>
  OBVIOUS
<1> HIDE DEF s, t, S
<1>5. /\ Append(s, <<u, k>>) \in Seq(S) /\ Len(Append(s, <<u, k>>)) = k
      /\ \A j \in 1..k : Append(s, <<u, k>>)[j] = IF j = k THEN <<u, k>> ELSE s[j]
  BY <1>1, <1>2
<1>6. \A j \in 1..k : Append(s, <<u, k>>)[j] = t[j]
  <2> TAKE j \in 1..k
  <2>1. CASE j = k
    BY <2>1, <1>4, <1>5
  <2>2. CASE j # k
    <3>1. j \in 1..(k - 1)
      BY <2>2
    <3> QED
      BY <2>2, <3>1, <1>3, <1>4, <1>5
  <2> QED
    BY <2>1, <2>2
<1>7. Append(s, <<u, k>>) = t
  BY <1>2, <1>5, <1>6, SeqEqual
<1> QED
  BY <1>7 DEF s, t

\* The pieces saved before the piece k of u are the ones that precede it, unless another upload has left some.
LEMMA SavedBefore ==
    ASSUME IInv, NEW p \in Nat, NEW u \in Nat, NEW k \in Nat \ {0}, PieceAt(Line, p, u, k), since \subseteq {u}
    PROVE  Append(base64SaveFile, <<u, k>>) = [j \in 1..k |-> <<u, j>>]
<1>1. base64SaveFile = [j \in 1..(k - 1) |-> <<u, j>>]
  <2>1. CASE k = 1
    <3>1. u \notin since
      BY <2>1 DEF IInv, LineInv, Begins
    <3>2. since = {}
      BY <3>1
    <3>3. base64SaveFile = <<>>
      BY <3>2 DEF IInv, Files
    <3>4. [j \in 1..(k - 1) |-> <<u, j>>] = <<>>
      BY <2>1
    <3> QED
      BY <3>3, <3>4
  <2>2. CASE k >= 2
    BY <2>2 DEF IInv, LineInv, Continues, Saved
  <2> QED
    BY <2>1, <2>2
<1> QED
  BY <1>1, AppendPiece

LEMMA Parsed ==
    ASSUME NEW a \in Nat, NEW p \in Nat, NEW m \in Message
    PROVE  /\ IInv /\ TypeOK' /\ made' = made
           /\ PartOf(Line', Line, a) /\ WholeAt(Line, p, m) /\ p < a
           /\ ParseData(m)
           => LineInv' /\ Files' /\ RefusedOnlyIfSpoilt'
<1> SUFFICES ASSUME IInv, TypeOK', made' = made, PartOf(Line', Line, a), WholeAt(Line, p, m), p < a, ParseData(m)
             PROVE  LineInv' /\ Files' /\ RefusedOnlyIfSpoilt'
  OBVIOUS
<1>1. Line \in Seq(Symbols)
  BY LineType DEF IInv
<1>2. (Line \in Seq(Symbols))'
  BY LineType, PTL
<1>3. /\ \A q, u, k \in Nat : PieceAt(Line', q, u, k) => PieceAt(Line, a + q, u, k)
      /\ \A q \in Nat, n \in Message : WholeAt(Line', q, n) => WholeAt(Line, a + q, n)
  BY <1>1, <1>2, PartHolds
<1>4. \A q \in Nat : a + q \in Nat /\ p < a + q
  OBVIOUS
<1>5. CASE m = Heartbeat
  <2>1. UNCHANGED <<base64SaveFile, tool, since, refused>>
    BY <1>5, MessageFacts DEF ParseData, Heartbeat, Cancel
  <2>2. made.uploads <= made'.uploads
    BY DEF IInv, TypeOK
  <2>3. LineInv'
    BY <2>1, <2>2, Shrinks
  <2>4. Files' /\ RefusedOnlyIfSpoilt'
    BY <2>1 DEF IInv, Files, RefusedOnlyIfSpoilt
  <2> QED
    BY <2>3, <2>4
<1>6. CASE m # Heartbeat
  <2>1. ~(Uploading /\ ~tool.due)
    BY <1>6 DEF IInv, LineInv, Between
  <2>2. PiecesOfUploads'
    BY <1>3, <1>4 DEF IInv, LineInv, PiecesOfUploads
  <2>3. OneOfEach'
    <3> SUFFICES ASSUME NEW q \in Nat, NEW r \in Nat, NEW u \in Nat, NEW j \in Nat, NEW k \in Nat,
                        PieceAt(Line', q, u, j), PieceAt(Line', r, u, k)
                 PROVE  q = r
      BY DEF OneOfEach
    <3>1. PieceAt(Line, a + q, u, j) /\ PieceAt(Line, a + r, u, k)
      BY <1>3
    <3>2. a + q = a + r
      BY <3>1, <1>4 DEF IInv, LineInv, OneOfEach
    <3> QED
      BY <3>2
  <2>4. Continues'
    <3> SUFFICES ASSUME NEW q \in Nat, NEW u \in Nat, NEW k \in Nat, PieceAt(Line', q, u, k), k >= 2
                 PROVE  FALSE
      BY DEF Continues
    <3>1. PieceAt(Line, a + q, u, k)
      BY <1>3
    <3> QED
      BY <3>1, <1>4, <1>6 DEF IInv, LineInv, Continues
  <2>5. CASE m = Cancel
    <3>1. since' = {} /\ base64SaveFile' = <<>> /\ tool' = tool /\ refused' = refused
      BY <2>5, MessageFacts DEF ParseData, RemoveFiles, Cancel, Heartbeat
    <3>2. Begins'
      BY <3>1 DEF Begins
    <3>3. Between'
      BY <2>1, <3>1 DEF Between, Uploading
    <3>4. Waiting'
      <4> SUFFICES ASSUME Uploading', tool'.due, NEW q \in Nat, NEW k \in Nat, NEW r \in Nat, NEW n \in Message,
                          PieceAt(Line', q, tool'.upload, k), WholeAt(Line', r, n), q < r
                   PROVE  n = Heartbeat
        BY DEF Waiting
      <4>1. tool' = tool /\ Uploading /\ tool.upload \in Nat
        BY <3>1 DEF Uploading, IInv, TypeOK
      <4>2. PieceAt(Line, a + q, tool.upload, k) /\ WholeAt(Line, a + r, n) /\ a + q < a + r
        BY <4>1, <1>3
      <4> QED
        BY <4>1, <4>2, <1>4 DEF IInv, LineInv, Waiting
    <3>5. Files' /\ RefusedOnlyIfSpoilt'
      BY <3>1 DEF IInv, Files, RefusedOnlyIfSpoilt
    <3> QED
      BY <2>2, <2>3, <2>4, <3>2, <3>3, <3>4, <3>5 DEF LineInv
  <2>6. CASE m # Cancel
    <3> DEFINE u == m[2]
               k == m[3]
               own == Answered /\ tool.due /\ tool.upload = u /\ tool.piece = k
    <3>1. m[1] = "piece" /\ DevUpdate(u, k)
      BY <1>6, <2>6 DEF ParseData
    <3>2. u \in 1..Uploads /\ k \in 1..Pieces /\ m = <<"piece", u, k>>
      BY <3>1, MessageFacts
    <3> HIDE DEF u, k
    <3>3. PieceAt(Line, p, u, k) /\ u \in Nat /\ k \in Nat \ {0}
      BY <3>2 DEF WholeAt, PieceAt
    <3>4. \A q, j \in Nat : ~PieceAt(Line', q, u, j)
      <4> SUFFICES ASSUME NEW q \in Nat, NEW j \in Nat, PieceAt(Line', q, u, j) PROVE FALSE
        OBVIOUS
      <4>1. PieceAt(Line, a + q, u, j)
        BY <1>3, <3>3
      <4>2. p = a + q
        BY <4>1, <3>3, <1>4 DEF IInv, LineInv, OneOfEach
      <4> QED
        BY <4>2
    <3>5. u <= made.uploads
      BY <3>3 DEF IInv, LineInv, PiecesOfUploads
    <3>6. since \subseteq {u} => Append(base64SaveFile, <<u, k>>) = [j \in 1..k |-> <<u, j>>]
      BY <3>3, SavedBefore
    <3>7. /\ tool \in [at : Connection \union {None}, upload : 0..Uploads, piece : 0..Pieces, due : BOOLEAN]
          /\ tool.upload \in Nat
      BY DEF IInv, TypeOK
    <3>8. /\ since' \subseteq since \union {u}
          /\ since' = {} => base64SaveFile' = <<>>
      BY <3>1 DEF DevUpdate, RemoveFiles
    <3>9. refused' = refused
      <4>1. CASE k # Pieces
        BY <3>1, <4>1 DEF DevUpdate
      <4>2. CASE k = Pieces
        <5>1. refused' = (refused \/ (Append(base64SaveFile, <<u, k>>) # [j \in 1..Pieces |-> <<u, j>>]
                                        /\ since \subseteq {u}))
          BY <3>1, <4>2, Zenon DEF DevUpdate
        <5>2. ~(Append(base64SaveFile, <<u, k>>) # [j \in 1..Pieces |-> <<u, j>>] /\ since \subseteq {u})
          BY <3>6, <4>2
        <5>3. refused = FALSE
          BY DEF IInv, TypeOK, RefusedOnlyIfSpoilt
        <5> QED
          BY <5>1, <5>2, <5>3
      <4> QED
        BY <4>1, <4>2
    <3>10. \/ tool' = tool
           \/ /\ own /\ k # Pieces
              /\ tool' = [tool EXCEPT !.due = FALSE]
              /\ since' = since \union {u}
              /\ base64SaveFile' = Append(base64SaveFile, <<u, k>>)
           \/ tool' = Idle(tool.at)
      BY <3>1 DEF DevUpdate
    <3>11. Begins'
      <4> SUFFICES ASSUME NEW q \in Nat, NEW v \in Nat, PieceAt(Line', q, v, 1) PROVE v \notin since'
        BY DEF Begins
      <4>1. PieceAt(Line, a + q, v, 1)
        BY <1>3
      <4>2. v \notin since
        BY <4>1, <1>4 DEF IInv, LineInv, Begins
      <4> QED
        BY <4>2, <3>4, <3>8
    <3>12. Between'
      <4>1. CASE tool' = tool
        BY <4>1, <2>1 DEF Between, Uploading
      <4>2. CASE tool' = Idle(tool.at)
        BY <4>2 DEF Between, Uploading, Idle
      <4>3. CASE /\ own /\ k # Pieces
                 /\ tool' = [tool EXCEPT !.due = FALSE]
                 /\ since' = since \union {u}
                 /\ base64SaveFile' = Append(base64SaveFile, <<u, k>>)
        <5>1. tool'.upload = u /\ tool'.piece = k /\ Uploading /\ tool.due /\ tool.upload = u
          BY <4>3, <3>2, <3>7 DEF Uploading
        <5>2. tool'.piece \in 1..(Pieces - 1)
          BY <5>1, <4>3, <3>2, BoundsAssumption
        <5>3. Saved(tool.upload, tool.piece)'
          <6>1. since' \subseteq {u} => base64SaveFile' = [j \in 1..k |-> <<u, j>>]
            BY <4>3, <3>6
          <6> QED
            BY <6>1, <5>1 DEF Saved
        <5>4. \A q \in Nat, n \in Message : WholeAt(Line', q, n) => n = Heartbeat
          BY <5>1, <3>3, <1>3, <1>4 DEF IInv, LineInv, Waiting
        <5> QED
          BY <5>1, <5>2, <5>3, <5>4, <3>4 DEF Between
      <4> QED
        BY <3>10, <4>1, <4>2, <4>3
    <3>13. Waiting'
      <4> SUFFICES ASSUME Uploading', tool'.due, NEW q \in Nat, NEW j \in Nat, NEW r \in Nat, NEW n \in Message,
                          PieceAt(Line', q, tool'.upload, j), WholeAt(Line', r, n), q < r
                   PROVE  n = Heartbeat
        BY DEF Waiting
      <4>1. tool' = tool /\ Uploading /\ tool.upload \in Nat
        <5>1. CASE tool' = [tool EXCEPT !.due = FALSE]
          <6>1. tool'.due = FALSE
            BY <5>1, <3>7, Zenon
          <6> QED
            BY <6>1
        <5>2. CASE tool' = Idle(tool.at)
          BY <5>2 DEF Uploading, Idle
        <5>3. CASE tool' = tool
          BY <5>3, <3>7 DEF Uploading
        <5> QED
          BY <3>10, <5>1, <5>2, <5>3
      <4>2. PieceAt(Line, a + q, tool.upload, j) /\ WholeAt(Line, a + r, n) /\ a + q < a + r
        BY <4>1, <1>3
      <4> QED
        BY <4>1, <4>2, <1>4 DEF IInv, LineInv, Waiting
    <3>14. Files'
      <4>1. tool'.upload \in {0, tool.upload}
        BY <3>7, <3>10 DEF Idle
      <4>2. 0 <= made.uploads
        BY DEF IInv, TypeOK
      <4> QED
        BY <4>1, <4>2, <3>5, <3>8 DEF IInv, Files
    <3>15. RefusedOnlyIfSpoilt'
      BY <3>9 DEF IInv, RefusedOnlyIfSpoilt
    <3> QED
      BY <2>2, <2>3, <2>4, <3>11, <3>12, <3>13, <3>14, <3>15 DEF LineInv
  <2> QED
    BY <2>5, <2>6
<1> QED
  BY <1>5, <1>6
----------------------------------------------------------------------------
(***************************************************************************)
(* The variables keep their types.                                         *)
(***************************************************************************)
LEMMA TypeInit == Init => TypeOK
<1> SUFFICES ASSUME Init PROVE TypeOK
  OBVIOUS
<1>1. <<>> \in Seq(Symbols) /\ <<>> \in Seq((1..Uploads) \X (1..Pieces))
  BY EmptySeq
<1>2. tool \in [at : Connection \union {None}, upload : 0..Uploads, piece : 0..Pieces, due : BOOLEAN]
  BY BoundsAssumption DEF Init, Idle, None
<1>3. made \in [connections : 0..Connections, uploads : 0..Uploads, talk : 0..MaxTalk] /\ crashes \in 0..MaxCrashes
  BY BoundsAssumption DEF Init
<1> QED
  BY <1>1, <1>2, <1>3 DEF Init, TypeOK, Symbols

LEMMA TypeSent ==
    ASSUME NEW c \in Connection, NEW m \in Message, NEW old \in [Connection -> Seq(Symbols)]
    PROVE  [old EXCEPT ![c] = @ \o <<<<m, 1>>, <<m, 2>>>>] \in [Connection -> Seq(Symbols)]
<1>1. <<<<m, 1>>, <<m, 2>>>> \in Seq(Symbols)
  BY DEF Symbols
<1>2. old[c] \o <<<<m, 1>>, <<m, 2>>>> \in Seq(Symbols)
  BY <1>1, ConcatProperties
<1> QED
  BY <1>2

\* The part of the type that the tool and the connections have.
ToolType == [at : Connection \union {None}, upload : 0..Uploads, piece : 0..Pieces, due : BOOLEAN]
MadeType == [connections : 0..Connections, uploads : 0..Uploads, talk : 0..MaxTalk]

LEMMA IdleType == \A c \in Connection \union {None} : Idle(c) \in ToolType
BY BoundsAssumption DEF Idle, ToolType

LEMMA TypeTool == IInv /\ Tool => TypeOK'
<1> SUFFICES ASSUME IInv, Tool PROVE TypeOK'
  OBVIOUS
<1>1. /\ tool \in ToolType /\ made \in MadeType /\ arrived \in [Connection -> Seq(Symbols)]
      /\ link \in [Connection -> {"new", "up", "silent", "closed", "gone"}]
  BY DEF IInv, TypeOK, ToolType, MadeType, Symbols
<1>2. CASE Connect
  <2>1. made.connections + 1 \in Connection
    BY <1>1, <1>2, BoundsAssumption DEF Connect, MadeType, Connection
  <2>2. made' \in MadeType
    <3>1. made' = [made EXCEPT !.connections = made.connections + 1]
      BY <1>2 DEF Connect
    <3>2. made.connections + 1 \in 0..Connections
      BY <2>1 DEF Connection
    <3> QED
      BY <1>1, <3>1, <3>2, Zenon DEF MadeType
  <2>3. link' \in [Connection -> {"new", "up", "silent", "closed", "gone"}]
    BY <1>1, <1>2, <2>1 DEF Connect
  <2>4. tool' \in ToolType /\ m_tcpSocket' \in Connection
    BY <1>2, <2>1, IdleType DEF Connect
  <2> QED
    BY <1>2, <2>2, <2>3, <2>4 DEF Connect, IInv, TypeOK, ToolType, MadeType
<1>3. CASE SendPiece
  <2>1. tool.at \in Connection
    BY <1>1, <1>3 DEF SendPiece, Reaches, ToolType
  <2>2. tool.upload \in 0..Uploads /\ tool.piece \in 0..Pieces /\ made.uploads \in 0..Uploads
    BY <1>1 DEF ToolType, MadeType
  <2>3. tool' \in ToolType /\ made' \in MadeType /\ tool'.upload \in 1..Uploads /\ tool'.piece \in 1..Pieces
    <3>1. CASE /\ ~Uploading /\ made.uploads < Uploads
               /\ made' = [made EXCEPT !.uploads = @ + 1]
               /\ tool' = [tool EXCEPT !.upload = made.uploads + 1, !.piece = 1, !.due = TRUE]
      <4>1. made.uploads + 1 \in 1..Uploads /\ made.uploads + 1 \in 0..Uploads /\ 1 \in 1..Pieces /\ 1 \in 0..Pieces
        BY <2>2, <3>1, BoundsAssumption
      <4>2. made' \in MadeType
        BY <1>1, <3>1, <4>1, Zenon DEF MadeType
      <4>3. tool' \in ToolType /\ tool'.upload = made.uploads + 1 /\ tool'.piece = 1
        BY <1>1, <3>1, <4>1, Zenon DEF ToolType
      <4> QED
        BY <4>1, <4>2, <4>3
    <3>2. CASE Uploading /\ ~tool.due /\ tool' = [tool EXCEPT !.piece = @ + 1, !.due = TRUE] /\ made' = made
      <4>1. tool.piece + 1 \in 1..Pieces /\ tool.piece + 1 \in 0..Pieces /\ tool.upload \in 1..Uploads
        BY <2>2, <3>2, BoundsAssumption DEF IInv, LineInv, Between, Uploading
      <4>2. tool' \in ToolType /\ tool'.upload = tool.upload /\ tool'.piece = tool.piece + 1
        BY <1>1, <3>2, <4>1, Zenon DEF ToolType
      <4> QED
        BY <1>1, <3>2, <4>1, <4>2
    <3> QED
      BY <1>3, <3>1, <3>2 DEF SendPiece
  <2>4. arrived' \in [Connection -> Seq(Symbols)]
    <3>1. <<"piece", tool'.upload, tool'.piece>> \in Message
      BY <2>3, MessageFacts
    <3>2. arrived' = [arrived EXCEPT ![tool.at] = @ \o <<<<<<"piece", tool'.upload, tool'.piece>>, 1>>,
                                                         <<<<"piece", tool'.upload, tool'.piece>>, 2>>>>]
      BY <1>3 DEF SendPiece, Send
    <3> QED
      BY <1>1, <2>1, <3>1, <3>2, TypeSent
  <2> QED
    BY <1>3, <2>3, <2>4 DEF SendPiece, server, history, IInv, TypeOK, ToolType, MadeType, Symbols
<1>4. CASE SendCancel
  <2>1. tool.at \in Connection /\ made.talk \in 0..MaxTalk /\ made.talk < MaxTalk
    BY <1>1, <1>4 DEF SendCancel, Reaches, ToolType, MadeType
  <2>2. made' \in MadeType
    <3>1. made.talk + 1 \in 0..MaxTalk /\ made' = [made EXCEPT !.talk = made.talk + 1]
      BY <1>4, <2>1, BoundsAssumption DEF SendCancel
    <3> QED
      BY <1>1, <3>1, Zenon DEF MadeType
  <2>3. tool' \in ToolType
    BY <1>4, <2>1, IdleType DEF SendCancel
  <2>4. arrived' \in [Connection -> Seq(Symbols)]
    BY <1>1, <1>4, <2>1, MessageFacts, TypeSent DEF SendCancel, Send
  <2> QED
    BY <1>4, <2>2, <2>3, <2>4 DEF SendCancel, server, history, IInv, TypeOK, ToolType, MadeType, Symbols
<1>5. ASSUME NEW c \in Connection, SendHeartbeat(c) PROVE TypeOK'
  <2>1. made.talk \in 0..MaxTalk /\ made.talk < MaxTalk
    BY <1>1, <1>5 DEF SendHeartbeat, MadeType
  <2>2. made' \in MadeType
    <3>1. made.talk + 1 \in 0..MaxTalk /\ made' = [made EXCEPT !.talk = made.talk + 1]
      BY <1>5, <2>1, BoundsAssumption DEF SendHeartbeat
    <3> QED
      BY <1>1, <3>1, Zenon DEF MadeType
  <2>3. arrived' \in [Connection -> Seq(Symbols)]
    BY <1>1, <1>5, MessageFacts, TypeSent DEF SendHeartbeat, Send
  <2> QED
    BY <1>5, <2>2, <2>3 DEF SendHeartbeat, server, history, IInv, TypeOK, MadeType, Symbols
<1>6. ASSUME NEW c \in Connection, Leave(c) PROVE TypeOK'
  <2>1. link' \in [Connection -> {"new", "up", "silent", "closed", "gone"}]
    BY <1>1, <1>6 DEF Leave
  <2>2. tool' \in ToolType
    BY <1>1, <1>6, IdleType DEF Leave
  <2> QED
    BY <1>6, <2>1, <2>2 DEF Leave, server, history, IInv, TypeOK, ToolType
<1> QED
  BY <1>2, <1>3, <1>4, <1>5, <1>6 DEF Tool

LEMMA TypeParse ==
    ASSUME NEW m \in Message
    PROVE  IInv /\ ParseData(m) =>
              /\ m_heartBeat' \in BOOLEAN /\ m_isSendingLostsOfData' \in BOOLEAN /\ rebooting' \in BOOLEAN
              /\ base64SaveFile' \in Seq((1..Uploads) \X (1..Pieces))
              /\ tool' \in ToolType /\ since' \subseteq 1..Uploads /\ refused' \in BOOLEAN
<1> SUFFICES ASSUME IInv, ParseData(m)
             PROVE  /\ m_heartBeat' \in BOOLEAN /\ m_isSendingLostsOfData' \in BOOLEAN /\ rebooting' \in BOOLEAN
                    /\ base64SaveFile' \in Seq((1..Uploads) \X (1..Pieces))
                    /\ tool' \in ToolType /\ since' \subseteq 1..Uploads /\ refused' \in BOOLEAN
  OBVIOUS
<1>1. /\ m_heartBeat \in BOOLEAN /\ m_isSendingLostsOfData \in BOOLEAN /\ rebooting \in BOOLEAN
      /\ base64SaveFile \in Seq((1..Uploads) \X (1..Pieces))
      /\ tool \in ToolType /\ since \subseteq 1..Uploads /\ refused \in BOOLEAN
  BY DEF IInv, TypeOK, ToolType
<1>2. <<>> \in Seq((1..Uploads) \X (1..Pieces))
  BY EmptySeq
<1>3. CASE m = Heartbeat /\ SetSending(FALSE) /\ UNCHANGED <<base64SaveFile, rebooting, tool, since, refused>>
  BY <1>1, <1>3 DEF SetSending
<1>4. CASE /\ RemoveFiles /\ since' = {}
           /\ UNCHANGED <<m_heartBeat, m_isSendingLostsOfData, rebooting, tool, refused>>
  BY <1>1, <1>2, <1>4 DEF RemoveFiles
<1>5. CASE m[1] = "piece" /\ DevUpdate(m[2], m[3])
  <2> DEFINE u == m[2]
             k == m[3]
             saved == Append(base64SaveFile, <<u, k>>)
             own == Answered /\ tool.due /\ tool.upload = u /\ tool.piece = k
             whole == saved = [j \in 1..Pieces |-> <<u, j>>]
  <2>1. u \in 1..Uploads /\ k \in 1..Pieces
    BY <1>5, MessageFacts
  <2>2. saved \in Seq((1..Uploads) \X (1..Pieces))
    BY <1>1, <2>1
  <2>3. [tool EXCEPT !.due = FALSE] \in ToolType
    BY <1>1, Zenon DEF ToolType
  <2>4. Idle(tool.at) \in ToolType
    BY <1>1, IdleType DEF ToolType
  <2>5. m_heartBeat' \in BOOLEAN /\ m_isSendingLostsOfData' \in BOOLEAN
    BY <1>5 DEF DevUpdate, SetSending
  <2>6. \/ /\ base64SaveFile' = saved
           /\ tool' = IF own THEN [tool EXCEPT !.due = FALSE] ELSE tool
           /\ since' = since \union {u}
           /\ rebooting' = rebooting /\ refused' = refused
        \/ /\ base64SaveFile' = <<>>
           /\ rebooting' = (rebooting \/ whole)
           /\ tool' = IF own THEN Idle(tool.at) ELSE tool
           /\ since' = {}
           /\ refused' = (refused \/ (~whole /\ since \subseteq {u}))
    BY <1>5 DEF DevUpdate, RemoveFiles
  <2> HIDE DEF u, k, saved, own, whole
  <2>7. base64SaveFile' \in Seq((1..Uploads) \X (1..Pieces))
    BY <1>2, <2>2, <2>6
  <2>8. tool' \in ToolType
    BY <1>1, <2>3, <2>4, <2>6
  <2>9. since' \subseteq 1..Uploads
    BY <1>1, <2>1, <2>6
  <2>10. rebooting' \in BOOLEAN /\ refused' \in BOOLEAN
    BY <1>1, <2>6, Zenon
  <2> QED
    BY <2>5, <2>7, <2>8, <2>9, <2>10
<1> QED
  BY <1>3, <1>4, <1>5 DEF ParseData

LEMMA TypeRead == IInv /\ OnTcpRead => TypeOK'
<1> SUFFICES ASSUME IInv, OnTcpRead PROVE TypeOK'
  OBVIOUS
<1>1. /\ mTool_msgBody' \in Seq(Symbols) /\ mTool_msgLen' \in {0, 2}
      /\ arrived' \in [Connection -> Seq(Symbols)]
  BY ReadCuts
<1>2. UNCHANGED <<m_tcpSocket, link, made, crashes, told>>
  BY DEF OnTcpRead
<1>3. \/ UNCHANGED <<m_heartBeat, m_isSendingLostsOfData, base64SaveFile, rebooting, tool, heard, since, refused>>
      \/ \E m \in Message : ParseData(m) /\ heard' = m
  BY ReadCuts
<1>4. CASE UNCHANGED <<m_heartBeat, m_isSendingLostsOfData, base64SaveFile, rebooting, tool, heard, since, refused>>
  BY <1>1, <1>2, <1>4 DEF IInv, TypeOK, Symbols
<1>5. CASE \E m \in Message : ParseData(m) /\ heard' = m
  <2>1. PICK m \in Message : ParseData(m) /\ heard' = m
    BY <1>5
  <2>2. /\ m_heartBeat' \in BOOLEAN /\ m_isSendingLostsOfData' \in BOOLEAN /\ rebooting' \in BOOLEAN
        /\ base64SaveFile' \in Seq((1..Uploads) \X (1..Pieces))
        /\ tool' \in ToolType /\ since' \subseteq 1..Uploads /\ refused' \in BOOLEAN
    BY <2>1, TypeParse
  <2> QED
    BY <1>1, <1>2, <2>1, <2>2 DEF IInv, TypeOK, Symbols, ToolType
<1> QED
  BY <1>3, <1>4, <1>5

LEMMA TypeOther ==
    IInv /\ (HeartBeatTimeout \/ Restart \/ \E c \in Connection : OnStateChanged(c)) => TypeOK'
<1> SUFFICES ASSUME IInv, HeartBeatTimeout \/ Restart \/ \E c \in Connection : OnStateChanged(c) PROVE TypeOK'
  OBVIOUS
<1>1. /\ tool \in ToolType /\ arrived \in [Connection -> Seq(Symbols)]
      /\ link \in [Connection -> {"new", "up", "silent", "closed", "gone"}]
      /\ m_tcpSocket \in Connection \union {None} /\ told \subseteq Connection
  BY DEF IInv, TypeOK, ToolType, Symbols
<1>2. CASE HeartBeatTimeout
  <2>1. link' \in [Connection -> {"new", "up", "silent", "closed", "gone"}]
    BY <1>1, <1>2 DEF HeartBeatTimeout
  <2>2. tool' \in ToolType /\ m_tcpSocket' \in Connection \union {None} /\ told' \subseteq Connection
    BY <1>1, <1>2, IdleType DEF HeartBeatTimeout
  <2> QED
    BY <1>2, <2>1, <2>2 DEF HeartBeatTimeout, IInv, TypeOK, ToolType
<1>3. CASE Restart
  <2>1. crashes' \in 0..MaxCrashes
    BY <1>3, BoundsAssumption DEF Restart, IInv, TypeOK
  <2>2. link' \in [Connection -> {"new", "up", "silent", "closed", "gone"}] /\ told' \subseteq Connection
    BY <1>1, <1>3 DEF Restart
  <2>3. <<>> \in Seq(Symbols) /\ <<>> \in Seq((1..Uploads) \X (1..Pieces))
    BY EmptySeq
  <2>4. tool' \in ToolType /\ arrived' \in [Connection -> Seq(Symbols)]
    BY <1>3, <2>3, IdleType DEF Restart
  <2> QED
    BY <1>3, <2>1, <2>2, <2>3, <2>4 DEF Restart, IInv, TypeOK, ToolType, Symbols
<1>4. ASSUME NEW c \in Connection, OnStateChanged(c) PROVE TypeOK'
  <2>1. link' \in [Connection -> {"new", "up", "silent", "closed", "gone"}] /\ told' \subseteq Connection
    BY <1>1, <1>4 DEF OnStateChanged
  <2> QED
    BY <1>4, <2>1 DEF OnStateChanged, IInv, TypeOK
<1> QED
  BY <1>2, <1>3, <1>4
----------------------------------------------------------------------------
(***************************************************************************)
(* The steps, each with what it does to the symbols.                       *)
(***************************************************************************)
LEMMA SameIsPart == IInv /\ Line' = Line => PartOf(Line', Line, 0)
<1> SUFFICES ASSUME IInv, Line' = Line PROVE PartOf(Line', Line, 0)
  OBVIOUS
<1>1. Len(Line) \in Nat
  BY LineType, LenProperties DEF IInv
<1> HIDE DEF Line
<1> QED
  BY <1>1 DEF PartOf

\* What is left if only the kept beginning can still be parsed.
LEMMA KeptIsPart == IInv /\ mTool_msgBody' = mTool_msgBody /\ Line' = mTool_msgBody => PartOf(Line', Line, 0)
<1> SUFFICES ASSUME IInv, Line' = mTool_msgBody PROVE PartOf(Line', Line, 0)
  OBVIOUS
<1> DEFINE r == IF m_tcpSocket = None THEN <<>> ELSE arrived[m_tcpSocket]
<1>1. mTool_msgBody \in Seq(Symbols) /\ r \in Seq(Symbols)
  BY EmptySeq DEF IInv, TypeOK, Symbols
<1>2. Line = mTool_msgBody \o r
  BY DEF Line
<1> HIDE DEF r, Line
<1>3. /\ Len(Line) = Len(mTool_msgBody) + Len(r)
      /\ \A i \in 1..(Len(mTool_msgBody) + Len(r)) :
            Line[i] = IF i <= Len(mTool_msgBody) THEN mTool_msgBody[i] ELSE r[i - Len(mTool_msgBody)]
  BY <1>1, <1>2, ConcatProperties
<1>4. Len(mTool_msgBody) \in Nat /\ Len(r) \in Nat
  BY <1>1, LenProperties
<1> QED
  BY <1>3, <1>4 DEF PartOf

\* What is sent on the connection that is read lies behind the rest.
LEMMA SendLine ==
    ASSUME NEW c \in Connection, NEW m \in Message
    PROVE  IInv /\ Send(c, m) /\ UNCHANGED <<m_tcpSocket, mTool_msgBody>> =>
              IF c = m_tcpSocket THEN Sent(Line', Line, m) ELSE Line' = Line
<1> SUFFICES ASSUME IInv, Send(c, m), UNCHANGED <<m_tcpSocket, mTool_msgBody>>
             PROVE  IF c = m_tcpSocket THEN Sent(Line', Line, m) ELSE Line' = Line
  OBVIOUS
<1> DEFINE two == <<<<m, 1>>, <<m, 2>>>>
<1>1. arrived \in [Connection -> Seq(Symbols)] /\ arrived' = [arrived EXCEPT ![c] = @ \o two]
      /\ m_tcpSocket \in Connection \union {None} /\ mTool_msgBody \in Seq(Symbols)
  BY DEF IInv, TypeOK, Symbols, Send
<1>2. CASE c # m_tcpSocket
  <2>1. m_tcpSocket # None => arrived'[m_tcpSocket] = arrived[m_tcpSocket]
    BY <1>1, <1>2
  <2> QED
    BY <1>2, <2>1 DEF Line
<1>3. CASE c = m_tcpSocket
  <2>1. c # None
    BY DEF Connection, None
  <2>2. Line = mTool_msgBody \o arrived[c] /\ Line' = mTool_msgBody \o (arrived[c] \o two)
    BY <1>1, <1>3, <2>1 DEF Line
  <2>3. two \in Seq(Symbols) /\ arrived[c] \in Seq(Symbols) /\ Len(two) = 2 /\ two[1] = <<m, 1>> /\ two[2] = <<m, 2>>
    BY <1>1 DEF Symbols
  <2> HIDE DEF two
  <2>4. Line' = Line \o two /\ Line \in Seq(Symbols)
    <3> DEFINE B == mTool_msgBody
               A == arrived[c]
    <3>1. B \in Seq(Symbols) /\ A \in Seq(Symbols)
      BY <1>1, <2>3
    <3>2. Line = B \o A /\ Line' = B \o (A \o two)
      BY <2>2
    <3> HIDE DEF A, B
    <3>3. (B \o A) \o two = B \o (A \o two)
      BY <3>1, <2>3, ConcatAssociative, SMTT(20)
    <3>4. B \o A \in Seq(Symbols)
      BY <3>1, ConcatProperties
    <3> QED
      BY <3>2, <3>3, <3>4
  <2> HIDE DEF Line
  <2>5. /\ Len(Line') = Len(Line) + Len(two)
        /\ \A i \in 1..(Len(Line) + Len(two)) :
              Line'[i] = IF i <= Len(Line) THEN Line[i] ELSE two[i - Len(Line)]
    BY <2>3, <2>4, ConcatProperties
  <2>6. Len(Line) \in Nat
    BY <2>4, LenProperties
  <2>7. Sent(Line', Line, m)
    BY <2>3, <2>5, <2>6, SMTT(20) DEF Sent
  <2> QED
    BY <1>3, <2>7
<1> QED
  BY <1>2, <1>3

LEMMA ToolKeeps == IInv /\ Tool => Sockets' /\ Files' /\ LineInv'
<1> SUFFICES ASSUME IInv, Tool PROVE Sockets' /\ Files' /\ LineInv'
  OBVIOUS
<1>1. TypeOK'
  BY TypeTool
<1>2. /\ tool \in ToolType /\ made \in MadeType /\ arrived \in [Connection -> Seq(Symbols)]
      /\ link \in [Connection -> {"new", "up", "silent", "closed", "gone"}]
      /\ m_tcpSocket \in Connection \union {None}
      /\ made.connections \in Nat /\ made.uploads \in Nat
      /\ \A u \in since : u \in Nat
      /\ tool.upload \in Nat
  BY DEF IInv, TypeOK, ToolType, MadeType, Symbols
<1>3. CASE Connect
  <2> DEFINE c == made.connections + 1
  <2>1. c \in Connection /\ c # None /\ link[c] = "new" /\ arrived[c] = <<>>
    <3>1. c \in Nat /\ c > made.connections /\ c # 0
      BY <1>2
    <3>2. c \in Connection
      <4>1. made.connections < Connections /\ Connections \in Nat
        BY <1>3, BoundsAssumption DEF Connect
      <4> QED
        BY <1>2, <4>1 DEF Connection
    <3>3. \A b \in Connection : b > made.connections => link[b] = "new" /\ arrived[b] = <<>>
      BY DEF IInv, Sockets
    <3> QED
      BY <3>1, <3>2, <3>3 DEF None
  <2>2. made'.connections = c /\ made'.uploads = made.uploads
    BY <1>2, <1>3 DEF Connect, MadeType
  <2>3. /\ tool' = Idle(c) /\ m_tcpSocket' = c
        /\ link' = [link EXCEPT ![c] = "up"]
        /\ UNCHANGED <<mTool_msgBody, base64SaveFile, arrived, since>>
    BY <1>3 DEF Connect
  <2> HIDE DEF c
  <2>4. tool'.upload = 0 /\ tool'.at = c
    BY <2>3 DEF Idle
  <2>5. Sockets'
    <3>1. tool'.at # None => m_tcpSocket' = tool'.at
      BY <2>3, <2>4
    <3>2. Uploading' => Reaches'
      BY <2>4 DEF Uploading
    <3>3. m_tcpSocket' <= made'.connections
      BY <2>1, <2>2, <2>3 DEF Connection
    <3>4. \A d \in Connection : d > made'.connections => link'[d] = "new" /\ arrived'[d] = <<>>
      <4> SUFFICES ASSUME NEW d \in Connection, d > c PROVE link'[d] = "new" /\ arrived'[d] = <<>>
        BY <2>2
      <4>1. d > made.connections /\ d # c
        BY <1>2, <2>1 DEF c, Connection
      <4> QED
        BY <4>1, <1>2, <2>3 DEF IInv, Sockets
    <3> QED
      BY <3>1, <3>2, <3>3, <3>4 DEF Sockets
  <2>6. Files'
    <3>1. tool'.upload <= made'.uploads
      BY <1>2, <2>2, <2>4
    <3> QED
      BY <2>2, <2>3, <3>1 DEF IInv, Files
  <2>7. Line' = mTool_msgBody
    <3>1. mTool_msgBody \in Seq(Symbols)
      BY DEF IInv, TypeOK, Symbols
    <3> QED
      BY <2>1, <2>3, <3>1, ConcatEmptySeq DEF Line
  <2>8. PartOf(Line', Line, 0)
    BY <2>3, <2>7, KeptIsPart
  <2>9. made.uploads <= made'.uploads
    BY <1>2, <2>2
  <2>10. LineInv'
    BY <1>1, <2>3, <2>4, <2>8, <2>9, Shrinks
  <2> QED
    BY <2>5, <2>6, <2>10
<1>4. CASE SendPiece
  <2>1. /\ tool.at \in Connection /\ link[tool.at] = "up" /\ tool.at # None /\ m_tcpSocket = tool.at
    BY <1>2, <1>4 DEF SendPiece, Reaches, ToolType, IInv, Sockets
  <2>2. UNCHANGED <<m_tcpSocket, mTool_msgBody, link, since, base64SaveFile>>
    BY <1>4 DEF SendPiece, server, history
  <2>3. /\ tool'.at = tool.at /\ made'.connections = made.connections
        /\ tool'.upload \in 1..Uploads /\ tool'.piece \in 1..Pieces
        /\ made.uploads <= made'.uploads /\ made'.uploads \in Nat /\ tool'.upload <= made'.uploads
    <3>1. CASE /\ ~Uploading /\ made.uploads < Uploads
               /\ made' = [made EXCEPT !.uploads = @ + 1]
               /\ tool' = [tool EXCEPT !.upload = made.uploads + 1, !.piece = 1, !.due = TRUE]
      <4>1. made'.uploads = made.uploads + 1 /\ made'.connections = made.connections
        BY <1>2, <3>1, Zenon DEF MadeType
      <4>2. tool'.upload = made.uploads + 1 /\ tool'.piece = 1 /\ tool'.at = tool.at
        BY <1>2, <3>1, Zenon DEF ToolType
      <4> QED
        BY <1>2, <3>1, <4>1, <4>2, BoundsAssumption
    <3>2. CASE Uploading /\ ~tool.due /\ tool' = [tool EXCEPT !.piece = @ + 1, !.due = TRUE] /\ made' = made
      <4>1. tool'.upload = tool.upload /\ tool'.piece = tool.piece + 1 /\ tool'.at = tool.at
        BY <1>2, <3>2, Zenon DEF ToolType
      <4>2. tool.piece + 1 \in 1..Pieces
        BY <3>2, BoundsAssumption DEF IInv, LineInv, Between
      <4>3. tool.upload \in 1..Uploads /\ tool.upload <= made.uploads
        BY <1>2, <3>2, BoundsAssumption DEF ToolType, Uploading, IInv, Files
      <4> QED
        BY <1>2, <3>2, <4>1, <4>2, <4>3
    <3> QED
      BY <1>4, <3>1, <3>2 DEF SendPiece
  <2>4. Send(tool.at, <<"piece", tool'.upload, tool'.piece>>)
    BY <1>4 DEF SendPiece
  <2>5. Sent(Line', Line, <<"piece", tool'.upload, tool'.piece>>)
    <3>1. \A u \in 1..Uploads, k \in 1..Pieces :
             Send(tool.at, <<"piece", u, k>>) => Sent(Line', Line, <<"piece", u, k>>)
      BY <2>1, <2>2, MessageFacts, SendLine
    <3> QED
      BY <2>3, <2>4, <3>1
  <2>6. LineInv'
    BY <1>1, <1>4, <2>5, PieceGoes
  <2>7. Files'
    BY <1>2, <2>2, <2>3 DEF IInv, Files
  <2>8. Sockets'
    <3>1. \A d \in Connection : d > made.connections => d # tool.at
      BY <2>1 DEF IInv, Sockets
    <3>2. \A d \in Connection : d # tool.at => arrived'[d] = arrived[d]
      BY <1>2, <2>4 DEF Send
    <3> QED
      BY <2>1, <2>2, <2>3, <3>1, <3>2 DEF IInv, Sockets, Uploading, Reaches
  <2> QED
    BY <2>6, <2>7, <2>8
<1>5. CASE SendCancel
  <2>1. /\ tool.at \in Connection /\ link[tool.at] = "up" /\ tool.at # None /\ m_tcpSocket = tool.at
    BY <1>2, <1>5 DEF SendCancel, Reaches, ToolType, IInv, Sockets
  <2>2. UNCHANGED <<m_tcpSocket, mTool_msgBody, link, since, base64SaveFile>> /\ Send(tool.at, Cancel)
    BY <1>5 DEF SendCancel, server, history
  <2>3. tool'.at = tool.at /\ tool'.upload = 0
    BY <1>5 DEF SendCancel, Idle
  <2>4. made'.connections = made.connections /\ made'.uploads = made.uploads
    BY <1>2, <1>5 DEF SendCancel, MadeType
  <2>5. Sent(Line', Line, Cancel)
    BY <2>1, <2>2, MessageFacts, SendLine
  <2>6. LineInv'
    BY <1>1, <2>2, <2>3, <2>4, <2>5, Talks
  <2>7. Files'
    BY <1>2, <2>2, <2>3, <2>4 DEF IInv, Files
  <2>8. Sockets'
    <3>1. \A d \in Connection : d > made.connections => d # tool.at
      BY <2>1 DEF IInv, Sockets
    <3>2. \A d \in Connection : d # tool.at => arrived'[d] = arrived[d]
      BY <1>2, <2>2 DEF Send
    <3> QED
      BY <2>1, <2>2, <2>3, <2>4, <3>1, <3>2 DEF IInv, Sockets, Uploading
  <2> QED
    BY <2>6, <2>7, <2>8
<1>6. ASSUME NEW c \in Connection, SendHeartbeat(c) PROVE Sockets' /\ Files' /\ LineInv'
  <2>1. UNCHANGED <<m_tcpSocket, mTool_msgBody, link, since, base64SaveFile, tool>> /\ Send(c, Heartbeat) /\ link[c] = "up"
    BY <1>6 DEF SendHeartbeat, server, history
  <2>2. made'.connections = made.connections /\ made'.uploads = made.uploads
    BY <1>2, <1>6 DEF SendHeartbeat, MadeType
  <2>3. LineInv'
    <3>1. CASE c = m_tcpSocket
      <4>1. Sent(Line', Line, Heartbeat)
        BY <2>1, <3>1, MessageFacts, SendLine
      <4> QED
        BY <1>1, <2>1, <2>2, <4>1, Talks
    <3>2. CASE c # m_tcpSocket
      <4>1. Line' = Line
        BY <2>1, <3>2, MessageFacts, SendLine
      <4>2. PartOf(Line', Line, 0)
        BY <4>1, SameIsPart
      <4>3. made.uploads <= made'.uploads
        BY <1>2, <2>2
      <4> QED
        BY <1>1, <2>1, <4>2, <4>3, Shrinks
    <3> QED
      BY <3>1, <3>2
  <2>4. Files'
    BY <2>1, <2>2 DEF IInv, Files
  <2>5. Sockets'
    <3>1. \A d \in Connection : d > made.connections => d # c
      BY <2>1 DEF IInv, Sockets
    <3>2. \A d \in Connection : d # c => arrived'[d] = arrived[d]
      BY <1>2, <2>1 DEF Send
    <3> QED
      BY <2>1, <2>2, <3>1, <3>2 DEF IInv, Sockets, Uploading, Reaches
  <2> QED
    BY <2>3, <2>4, <2>5
<1>7. ASSUME NEW c \in Connection, Leave(c) PROVE Sockets' /\ Files' /\ LineInv'
  <2>1. UNCHANGED <<m_tcpSocket, mTool_msgBody, arrived, made, since, base64SaveFile>> /\ link[c] = "up"
    BY <1>7 DEF Leave, server, history
  <2>2. tool' = IF c = tool.at THEN Idle(None) ELSE tool
    BY <1>7 DEF Leave
  <2>3. tool' = tool \/ tool'.upload = 0
    BY <2>2 DEF Idle
  <2>4. Line' = Line
    BY <2>1 DEF Line
  <2>5. PartOf(Line', Line, 0)
    BY <2>4, SameIsPart
  <2>6. made.uploads <= made'.uploads
    BY <1>2, <2>1
  <2>7. LineInv'
    BY <1>1, <2>1, <2>3, <2>5, <2>6, Shrinks
  <2>8. Files'
    BY <1>2, <2>1, <2>3 DEF IInv, Files
  <2>9. Sockets'
    <3>1. \A d \in Connection : d # c => link'[d] = link[d]
      BY <1>2, <1>7 DEF Leave
    <3>2. \A d \in Connection : d > made.connections => d # c
      <4>1. ~(c > made.connections)
        BY <2>1 DEF IInv, Sockets
      <4> QED
        BY <4>1
    <3>3. CASE c = tool.at
      <4>1. tool'.at = None /\ tool'.upload = 0
        BY <2>2, <3>3 DEF Idle
      <4> QED
        BY <2>1, <3>1, <3>2, <4>1 DEF IInv, Sockets, Uploading
    <3>4. CASE c # tool.at
      <4>1. Reaches => Reaches'
        <5> SUFFICES ASSUME Reaches PROVE Reaches'
          OBVIOUS
        <5>1. tool' = tool /\ tool.at # None /\ link[tool.at] = "up" /\ tool.at \in Connection
          BY <1>2, <2>2, <3>4 DEF Reaches, ToolType
        <5>2. link'[tool.at] = link[tool.at]
          BY <3>1, <3>4, <5>1
        <5> QED
          BY <5>1, <5>2 DEF Reaches
      <4> QED
        BY <2>1, <2>2, <3>1, <3>2, <3>4, <4>1 DEF IInv, Sockets, Uploading
    <3> QED
      BY <3>3, <3>4
  <2> QED
    BY <2>7, <2>8, <2>9
<1> QED
  BY <1>3, <1>4, <1>5, <1>6, <1>7 DEF Tool

LEMMA ReadKeeps == IInv /\ OnTcpRead => Sockets' /\ Files' /\ LineInv' /\ RefusedOnlyIfSpoilt'
<1> SUFFICES ASSUME IInv, OnTcpRead PROVE Sockets' /\ Files' /\ LineInv' /\ RefusedOnlyIfSpoilt'
  OBVIOUS
<1>1. TypeOK'
  BY TypeRead
<1>2. /\ UNCHANGED <<m_tcpSocket, link, made>>
      /\ m_tcpSocket \in Connection
      /\ \A c \in Connection : c # m_tcpSocket => arrived'[c] = arrived[c]
      /\ made.uploads \in Nat /\ tool \in ToolType
  BY ReadCuts DEF OnTcpRead, IInv, TypeOK, ToolType
<1>3. /\ \A c \in Connection : c > made'.connections => link'[c] = "new" /\ arrived'[c] = <<>>
      /\ m_tcpSocket' <= made'.connections
  <2>1. m_tcpSocket <= made.connections /\ made' = made /\ m_tcpSocket' = m_tcpSocket /\ link' = link
    BY <1>2 DEF IInv, Sockets
  <2>2. \A c \in Connection : c > made.connections => c # m_tcpSocket
    <3>1. made.connections \in Nat /\ Connections \in Nat
      BY BoundsAssumption DEF IInv, TypeOK
    <3> QED
      BY <1>2, <2>1, <3>1 DEF Connection
  <2> QED
    BY <1>2, <2>1, <2>2 DEF IInv, Sockets
<1>4. PICK a \in Nat :
        /\ PartOf(Line', Line, a)
        /\ \/ UNCHANGED <<m_heartBeat, m_isSendingLostsOfData, base64SaveFile, rebooting, tool, heard, since, refused>>
           \/ \E p \in Nat, m \in Message : WholeAt(Line, p, m) /\ p < a /\ ParseData(m) /\ heard' = m
  BY ReadCuts
<1>5. CASE UNCHANGED <<base64SaveFile, tool, since, refused>>
  <2>1. made.uploads <= made'.uploads
    BY <1>2
  <2>2. LineInv'
    BY <1>1, <1>4, <1>5, <2>1, Shrinks
  <2>3. Sockets'
    BY <1>2, <1>3, <1>5 DEF IInv, Sockets, Uploading, Reaches
  <2>4. Files' /\ RefusedOnlyIfSpoilt'
    BY <1>2, <1>5 DEF IInv, Files, RefusedOnlyIfSpoilt
  <2> QED
    BY <2>2, <2>3, <2>4
<1>6. CASE \E p \in Nat, m \in Message : WholeAt(Line, p, m) /\ p < a /\ ParseData(m) /\ heard' = m
  <2>1. PICK p \in Nat, m \in Message : WholeAt(Line, p, m) /\ p < a /\ ParseData(m)
    BY <1>6
  <2>2. LineInv' /\ Files' /\ RefusedOnlyIfSpoilt'
    BY <1>1, <1>2, <1>4, <2>1, Parsed
  <2>3. \/ tool' = tool
        \/ tool' = [tool EXCEPT !.due = FALSE]
        \/ tool' = Idle(tool.at)
    BY <2>1 DEF ParseData, DevUpdate
  <2>4. tool'.at = tool.at /\ (tool'.upload = tool.upload \/ tool'.upload = 0)
    <3>1. CASE tool' = tool
      BY <3>1
    <3>2. CASE tool' = [tool EXCEPT !.due = FALSE]
      BY <1>2, <3>2, Zenon DEF ToolType
    <3>3. CASE tool' = Idle(tool.at)
      BY <3>3 DEF Idle
    <3> QED
      BY <2>3, <3>1, <3>2, <3>3
  <2>5. Sockets'
    BY <1>2, <1>3, <2>4 DEF IInv, Sockets, Uploading, Reaches
  <2> QED
    BY <2>2, <2>5
<1> QED
  BY <1>4, <1>5, <1>6

LEMMA OtherKeeps ==
    IInv /\ (HeartBeatTimeout \/ Restart \/ \E c \in Connection : OnStateChanged(c)) =>
        Sockets' /\ Files' /\ LineInv'
<1> SUFFICES ASSUME IInv, HeartBeatTimeout \/ Restart \/ \E c \in Connection : OnStateChanged(c)
             PROVE  Sockets' /\ Files' /\ LineInv'
  OBVIOUS
<1>1. TypeOK'
  BY TypeOther
<1>2. /\ tool \in ToolType /\ arrived \in [Connection -> Seq(Symbols)]
      /\ link \in [Connection -> {"new", "up", "silent", "closed", "gone"}]
      /\ m_tcpSocket \in Connection \union {None}
      /\ made.connections \in Nat /\ made.uploads \in Nat
      /\ mTool_msgBody \in Seq(Symbols) /\ tool.upload \in Nat
  BY DEF IInv, TypeOK, ToolType, Symbols
<1>3. CASE HeartBeatTimeout
  <2>1. UNCHANGED <<mTool_msgBody, base64SaveFile, arrived, made, since>>
    BY <1>3 DEF HeartBeatTimeout
  <2>2. \/ /\ m_tcpSocket \in Connection /\ m_tcpSocket # None
           /\ link' = [link EXCEPT ![m_tcpSocket] = "gone"]
           /\ m_tcpSocket' = None \/ m_tcpSocket' = m_tcpSocket
           /\ tool' = IF tool.at = m_tcpSocket THEN Idle(None) ELSE tool
        \/ UNCHANGED <<link, m_tcpSocket, tool>>
    BY <1>2, <1>3 DEF HeartBeatTimeout
  <2>3. tool' = tool \/ tool'.upload = 0
    BY <2>2 DEF Idle
  <2>4. PartOf(Line', Line, 0)
    <3>1. CASE m_tcpSocket' = m_tcpSocket
      <4>1. Line' = Line
        BY <2>1, <3>1 DEF Line
      <4> QED
        BY <4>1, SameIsPart
    <3>2. CASE m_tcpSocket' = None
      <4>1. Line' = mTool_msgBody
        BY <1>2, <2>1, <3>2, ConcatEmptySeq DEF Line
      <4> QED
        BY <2>1, <4>1, KeptIsPart
    <3> QED
      BY <2>2, <3>1, <3>2
  <2>5. made.uploads <= made'.uploads
    BY <1>2, <2>1
  <2>6. LineInv'
    BY <1>1, <2>1, <2>3, <2>4, <2>5, Shrinks
  <2>7. Files'
    BY <1>2, <2>1, <2>3 DEF IInv, Files
  <2>8. Sockets'
    <3>1. CASE UNCHANGED <<link, m_tcpSocket, tool>>
      BY <2>1, <3>1 DEF IInv, Sockets, Uploading, Reaches
    <3>2. CASE /\ m_tcpSocket \in Connection /\ m_tcpSocket # None
               /\ link' = [link EXCEPT ![m_tcpSocket] = "gone"]
               /\ m_tcpSocket' = None \/ m_tcpSocket' = m_tcpSocket
               /\ tool' = IF tool.at = m_tcpSocket THEN Idle(None) ELSE tool
      <4>1. tool'.at = None /\ tool'.upload = 0
        BY <3>2 DEF Idle, IInv, Sockets, Uploading, Reaches
      <4>2. m_tcpSocket' <= made'.connections
        BY <1>2, <2>1, <3>2 DEF IInv, Sockets, None
      <4>3. \A c \in Connection : c > made.connections => c # m_tcpSocket
        BY <1>2, <3>2 DEF IInv, Sockets, Connection
      <4> QED
        BY <1>2, <2>1, <3>2, <4>1, <4>2, <4>3 DEF IInv, Sockets, Uploading
    <3> QED
      BY <2>2, <3>1, <3>2
  <2> QED
    BY <2>6, <2>7, <2>8
<1>4. CASE Restart
  <2>1. /\ m_tcpSocket' = None /\ mTool_msgBody' = <<>> /\ base64SaveFile' = <<>> /\ since' = {}
        /\ tool' = Idle(None) /\ made' = made
        /\ link' = [c \in Connection |-> IF link[c] = "new" THEN "new" ELSE "gone"]
        /\ arrived' = [c \in Connection |-> <<>>]
    BY <1>4 DEF Restart
  <2>2. tool'.at = None /\ tool'.upload = 0
    BY <2>1 DEF Idle
  <2>3. Line' = <<>>
    BY <2>1, ConcatEmptySeq, EmptySeq DEF Line
  <2>4. \A p, u, k : ~(PieceAt(Line, p, u, k)')
    BY <2>3 DEF PieceAt
  <2>5. LineInv'
    BY <2>2, <2>4 DEF LineInv, PiecesOfUploads, OneOfEach, Begins, Continues, Between, Waiting, Uploading
  <2>6. Files'
    BY <1>2, <2>1, <2>2 DEF Files
  <2>7. Sockets'
    BY <1>2, <2>1, <2>2 DEF IInv, Sockets, Uploading, None
  <2> QED
    BY <2>5, <2>6, <2>7
<1>5. ASSUME NEW c \in Connection, OnStateChanged(c) PROVE Sockets' /\ Files' /\ LineInv'
  <2>1. /\ UNCHANGED <<m_tcpSocket, mTool_msgBody, base64SaveFile, arrived, tool, made, since>>
        /\ link' = [link EXCEPT ![c] = "gone"] /\ link[c] = "closed"
    BY <1>5 DEF OnStateChanged
  <2>2. Line' = Line
    BY <2>1 DEF Line
  <2>3. PartOf(Line', Line, 0)
    BY <2>2, SameIsPart
  <2>4. made.uploads <= made'.uploads
    BY <1>2, <2>1
  <2>5. LineInv'
    BY <1>1, <2>1, <2>3, <2>4, Shrinks
  <2>6. Files'
    BY <2>1 DEF IInv, Files
  <2>7. Sockets'
    <3>1. \A d \in Connection : d > made.connections => d # c
      <4>1. ~(c > made.connections)
        BY <2>1 DEF IInv, Sockets
      <4> QED
        BY <4>1
    <3>2. \A d \in Connection : d # c => link'[d] = link[d]
      BY <1>2, <2>1
    <3>3. Reaches => Reaches'
      <4> SUFFICES ASSUME Reaches PROVE Reaches'
        OBVIOUS
      <4>1. tool.at \in Connection /\ tool.at # c
        BY <1>2, <2>1 DEF Reaches, ToolType
      <4> QED
        BY <2>1, <3>2, <4>1 DEF Reaches
    <3> QED
      BY <2>1, <3>1, <3>2, <3>3 DEF IInv, Sockets, Uploading
  <2> QED
    BY <2>5, <2>6, <2>7
<1> QED
  BY <1>3, <1>4, <1>5
----------------------------------------------------------------------------
(***************************************************************************)
(* The theorems.                                                           *)
(***************************************************************************)
LEMMA IInvInit == Init => IInv
<1> SUFFICES ASSUME Init PROVE IInv
  OBVIOUS
<1>1. TypeOK
  BY TypeInit
<1>2. Line = <<>>
  BY ConcatEmptySeq, EmptySeq DEF Init, Line
<1>3. \A p, u, k : ~PieceAt(Line, p, u, k)
  BY <1>2 DEF PieceAt
<1>4. ~Uploading /\ tool.at = None /\ tool.upload = 0
  BY DEF Init, Idle, Uploading
<1>5. LineInv
  BY <1>3, <1>4 DEF LineInv, PiecesOfUploads, OneOfEach, Begins, Continues, Between, Waiting
<1>6. Files
  BY <1>4 DEF Init, Files
<1>7. Sockets
  BY <1>4 DEF Init, Sockets, None
<1> QED
  BY <1>1, <1>5, <1>6, <1>7 DEF IInv, Init, RefusedOnlyIfSpoilt

LEMMA IInvNext == IInv /\ [Next]_vars => IInv'
<1> SUFFICES ASSUME IInv, [Next]_vars PROVE IInv'
  OBVIOUS
<1>1. CASE Tool
  <2>1. refused' = refused
    BY <1>1 DEF Tool, Connect, SendPiece, SendCancel, SendHeartbeat, Leave, history
  <2> QED
    BY <1>1, <2>1, TypeTool, ToolKeeps DEF IInv, RefusedOnlyIfSpoilt
<1>2. CASE OnTcpRead
  BY <1>2, TypeRead, ReadKeeps DEF IInv
<1>3. CASE HeartBeatTimeout \/ Restart \/ \E c \in Connection : OnStateChanged(c)
  <2>1. refused' = refused
    BY <1>3 DEF HeartBeatTimeout, Restart, OnStateChanged
  <2> QED
    BY <1>3, <2>1, TypeOther, OtherKeeps DEF IInv, RefusedOnlyIfSpoilt
<1>4. CASE UNCHANGED vars
  <2>1. UNCHANGED <<m_tcpSocket, m_heartBeat, m_isSendingLostsOfData, mTool_msgBody, mTool_msgLen, base64SaveFile,
                    rebooting, link, arrived, tool, made, crashes, told, heard, since, refused>>
    BY <1>4 DEF vars, server, history
  <2>2. TypeOK' /\ Sockets' /\ Files' /\ RefusedOnlyIfSpoilt'
    BY <2>1 DEF IInv, TypeOK, Sockets, Files, RefusedOnlyIfSpoilt, Uploading, Reaches
  <2>3. Line' = Line
    BY <2>1 DEF Line
  <2>4. PartOf(Line', Line, 0)
    BY <2>3, SameIsPart
  <2>5. made.uploads <= made'.uploads
    BY <2>1 DEF IInv, TypeOK
  <2>6. LineInv'
    BY <2>1, <2>2, <2>4, <2>5, Shrinks
  <2> QED
    BY <2>2, <2>6 DEF IInv
<1> QED
  BY <1>1, <1>2, <1>3, <1>4 DEF Next, Server

LEMMA IInvAlways == Spec => []IInv
BY IInvInit, IInvNext, PTL DEF Spec

\* Every variable of the tool's server, of its connections and of the tool has its type throughout, for any number of
\* connections, uploads and pieces (ToolTcpServer.cpp).
THEOREM TypeCorrect == Spec => []TypeOK
<1>1. IInv => TypeOK
  BY DEF IInv
<1> QED
  BY <1>1, IInvAlways, PTL

\* For any number of connections, uploads and pieces, however the reads cut and glue the messages: an upload is refused
\* only for the pieces another one, broken off, has left (ToolTcpServer.cpp:300-366, 1165-1300).
THEOREM UploadsUnspoilt == Spec => []RefusedOnlyIfSpoilt
<1>1. IInv => RefusedOnlyIfSpoilt
  BY DEF IInv
<1> QED
  BY <1>1, IInvAlways, PTL

----------------------------------------------------------------------------
(***************************************************************************)
(* HeartbeatIsTimed is inductive as it stands: whatever stops the timer    *)
(* without ending the connection makes something else the last word.       *)
(***************************************************************************)
LEMMA LastWord == Heartbeat # Cancel /\ Heartbeat # <<>> /\ Heartbeat[1] # "piece"
BY DEF Heartbeat, Cancel

\* Parsing a heartbeat starts the timer; parsing anything else makes it the last word.
LEMMA ParseTimes ==
    ASSUME NEW s, ParseSymbols(s), heard' = Heartbeat
    PROVE  \/ m_heartBeat' /\ ~m_isSendingLostsOfData'
           \/ UNCHANGED <<heard, m_heartBeat, m_isSendingLostsOfData>>
<1>1. CASE Whole(s)
  <2>1. s[1][1] = Heartbeat /\ ParseData(Heartbeat)
    BY <1>1 DEF ParseSymbols
  <2>2. SetSending(FALSE)
    BY <2>1, LastWord DEF ParseData
  <2> QED
    BY <2>2, Zenon DEF SetSending
<1>2. CASE ~Whole(s)
  BY <1>2 DEF ParseSymbols
<1> QED
  BY <1>1, <1>2

LEMMA ReadTimes ==
    ASSUME HeartbeatIsTimed, OnTcpRead
    PROVE  HeartbeatIsTimed'
<1>1. m_tcpSocket' = m_tcpSocket /\ told' = told
  BY DEF OnTcpRead
<1>2. PICK n \in 0..Len(arrived[m_tcpSocket]) : ReadSymbols(SubSeq(arrived[m_tcpSocket], 1, n))
  BY DEF OnTcpRead
<1>3. ASSUME heard' = Heartbeat
      PROVE  \/ m_heartBeat' /\ ~m_isSendingLostsOfData'
             \/ UNCHANGED <<heard, m_heartBeat, m_isSendingLostsOfData>>
  <2>1. \/ UNCHANGED <<heard, m_heartBeat, m_isSendingLostsOfData>>
        \/ \E s : ParseSymbols(s)
    BY <1>2, Zenon DEF ReadSymbols
  <2> QED
    BY <1>3, <2>1, ParseTimes
<1> QED
  BY <1>1, <1>3 DEF HeartbeatIsTimed

LEMMA Timed == HeartbeatIsTimed /\ [Next]_vars => HeartbeatIsTimed'
<1> SUFFICES ASSUME HeartbeatIsTimed, [Next]_vars PROVE HeartbeatIsTimed'
  OBVIOUS
<1>1. CASE Tool
  <2>1. CASE Connect
    BY <2>1, LastWord DEF Connect, HeartbeatIsTimed
  <2>2. CASE SendPiece \/ SendCancel \/ \E c \in Connection : SendHeartbeat(c) \/ Leave(c)
    <3>1. UNCHANGED <<server, history>>
      BY <2>2 DEF SendPiece, SendCancel, SendHeartbeat, Leave
    <3> QED
      BY <3>1 DEF server, history, HeartbeatIsTimed
  <2> QED
    BY <1>1, <2>1, <2>2 DEF Tool
<1>2. CASE HeartBeatTimeout
  BY <1>2 DEF HeartBeatTimeout, HeartbeatIsTimed
<1>3. ASSUME NEW c \in Connection, OnStateChanged(c) PROVE HeartbeatIsTimed'
  BY <1>3, LastWord DEF OnStateChanged, HeartbeatIsTimed
<1>4. CASE Restart
  BY <1>4, LastWord DEF Restart, HeartbeatIsTimed
<1>5. CASE UNCHANGED vars
  BY <1>5 DEF vars, server, history, HeartbeatIsTimed
<1> QED
  BY <1>1, <1>2, <1>3, <1>4, <1>5, ReadTimes DEF Next, Server

\* For any number of connections and uploads a tool whose last word was a heartbeat, and whose end has not been told, is
\* being timed (ToolTcpServer.cpp:191-261, 1455-1465).
THEOREM SilenceIsTimed == Spec => []HeartbeatIsTimed
<1>1. Init => HeartbeatIsTimed
  BY DEF Init, HeartbeatIsTimed
<1> QED
  BY <1>1, Timed, PTL DEF Spec
=============================================================================
