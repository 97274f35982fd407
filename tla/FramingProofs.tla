--------------------------- MODULE FramingProofs ---------------------------
(***************************************************************************)
(* InOrderOnce and OwedIsParsed hold for any number of messages of any     *)
(* size, any reads and any number of broken connections. The inductive     *)
(* invariant speaks of the symbols that have not been dealt with: they are *)
(* an end of what has been sent, every step drops some from their front,   *)
(* and what has been parsed lies before them.                              *)
(***************************************************************************)
EXTENDS Framing, SequenceTheorems, TLAPS

Unread == rest \o coming

\* t is what lies behind the first a symbols of s.
EndOf(t, s, a) == Len(s) = a + Len(t) /\ \A j \in 1..Len(t) : t[j] = s[a + j]

\* The symbols of a message follow one another, and behind its last comes the first of a later message.
Run(s) ==
    /\ \A p \in DOMAIN s : s[p][2] <= Header + size[s[p][1]]
    /\ \A p, q \in DOMAIN s : p <= q =>
          LET k == s[p][2] + (q - p)
              last == Header + size[s[p][1]]
          IN /\ k <= last => s[q] = <<s[p][1], k>>
             /\ k > last => s[q][1] > s[p][1]
             /\ k = last + 1 => s[q][2] = 1

IsBody(data) == data # <<>> /\ data = Body(data[1][1])

Has(s, i) == \E p \in DOMAIN s : s[p][1] = i

Handed(ps, i) == \E k \in DOMAIN ps : ps[k] = <<i, i>>
Extends(qs, ps) == \A k \in DOMAIN ps : k \in DOMAIN qs /\ qs[k] = ps[k]
----------------------------------------------------------------------------
(***************************************************************************)
(* The inductive invariant.                                                *)
(***************************************************************************)
Contiguous ==
    /\ Run(Unread)
    /\ Unread # <<>> => Unread[Len(Unread)] = End(sent)

\* ps is in order, and what is not dealt with, of the first n messages, lies behind it.
Before(ps, s, n) ==
    /\ \A j, k \in DOMAIN ps :
          /\ ps[j][1] \in {ps[j][2], None}
          /\ j < k => ps[j][2] < ps[k][2]
    /\ \A k \in DOMAIN ps : ps[k][2] <= n /\ \A p \in DOMAIN s : ps[k][2] < s[p][1]
    /\ \A p \in DOMAIN s : s[p][1] <= n

\* The cmd kept is that of the body kept, whose beginning may be still to come.
CmdKept ==
    /\ rest # <<>> => m_msgData # <<>>
    /\ m_msgData # <<>> /\ m_msgData[1][2] = Header + 1 => m_cmdType \in {m_msgData[1][1], None}
    /\ m_msgData = <<>> /\ m_cmdType # None /\ coming # <<>> =>
          \/ coming[1][2] = 1
          \/ coming[1] = <<m_cmdType, Header + 1>> /\ m_msgLength = size[m_cmdType]

\* The first n symbols of the body of i.
BodyTo(i, n) == [k \in 1..n |-> <<i, Header + k>>]

\* The message i has been read up to the middle of its body.
Partly(i) ==
    /\ rest = <<>>
    /\ coming[1][1] = i /\ coming[1][2] > Header
    /\ m_msgData = BodyTo(i, coming[1][2] - 1 - Header)
    /\ m_msgLength = size[i] /\ m_cmdType = i

OwedKept ==
    \A i \in owed :
        /\ i <= sent
        /\ Has(rest, i) => rest[1][2] = 1 /\ \E p \in DOMAIN rest : rest[p] = End(i)
        /\ Has(coming, i) => Partly(i)
        /\ ~Has(rest, i) /\ ~Has(coming, i) => Handed(parsed, i)

IInv == TypeOK /\ Contiguous /\ Before(parsed, Unread, sent) /\ CmdKept /\ OwedKept
----------------------------------------------------------------------------
(***************************************************************************)
(* Sequences of symbols.                                                   *)
(***************************************************************************)
LEMMA SymbolFacts ==
    ASSUME NEW s \in Seq(Symbol)
    PROVE  /\ Len(s) \in Nat /\ DOMAIN s = 1..Len(s)
           /\ \A p \in DOMAIN s : /\ s[p] \in Symbol /\ s[p] = <<s[p][1], s[p][2]>>
                                  /\ s[p][1] \in Message /\ s[p][1] \in Nat /\ s[p][2] \in Nat /\ s[p][2] >= 1
<1>1. Len(s) \in Nat /\ DOMAIN s = 1..Len(s)
  BY LenProperties
<1>2. \A p \in DOMAIN s : s[p] \in Symbol
  BY ElementOfSeq, <1>1
<1>3. \A x \in Symbol : x = <<x[1], x[2]>> /\ x[1] \in Message /\ x[1] \in Nat /\ x[2] \in Nat /\ x[2] >= 1
  BY DEF Symbol, Message, Header
<1> QED
  BY <1>1, <1>2, <1>3

LEMMA EndIsPart ==
    ASSUME NEW s \in Seq(Symbol), NEW a \in 0..Len(s)
    PROVE  /\ SubSeq(s, a + 1, Len(s)) \in Seq(Symbol)
           /\ EndOf(SubSeq(s, a + 1, Len(s)), s, a)
           /\ Len(SubSeq(s, a + 1, Len(s))) = Len(s) - a
<1>1. Len(s) \in Nat /\ DOMAIN s = 1..Len(s) /\ \A p \in DOMAIN s : s[p] \in Symbol
  BY SymbolFacts
<1>2. /\ SubSeq(s, a + 1, Len(s)) \in Seq(Symbol)
      /\ Len(SubSeq(s, a + 1, Len(s))) = (IF a + 1 <= Len(s) THEN Len(s) - (a + 1) + 1 ELSE 0)
      /\ \A i \in 1..(Len(s) - (a + 1) + 1) : SubSeq(s, a + 1, Len(s))[i] = s[(a + 1) + i - 1]
  <2>1. \A i \in (a + 1)..Len(s) : s[i] \in Symbol
    BY <1>1
  <2> QED
    BY <1>1, <2>1, SubSeqProperties
<1>3. Len(SubSeq(s, a + 1, Len(s))) = Len(s) - a
  <2>1. CASE a + 1 <= Len(s)
    <3>1. Len(s) - (a + 1) + 1 = Len(s) - a
      BY <1>1
    <3> QED
      BY <1>2, <2>1, <3>1
  <2>2. CASE ~(a + 1 <= Len(s))
    <3> DEFINE n == Len(s)
    <3>0. n \in Nat /\ a \in 0..n /\ ~(a + 1 <= n)
      BY <1>1, <2>2
    <3> HIDE DEF n
    <3>1. a = n
      BY <3>0
    <3>2. n - a = 0
      BY <3>0, <3>1
    <3> QED
      BY <1>2, <2>2, <3>2 DEF n
  <2> QED
    BY <2>1, <2>2
<1>4. \A i \in 1..(Len(s) - a) : SubSeq(s, a + 1, Len(s))[i] = s[a + i]
  BY <1>1, <1>2
<1>5. Len(s) = a + (Len(s) - a)
  BY <1>1
<1> QED
  BY <1>2, <1>3, <1>4, <1>5 DEF EndOf

LEMMA BeginIsPart ==
    ASSUME NEW s \in Seq(Symbol), NEW n \in 0..Len(s)
    PROVE  /\ SubSeq(s, 1, n) \in Seq(Symbol) /\ Len(SubSeq(s, 1, n)) = n
           /\ \A j \in 1..n : SubSeq(s, 1, n)[j] = s[j]
<1>1. Len(s) \in Nat /\ DOMAIN s = 1..Len(s) /\ \A p \in DOMAIN s : s[p] \in Symbol
  BY SymbolFacts
<1>2. /\ SubSeq(s, 1, n) \in Seq(Symbol)
      /\ Len(SubSeq(s, 1, n)) = (IF 1 <= n THEN n - 1 + 1 ELSE 0)
      /\ \A i \in 1..(n - 1 + 1) : SubSeq(s, 1, n)[i] = s[1 + i - 1]
  <2>1. \A i \in 1..n : s[i] \in Symbol
    BY <1>1
  <2> QED
    BY <1>1, <2>1, SubSeqProperties
<1> QED
  BY <1>1, <1>2

\* An end of an end, and an end with something behind it.
LEMMA EndOfEnd ==
    ASSUME NEW s \in Seq(Symbol), NEW t \in Seq(Symbol), NEW u \in Seq(Symbol), NEW a \in Nat, NEW b \in Nat,
           EndOf(t, s, a), EndOf(u, t, b)
    PROVE  EndOf(u, s, a + b)
<1>1. Len(s) \in Nat /\ Len(t) \in Nat /\ Len(u) \in Nat
  BY SymbolFacts
<1>2. ASSUME NEW j \in 1..Len(u) PROVE u[j] = s[(a + b) + j]
  <2>1. u[j] = t[b + j] /\ b + j \in 1..Len(t) /\ a + (b + j) = (a + b) + j
    BY <1>1 DEF EndOf
  <2>2. t[b + j] = s[a + (b + j)]
    BY <2>1 DEF EndOf
  <2> QED
    BY <2>1, <2>2
<1> QED
  BY <1>1, <1>2 DEF EndOf

LEMMA EndBefore ==
    ASSUME NEW s \in Seq(Symbol), NEW t \in Seq(Symbol), NEW u \in Seq(Symbol), NEW a \in Nat, EndOf(t, s, a)
    PROVE  EndOf(t \o u, s \o u, a)
<1>1. Len(s) \in Nat /\ Len(t) \in Nat /\ Len(u) \in Nat /\ Len(s) = a + Len(t)
  BY SymbolFacts DEF EndOf
<1>2. /\ Len(t \o u) = Len(t) + Len(u) /\ Len(s \o u) = Len(s) + Len(u)
      /\ \A i \in 1..(Len(t) + Len(u)) : (t \o u)[i] = IF i <= Len(t) THEN t[i] ELSE u[i - Len(t)]
      /\ \A i \in 1..(Len(s) + Len(u)) : (s \o u)[i] = IF i <= Len(s) THEN s[i] ELSE u[i - Len(s)]
  BY ConcatProperties
<1>3. ASSUME NEW j \in 1..(Len(t) + Len(u)) PROVE (t \o u)[j] = (s \o u)[a + j]
  <2>1. a + j \in 1..(Len(s) + Len(u))
    BY <1>1
  <2>2. CASE j <= Len(t)
    <3>1. a + j <= Len(s) /\ j \in 1..Len(t)
      BY <1>1, <2>2
    <3>2. t[j] = s[a + j]
      BY <3>1 DEF EndOf
    <3> QED
      BY <1>2, <2>1, <2>2, <3>1, <3>2
  <2>3. CASE ~(j <= Len(t))
    <3>1. ~(a + j <= Len(s)) /\ (a + j) - Len(s) = j - Len(t)
      BY <1>1, <2>3
    <3>2. (t \o u)[j] = u[j - Len(t)]
      BY <1>2, <2>3
    <3>3. (s \o u)[a + j] = u[(a + j) - Len(s)]
      BY <1>2, <2>1, <3>1
    <3> QED
      BY <3>1, <3>2, <3>3
  <2> QED
    BY <2>2, <2>3
<1> QED
  BY <1>1, <1>2, <1>3 DEF EndOf

LEMMA EndFacts ==
    ASSUME NEW s \in Seq(Symbol), NEW t \in Seq(Symbol), NEW a \in Nat, EndOf(t, s, a)
    PROVE  /\ Len(s) \in Nat /\ DOMAIN s = 1..Len(s) /\ Len(t) \in Nat /\ DOMAIN t = 1..Len(t) /\ Len(s) = a + Len(t)
           /\ \A q \in DOMAIN t : a + q \in DOMAIN s /\ t[q] = s[a + q]
           /\ a + 1 \in DOMAIN s => t # <<>> /\ 1 \in DOMAIN t /\ t[1] = s[a + 1]
           /\ t # <<>> => 1 \in DOMAIN t /\ a + 1 \in DOMAIN s
<1>1. Len(s) \in Nat /\ DOMAIN s = 1..Len(s) /\ Len(t) \in Nat /\ DOMAIN t = 1..Len(t) /\ Len(s) = a + Len(t)
  BY SymbolFacts DEF EndOf
<1>2. \A q \in DOMAIN t : a + q \in DOMAIN s /\ t[q] = s[a + q]
  BY <1>1 DEF EndOf
<1>3. ASSUME a + 1 \in DOMAIN s PROVE t # <<>> /\ 1 \in DOMAIN t
  <2>1. Len(t) # 0 /\ 1 \in DOMAIN t
    BY <1>1, <1>3
  <2> QED
    BY <2>1, EmptySeq
<1>4. ASSUME t # <<>> PROVE 1 \in DOMAIN t
  <2>1. Len(t) # 0
    BY <1>4, EmptySeq
  <2> QED
    BY <1>1, <2>1
<1> QED
  BY <1>1, <1>2, <1>3, <1>4

LEMMA EndBegins ==
    ASSUME NEW s \in Seq(Symbol), NEW t \in Seq(Symbol), NEW a \in Nat, EndOf(t, s, a), a + 1 \in DOMAIN s
    PROVE  t # <<>> /\ 1 \in DOMAIN t /\ t[1] = s[a + 1]
BY EndFacts

LEMMA RunOfEnd ==
    ASSUME TypeOK, NEW s \in Seq(Symbol), NEW t \in Seq(Symbol), NEW a \in Nat, EndOf(t, s, a), Run(s)
    PROVE  Run(t)
<1>1. /\ Len(s) \in Nat /\ Len(t) \in Nat /\ DOMAIN s = 1..Len(s) /\ DOMAIN t = 1..Len(t)
      /\ \A p \in DOMAIN t : a + p \in DOMAIN s /\ t[p] = s[a + p]
  <2>1. Len(s) \in Nat /\ Len(t) \in Nat /\ DOMAIN s = 1..Len(s) /\ DOMAIN t = 1..Len(t)
    BY SymbolFacts
  <2>2. \A p \in DOMAIN t : a + p \in DOMAIN s /\ t[p] = s[a + p]
    BY <2>1 DEF EndOf
  <2> QED
    BY <2>1, <2>2
<1>2. \A p \in DOMAIN t : t[p][2] <= Header + size[t[p][1]]
  BY <1>1 DEF Run
<1>3. ASSUME NEW p \in DOMAIN t, NEW q \in DOMAIN t, p <= q
      PROVE  LET k == t[p][2] + (q - p)
                 last == Header + size[t[p][1]]
             IN /\ k <= last => t[q] = <<t[p][1], k>>
                /\ k > last => t[q][1] > t[p][1]
                /\ k = last + 1 => t[q][2] = 1
  <2>1. /\ a + p \in DOMAIN s /\ a + q \in DOMAIN s /\ a + p <= a + q
        /\ (a + q) - (a + p) = q - p /\ t[p] = s[a + p] /\ t[q] = s[a + q]
    BY <1>1, <1>3
  <2>2. LET k == s[a + p][2] + ((a + q) - (a + p))
            last == Header + size[s[a + p][1]]
        IN /\ k <= last => s[a + q] = <<s[a + p][1], k>>
           /\ k > last => s[a + q][1] > s[a + p][1]
           /\ k = last + 1 => s[a + q][2] = 1
    BY <2>1 DEF Run
  <2> QED
    BY <2>1, <2>2
<1> QED
  BY <1>2, <1>3 DEF Run

LEMMA BeforeEnd ==
    ASSUME NEW s \in Seq(Symbol), NEW t \in Seq(Symbol), NEW a \in Nat, EndOf(t, s, a), NEW ps, NEW n, Before(ps, s, n)
    PROVE  Before(ps, t, n)
<1>1. /\ Len(s) \in Nat /\ Len(t) \in Nat /\ DOMAIN s = 1..Len(s) /\ DOMAIN t = 1..Len(t)
      /\ \A p \in DOMAIN t : a + p \in DOMAIN s /\ t[p] = s[a + p]
  <2>1. Len(s) \in Nat /\ Len(t) \in Nat /\ DOMAIN s = 1..Len(s) /\ DOMAIN t = 1..Len(t)
    BY SymbolFacts
  <2>2. \A p \in DOMAIN t : a + p \in DOMAIN s /\ t[p] = s[a + p]
    BY <2>1 DEF EndOf
  <2> QED
    BY <2>1, <2>2
<1> QED
  BY <1>1 DEF Before

LEMMA Sizes ==
    ASSUME TypeOK, NEW i \in Message
    PROVE  size[i] \in Nat /\ size[i] >= 1 /\ size[i] <= MaxSize /\ i \in Nat /\ i >= 1
BY ConstantsAssumption DEF TypeOK, Message

\* What a beginning of the message i, and of what follows it, looks like.
LEMMA FromHead ==
    ASSUME TypeOK, NEW s \in Seq(Symbol), Run(s), s # <<>>, NEW i, NEW k, s[1] = <<i, k>>
    PROVE  /\ i \in Message /\ k \in Nat /\ k >= 1 /\ k <= Header + size[i] /\ 1 \in DOMAIN s
           /\ \A q \in DOMAIN s :
                /\ k + (q - 1) <= Header + size[i] => s[q] = <<i, k + (q - 1)>>
                /\ k + (q - 1) > Header + size[i] => s[q][1] > i
                /\ k + (q - 1) = Header + size[i] + 1 => s[q][2] = 1
<1>1. 1 \in DOMAIN s /\ DOMAIN s = 1..Len(s) /\ Len(s) \in Nat
  <2>1. Len(s) \in Nat /\ DOMAIN s = 1..Len(s)
    BY SymbolFacts
  <2>2. Len(s) # 0
    BY EmptySeq
  <2> QED
    BY <2>1, <2>2
<1>2. s[1][1] = i /\ s[1][2] = k
  OBVIOUS
<1>3. i \in Message /\ k \in Nat /\ k >= 1
  BY <1>1, <1>2, SymbolFacts
<1>4. k <= Header + size[i]
  BY <1>1, <1>2 DEF Run
<1>5. ASSUME NEW q \in DOMAIN s
      PROVE  /\ k + (q - 1) <= Header + size[i] => s[q] = <<i, k + (q - 1)>>
             /\ k + (q - 1) > Header + size[i] => s[q][1] > i
             /\ k + (q - 1) = Header + size[i] + 1 => s[q][2] = 1
  <2>1. 1 <= q
    BY <1>1
  <2> QED
    BY <1>1, <1>2, <2>1 DEF Run
<1> QED
  BY <1>1, <1>3, <1>4, <1>5

LEMMA RunOfBegin ==
    ASSUME NEW s \in Seq(Symbol), NEW n \in 0..Len(s), Run(s)
    PROVE  Run(SubSeq(s, 1, n))
<1> DEFINE d == SubSeq(s, 1, n)
<1>1. d \in Seq(Symbol) /\ Len(d) = n /\ \A j \in 1..n : d[j] = s[j]
  BY BeginIsPart
<1>2. Len(s) \in Nat /\ DOMAIN s = 1..Len(s)
  BY SymbolFacts
<1>3. DOMAIN d = 1..n
  BY <1>1, SymbolFacts
<1> HIDE DEF d
<1>4. \A p \in DOMAIN d : p \in DOMAIN s /\ d[p] = s[p]
  BY <1>1, <1>2, <1>3
<1>5. \A p \in DOMAIN d : d[p][2] <= Header + size[d[p][1]]
  BY <1>4 DEF Run
<1>6. ASSUME NEW p \in DOMAIN d, NEW q \in DOMAIN d, p <= q
      PROVE  LET k == d[p][2] + (q - p)
                 last == Header + size[d[p][1]]
             IN /\ k <= last => d[q] = <<d[p][1], k>>
                /\ k > last => d[q][1] > d[p][1]
                /\ k = last + 1 => d[q][2] = 1
  BY <1>4, <1>6 DEF Run
<1>7. Run(d)
  BY <1>5, <1>6 DEF Run
<1> QED
  BY <1>7 DEF d

\* What is not read ends with the end of a message, so a message that is begun is there to its end.
LEMMA EndThere ==
    ASSUME TypeOK, NEW s \in Seq(Symbol), Run(s), s # <<>>, NEW i, NEW k, s[1] = <<i, k>>,
           NEW m, s[Len(s)] = End(m)
    PROVE  Header + size[i] - k + 1 \in DOMAIN s /\ s[Header + size[i] - k + 1] = End(i)
<1>1. /\ i \in Message /\ k \in Nat /\ k >= 1 /\ k <= Header + size[i]
      /\ \A q \in DOMAIN s : k + (q - 1) <= Header + size[i] => s[q] = <<i, k + (q - 1)>>
  BY FromHead
<1>2. DOMAIN s = 1..Len(s) /\ Len(s) \in Nat /\ Len(s) # 0
  BY SymbolFacts, EmptySeq
<1>3. size[i] \in Nat
  BY <1>1, Sizes
<1> DEFINE e == Header + size[i] - k + 1
<1>4. e \in Nat /\ e >= 1 /\ k + (e - 1) = Header + size[i]
  <2> DEFINE z == size[i]
  <2>1. k \in Nat /\ z \in Nat /\ k <= 3 + z
    BY <1>1, <1>3 DEF Header
  <2> HIDE DEF z
  <2>2. /\ 3 + z - k + 1 \in Nat /\ 3 + z - k + 1 >= 1
        /\ k + ((3 + z - k + 1) - 1) = 3 + z
    BY <2>1
  <2> QED
    BY <2>2 DEF z, Header
<1>5. e <= Len(s)
  <2>1. SUFFICES ASSUME Len(s) < e PROVE FALSE
    BY <1>2, <1>4
  <2>2. k + (Len(s) - 1) < Header + size[i] /\ Len(s) \in DOMAIN s
    BY <2>1, <1>1, <1>2, <1>3 DEF Header
  <2>3. s[Len(s)] = <<i, k + (Len(s) - 1)>>
    BY <1>1, <1>3, <2>2 DEF Header
  <2>4. i = m /\ k + (Len(s) - 1) = Header + size[m]
    BY <2>3 DEF End
  <2> QED
    BY <2>2, <2>4, <1>1, <1>2, <1>3 DEF Header
<1>6. e \in DOMAIN s
  BY <1>2, <1>4, <1>5
<1>7. s[e] = <<i, Header + size[i]>>
  <2>1. k + (e - 1) <= Header + size[i]
    <3>1. Header + size[i] \in Int
      BY <1>3 DEF Header
    <3> QED
      BY <1>4, <3>1
  <2>2. s[e] = <<i, k + (e - 1)>>
    BY <1>1, <1>6, <2>1
  <2> QED
    BY <1>4, <2>2
<1> QED
  BY <1>6, <1>7 DEF End

\* What a header says, and what lies behind it.
LEMMA HeaderFacts ==
    ASSUME TypeOK, NEW s \in Seq(Symbol), Run(s), s # <<>>, NEW i, s[1] = <<i, 1>>
    PROVE  /\ i \in Message /\ (HasMagic(s) <=> Len(s) >= 2)
           /\ Len(s) >= Header => LengthIn(s) = size[i] /\ CommandIn(s) = i
           /\ Len(s) < Header => LengthIn(s) = 0 /\ CommandIn(s) = None /\ AfterHeader(s) = <<>>
           /\ AfterHeader(s) \in Seq(Symbol)
           /\ Len(s) >= Header => EndOf(AfterHeader(s), s, Header) /\ Len(AfterHeader(s)) = Len(s) - Header
           /\ \A q \in DOMAIN s :
                /\ q <= Header + size[i] => s[q] = <<i, q>>
                /\ q > Header + size[i] => s[q][1] > i
                /\ q = Header + size[i] + 1 => s[q][2] = 1
<1>1. Len(s) \in Nat /\ DOMAIN s = 1..Len(s) /\ Len(s) # 0
  BY SymbolFacts, EmptySeq
<1>2. /\ i \in Message
      /\ \A q \in DOMAIN s :
            /\ 1 + (q - 1) <= Header + size[i] => s[q] = <<i, 1 + (q - 1)>>
            /\ 1 + (q - 1) > Header + size[i] => s[q][1] > i
            /\ 1 + (q - 1) = Header + size[i] + 1 => s[q][2] = 1
  BY FromHead
<1>3. size[i] \in Nat /\ size[i] >= 1
  BY <1>2, Sizes
<1>4. \A q \in DOMAIN s : 1 + (q - 1) = q
  BY <1>1
<1>5. \A q \in DOMAIN s :
            /\ q <= Header + size[i] => s[q] = <<i, q>>
            /\ q > Header + size[i] => s[q][1] > i
            /\ q = Header + size[i] + 1 => s[q][2] = 1
  BY <1>2, <1>4
<1>6. HasMagic(s) <=> Len(s) >= 2
  <2>1. ASSUME Len(s) >= 2 PROVE s[2] = <<i, 2>>
    BY <1>1, <1>3, <1>5, <2>1 DEF Header
  <2> QED
    BY <2>1 DEF HasMagic
<1>7. ASSUME Len(s) >= Header PROVE LengthIn(s) = size[i] /\ CommandIn(s) = i
  <2>1. s[3] = <<i, 3>>
    BY <1>1, <1>3, <1>5, <1>7 DEF Header
  <2> QED
    BY <1>1, <1>7, <2>1 DEF LengthIn, CommandIn, Header
<1>8. ASSUME Len(s) >= Header
      PROVE  /\ AfterHeader(s) \in Seq(Symbol)
             /\ EndOf(AfterHeader(s), s, Header) /\ Len(AfterHeader(s)) = Len(s) - Header
  <2>1. Header \in 0..Len(s)
    BY <1>1, <1>8 DEF Header
  <2> QED
    BY <2>1, EndIsPart DEF AfterHeader
<1>9. ASSUME Len(s) < Header PROVE LengthIn(s) = 0 /\ CommandIn(s) = None /\ AfterHeader(s) = <<>>
  <2>1. Header + 1 > Len(s)
    BY <1>1, <1>9 DEF Header
  <2> QED
    BY <1>9, <2>1, <1>1, SubSeqEmpty DEF LengthIn, CommandIn, AfterHeader, Header
<1>10. AfterHeader(s) \in Seq(Symbol)
  <2>1. <<>> \in Seq(Symbol)
    BY EmptySeq
  <2>2. Len(s) >= Header \/ Len(s) < Header
    BY <1>1 DEF Header
  <2> QED
    BY <1>8, <1>9, <2>1, <2>2
<1> QED
  BY <1>2, <1>5, <1>6, <1>7, <1>8, <1>9, <1>10

(***************************************************************************)
(* What is handed on lies before what has not been dealt with.             *)
(***************************************************************************)
\* qs is ps with x behind it.
OneMore(qs, ps, x) ==
    Len(qs) = Len(ps) + 1 /\ qs[Len(ps) + 1] = x /\ \A k \in 1..Len(ps) : qs[k] = ps[k]

LEMMA FoundType ==
    ASSUME NEW ps \in Seq((Message \union {None}) \X Message), NEW cmd \in Message \union {None}, NEW data,
           IsBody(data) => data[1][1] \in Message
    PROVE  /\ ps \o Found(cmd, data) \in Seq((Message \union {None}) \X Message)
           /\ ~(IsBody(data)) => ps \o Found(cmd, data) = ps
           /\ IsBody(data) => OneMore(ps \o Found(cmd, data), ps, <<cmd, data[1][1]>>)
<1> DEFINE S == (Message \union {None}) \X Message
<1>1. CASE IsBody(data)
  <2> DEFINE x == <<cmd, data[1][1]>>
  <2>1. x \in S
    BY <1>1
  <2>2. Found(cmd, data) = <<x>>
    BY <1>1 DEF Found, IsBody
  <2> HIDE DEF x, S
  <2>3. ps \in Seq(S)
    BY DEF S
  <2>4. <<x>> \in Seq(S) /\ Len(<<x>>) = 1 /\ <<x>>[1] = x
    BY <2>1
  <2>5. /\ ps \o <<x>> \in Seq(S) /\ Len(ps \o <<x>>) = Len(ps) + Len(<<x>>)
        /\ \A i \in 1..(Len(ps) + Len(<<x>>)) : (ps \o <<x>>)[i] = IF i <= Len(ps) THEN ps[i] ELSE <<x>>[i - Len(ps)]
    BY <2>3, <2>4, ConcatProperties
  <2>6. Len(ps) \in Nat
    BY <2>3, LenProperties
  <2>7. (ps \o <<x>>)[Len(ps) + 1] = x
    BY <2>4, <2>5, <2>6
  <2>8. \A k \in 1..Len(ps) : (ps \o <<x>>)[k] = ps[k]
    BY <2>4, <2>5, <2>6
  <2> QED
    BY <1>1, <2>2, <2>4, <2>5, <2>7, <2>8 DEF x, S, OneMore
<1>2. CASE ~(IsBody(data))
  <2>1. Found(cmd, data) = <<>>
    BY <1>2 DEF Found, IsBody
  <2> QED
    BY <1>2, <2>1, ConcatEmptySeq
<1> QED
  BY <1>1, <1>2

\* Behind the last symbol of a message lie later ones only.
LEMMA Behind ==
    ASSUME TypeOK, NEW s \in Seq(Symbol), NEW t \in Seq(Symbol), Run(s), NEW a \in Nat, EndOf(t, s, a),
           NEW i, NEW p \in DOMAIN s, p <= a, s[p] = End(i)
    PROVE  i \in Message /\ (\A q \in DOMAIN t : i < t[q][1]) /\ ~Has(t, i)
<1>1. /\ Len(s) \in Nat /\ DOMAIN s = 1..Len(s) /\ Len(t) \in Nat /\ DOMAIN t = 1..Len(t)
      /\ \A q \in DOMAIN t : a + q \in DOMAIN s /\ t[q] = s[a + q]
      /\ s[p][1] \in Message
  <2>1. Len(s) \in Nat /\ DOMAIN s = 1..Len(s) /\ Len(t) \in Nat /\ DOMAIN t = 1..Len(t) /\ s[p][1] \in Message
    BY SymbolFacts
  <2> QED
    BY <2>1 DEF EndOf
<1>2. i \in Message /\ i \in Nat /\ size[i] \in Nat /\ s[p][1] = i /\ s[p][2] = Header + size[i]
  <2>1. s[p][1] = i /\ s[p][2] = Header + size[i]
    BY DEF End
  <2> QED
    BY <1>1, <2>1, Sizes
<1>3. ASSUME NEW q \in DOMAIN t PROVE i < t[q][1]
  <2>1. a + q \in DOMAIN s /\ t[q] = s[a + q] /\ p <= a + q /\ (a + q) - p >= 1
    BY <1>1
  <2>2. s[p][2] + ((a + q) - p) > Header + size[s[p][1]]
    BY <1>1, <1>2, <2>1 DEF Header
  <2>3. s[a + q][1] > s[p][1]
    BY <2>1, <2>2 DEF Run
  <2>4. s[a + q][1] \in Nat
    BY <2>1, SymbolFacts
  <2> QED
    BY <1>2, <2>1, <2>3, <2>4
<1>4. \A q \in DOMAIN t : t[q][1] # i
  <2>1. \A q \in DOMAIN t : t[q][1] \in Nat
    BY SymbolFacts
  <2> QED
    BY <1>2, <1>3, <2>1
<1> QED
  BY <1>2, <1>3, <1>4 DEF Has

\* A message whose last symbol has been dealt with may be handed on.
LEMMA FoundKeeps ==
    ASSUME TypeOK, NEW s \in Seq(Symbol), NEW t \in Seq(Symbol), Run(s), NEW a \in Nat, EndOf(t, s, a),
           NEW ps \in Seq((Message \union {None}) \X Message), NEW n \in Nat, Before(ps, s, n),
           NEW cmd \in Message \union {None}, NEW data,
           IsBody(data) =>
              /\ cmd \in {data[1][1], None}
              /\ \E p \in DOMAIN s : p <= a /\ s[p] = End(data[1][1])
    PROVE  /\ Before(ps \o Found(cmd, data), t, n)
           /\ ps \o Found(cmd, data) \in Seq((Message \union {None}) \X Message)
<1>1. Len(ps) \in Nat /\ DOMAIN ps = 1..Len(ps) /\ \A k \in DOMAIN ps : ps[k][2] \in Nat
  <2>1. Len(ps) \in Nat /\ DOMAIN ps = 1..Len(ps)
    BY LenProperties
  <2>2. \A k \in DOMAIN ps : ps[k] \in (Message \union {None}) \X Message
    BY <2>1, ElementOfSeq
  <2>3. Message \subseteq Nat
    BY DEF Message
  <2> QED
    BY <2>1, <2>2, <2>3
<1>2. Before(ps, t, n)
  BY BeforeEnd
<1>3. CASE ~(IsBody(data))
  <2>1. ps \o Found(cmd, data) = ps
    BY <1>3, FoundType
  <2> QED
    BY <1>2, <2>1
<1>4. CASE IsBody(data)
  <2> DEFINE j == data[1][1]
             qs == ps \o Found(cmd, data)
  <2>1. PICK p \in DOMAIN s : p <= a /\ s[p] = End(j)
    BY <1>4
  <2>2. j \in Message /\ \A q \in DOMAIN t : j < t[q][1]
    BY <2>1, Behind
  <2>3. s[p][1] = j
    BY <2>1 DEF End
  <2>4. /\ qs \in Seq((Message \union {None}) \X Message)
        /\ Len(qs) = Len(ps) + 1 /\ qs[Len(ps) + 1] = <<cmd, j>> /\ \A k \in 1..Len(ps) : qs[k] = ps[k]
    <3>1. data[1][1] \in Message
      BY <2>2
    <3>2. /\ ps \o Found(cmd, data) \in Seq((Message \union {None}) \X Message)
          /\ IsBody(data) => OneMore(ps \o Found(cmd, data), ps, <<cmd, data[1][1]>>)
      BY <3>1, FoundType
    <3> QED
      BY <1>4, <3>2 DEF OneMore
  <2>5. DOMAIN qs = 1..(Len(ps) + 1)
    BY <2>4, LenProperties
  <2> HIDE DEF j, qs
  <2>6. cmd \in {j, None}
    BY <1>4 DEF j
  <2>7. j <= n /\ \A k \in DOMAIN ps : ps[k][2] < j
    BY <2>1, <2>3 DEF Before
  <2>8. \A k \in DOMAIN qs : \/ k \in DOMAIN ps /\ qs[k] = ps[k]
                             \/ k = Len(ps) + 1 /\ qs[k][1] = cmd /\ qs[k][2] = j
    BY <1>1, <2>4, <2>5
  <2>9. ASSUME NEW k \in DOMAIN qs
         PROVE  /\ qs[k][1] \in {qs[k][2], None} /\ qs[k][2] <= n
                /\ \A q \in DOMAIN t : qs[k][2] < t[q][1]
    BY <1>2, <2>2, <2>6, <2>7, <2>8 DEF Before
  <2>10. ASSUME NEW k \in DOMAIN qs, NEW l \in DOMAIN qs, k < l
         PROVE  qs[k][2] < qs[l][2]
    <3>1. k \in DOMAIN ps /\ qs[k] = ps[k]
      BY <1>1, <2>5, <2>8, <2>10
    <3>2. CASE l \in DOMAIN ps /\ qs[l] = ps[l]
      BY <1>2, <2>10, <3>1, <3>2 DEF Before
    <3>3. CASE qs[l][2] = j
      BY <2>7, <3>1, <3>3
    <3> QED
      BY <2>8, <3>2, <3>3
  <2>11. \A q \in DOMAIN t : t[q][1] <= n
    BY <1>2 DEF Before
  <2>12. Before(qs, t, n)
    BY <2>9, <2>10, <2>11 DEF Before
  <2> QED
    BY <2>4, <2>12 DEF qs
<1> QED
  BY <1>3, <1>4

\* The position of the last symbol of the message i in what begins with its symbol k.
LastAt(i, k) == Header + size[i] - k + 1

LEMMA LastAtFacts ==
    ASSUME TypeOK, NEW i \in Message, NEW k \in Nat, k >= 1, k <= Header + size[i]
    PROVE  /\ LastAt(i, k) \in Nat /\ LastAt(i, k) >= 1
           /\ \A q \in Nat : /\ q <= LastAt(i, k) <=> k + (q - 1) <= Header + size[i]
                             /\ q = LastAt(i, k) <=> k + (q - 1) = Header + size[i]
                             /\ q = LastAt(i, k) + 1 <=> k + (q - 1) = Header + size[i] + 1
           /\ k = 1 => LastAt(i, k) = Header + size[i]
<1> DEFINE z == size[i]
<1>1. z \in Nat /\ k <= 3 + z
  BY Sizes DEF Header
<1> HIDE DEF z
<1> DEFINE e == 3 + z - k + 1
<1>2. e \in Nat /\ e >= 1
  BY <1>1
<1>3. \A q \in Nat : /\ q <= e <=> k + (q - 1) <= 3 + z
                     /\ q = e <=> k + (q - 1) = 3 + z
                     /\ q = e + 1 <=> k + (q - 1) = 3 + z + 1
  BY <1>1
<1>4. k = 1 => e = 3 + z
  BY <1>1
<1>5. LastAt(i, k) = e
  BY DEF z, LastAt, Header
<1> HIDE DEF e
<1> QED
  BY <1>2, <1>3, <1>4, <1>5 DEF z, Header

HeadIs(s, i, k) ==
    \A q \in DOMAIN s :
        /\ q <= LastAt(i, k) => s[q] = <<i, k + (q - 1)>>
        /\ q = LastAt(i, k) => s[q] = End(i)
        /\ q < LastAt(i, k) => s[q][2] < Header + size[i]
        /\ q > LastAt(i, k) => s[q][1] > i
        /\ q = LastAt(i, k) + 1 => s[q][2] = 1

\* FromHead, by positions.
LEMMA FromHeadAt ==
    ASSUME TypeOK, NEW s \in Seq(Symbol), Run(s), s # <<>>, NEW i, NEW k, s[1] = <<i, k>>
    PROVE  /\ i \in Message /\ k \in Nat /\ k >= 1 /\ k <= Header + size[i] /\ 1 \in DOMAIN s
           /\ LastAt(i, k) \in Nat /\ LastAt(i, k) >= 1
           /\ HeadIs(s, i, k)
<1>1. /\ i \in Message /\ k \in Nat /\ k >= 1 /\ k <= Header + size[i] /\ 1 \in DOMAIN s
      /\ \A q \in DOMAIN s :
            /\ k + (q - 1) <= Header + size[i] => s[q] = <<i, k + (q - 1)>>
            /\ k + (q - 1) > Header + size[i] => s[q][1] > i
            /\ k + (q - 1) = Header + size[i] + 1 => s[q][2] = 1
  BY FromHead
<1>2. /\ LastAt(i, k) \in Nat /\ LastAt(i, k) >= 1
      /\ \A q \in Nat : /\ q <= LastAt(i, k) <=> k + (q - 1) <= Header + size[i]
                        /\ q = LastAt(i, k) <=> k + (q - 1) = Header + size[i]
                        /\ q = LastAt(i, k) + 1 <=> k + (q - 1) = Header + size[i] + 1
  BY <1>1, LastAtFacts
<1>3. DOMAIN s \subseteq Nat
  BY SymbolFacts
<1>4. size[i] \in Nat
  BY <1>1, Sizes
<1>5. ASSUME NEW q \in DOMAIN s
      PROVE  /\ q <= LastAt(i, k) => s[q] = <<i, k + (q - 1)>>
             /\ q = LastAt(i, k) => s[q] = End(i)
             /\ q < LastAt(i, k) => s[q][2] < Header + size[i]
             /\ q > LastAt(i, k) => s[q][1] > i
             /\ q = LastAt(i, k) + 1 => s[q][2] = 1
  <2>0. q \in Nat
    BY <1>3
  <2>1. q <= LastAt(i, k) => s[q] = <<i, k + (q - 1)>>
    BY <1>1, <1>2, <2>0
  <2>2. ASSUME q = LastAt(i, k) PROVE s[q] = End(i)
    <3>1. q <= LastAt(i, k)
      BY <2>0, <2>2
    <3>2. k + (q - 1) = Header + size[i]
      BY <1>2, <2>0, <2>2
    <3> QED
      BY <2>1, <3>1, <3>2 DEF End
  <2>3. ASSUME q < LastAt(i, k) PROVE s[q][2] < Header + size[i]
    <3>1. q <= LastAt(i, k) /\ q # LastAt(i, k)
      BY <1>2, <2>0, <2>3
    <3>2. k + (q - 1) <= Header + size[i] /\ k + (q - 1) # Header + size[i]
      BY <1>2, <2>0, <3>1
    <3>3. s[q][2] = k + (q - 1)
      BY <2>1, <3>1
    <3>4. Header + size[i] \in Nat /\ k + (q - 1) \in Int
      BY <1>1, <1>4, <2>0 DEF Header
    <3> QED
      BY <3>2, <3>3, <3>4
  <2>4. ASSUME q > LastAt(i, k) PROVE s[q][1] > i
    <3>1. ~(q <= LastAt(i, k))
      BY <1>2, <2>0, <2>4
    <3>2. ~(k + (q - 1) <= Header + size[i])
      BY <1>2, <2>0, <3>1
    <3>3. k + (q - 1) > Header + size[i]
      BY <1>1, <1>4, <2>0, <3>2, SMTT(20) DEF Header
    <3> QED
      BY <1>1, <3>3
  <2>5. q = LastAt(i, k) + 1 => s[q][2] = 1
    BY <1>1, <1>2, <2>0
  <2> QED
    BY <2>1, <2>2, <2>3, <2>4, <2>5
<1> QED
  BY <1>1, <1>2, <1>5 DEF HeadIs

\* The first tail is the end of the message whose middle is read.
LEMMA TailFacts ==
    ASSUME TypeOK, NEW d \in Seq(Symbol), Run(d), d # <<>>, NEW i, NEW k, d[1] = <<i, k>>
    PROVE  /\ Tails(d) # {} => LastAt(i, k) <= Len(d) - 2 /\ Min(Tails(d)) = LastAt(i, k)
           /\ LastAt(i, k) <= Len(d) - 2 => Tails(d) # {}
<1> DEFINE e == LastAt(i, k)
<1>1. /\ i \in Message /\ k \in Nat /\ k >= 1 /\ k <= Header + size[i] /\ 1 \in DOMAIN d
      /\ e \in Nat /\ e >= 1
      /\ \A q \in DOMAIN d :
            /\ q <= e => d[q] = <<i, k + (q - 1)>>
            /\ q = e => d[q] = End(i)
            /\ q < e => d[q][2] < Header + size[i]
            /\ q = e + 1 => d[q][2] = 1
  BY FromHeadAt DEF HeadIs
<1>2. DOMAIN d = 1..Len(d) /\ Len(d) \in Nat /\ \A p \in DOMAIN d : d[p][1] \in Message
  BY SymbolFacts
<1>3. size[i] \in Nat
  BY <1>1, Sizes
<1> HIDE DEF e
<1>4. ASSUME NEW q \in Tails(d) PROVE q >= e /\ q \in Nat /\ q <= Len(d) - 2
  <2>1. q \in 1..(Len(d) - 2) /\ d[q] = End(d[q][1])
    BY DEF Tails
  <2>2. q \in DOMAIN d /\ q \in Nat /\ q <= Len(d) - 2
    BY <1>2, <2>1
  <2>3. ASSUME q < e PROVE FALSE
    <3>1. d[q] = <<i, k + (q - 1)>> /\ d[q][2] < Header + size[i]
      BY <1>1, <2>2, <2>3
    <3>2. d[q][1] = i
      BY <3>1
    <3>3. d[q][2] = Header + size[i]
      BY <2>1, <3>2 DEF End
    <3> QED
      BY <1>3, <3>1, <3>3 DEF Header
  <2> QED
    BY <1>1, <2>2, <2>3
<1>5. ASSUME e <= Len(d) - 2 PROVE e \in Tails(d)
  <2>1. e \in 1..(Len(d) - 2) /\ e \in DOMAIN d /\ e + 1 \in DOMAIN d /\ e + 2 \in DOMAIN d
    BY <1>1, <1>2, <1>5
  <2>2. d[e] = End(i) /\ d[e + 1][2] = 1
    BY <1>1, <2>1
  <2>3. d[e][1] = i
    BY <2>2 DEF End
  <2>4. d[e + 2][2] = 2
    <3>1. size[d[e + 1][1]] \in Nat /\ size[d[e + 1][1]] >= 1
      BY <1>2, <2>1, Sizes
    <3>2. (e + 2) - (e + 1) = 1 /\ e + 1 <= e + 2
      BY <1>1
    <3>3. d[e + 1][2] + ((e + 2) - (e + 1)) = 2
      BY <2>2, <3>2
    <3>4. 2 <= Header + size[d[e + 1][1]]
      BY <3>1 DEF Header
    <3>5. d[e + 2] = <<d[e + 1][1], 2>>
      BY <2>1, <3>2, <3>3, <3>4 DEF Run
    <3> QED
      BY <3>5
  <2> QED
    BY <2>1, <2>2, <2>3, <2>4 DEF Tails
<1>6. ASSUME Tails(d) # {} PROVE e <= Len(d) - 2 /\ Min(Tails(d)) = e
  <2>1. PICK q \in Tails(d) : TRUE
    BY <1>6
  <2>2. e <= Len(d) - 2
    BY <1>1, <1>2, <1>4, <2>1
  <2>3. e \in Tails(d) /\ \A x \in Tails(d) : e <= x
    BY <1>1, <1>4, <1>5, <2>2
  <2>4. \A x \in Tails(d) : (\A y \in Tails(d) : x <= y) => x = e
    BY <1>1, <1>4, <2>3
  <2> QED
    BY <2>2, <2>3, <2>4 DEF Min
<1> QED
  BY <1>5, <1>6 DEF e

\* What has been handed on stays so.
LEMMA FoundAdds ==
    ASSUME NEW ps \in Seq((Message \union {None}) \X Message), NEW cmd \in Message \union {None}, NEW data,
           IsBody(data) => data[1][1] \in Message
    PROVE  /\ Extends(ps \o Found(cmd, data), ps)
           /\ IsBody(data) /\ data[1][1] = cmd => Handed(ps \o Found(cmd, data), cmd)
<1>1. CASE IsBody(data)
  <2> DEFINE qs == ps \o Found(cmd, data)
  <2>1. ps \o Found(cmd, data) \in Seq((Message \union {None}) \X Message)
    BY FoundType
  <2>2. OneMore(ps \o Found(cmd, data), ps, <<cmd, data[1][1]>>)
    BY <1>1, FoundType
  <2>3. /\ qs \in Seq((Message \union {None}) \X Message)
        /\ Len(qs) = Len(ps) + 1 /\ qs[Len(ps) + 1] = <<cmd, data[1][1]>> /\ \A k \in 1..Len(ps) : qs[k] = ps[k]
    BY <2>1, <2>2 DEF OneMore
  <2> HIDE DEF qs
  <2>4. Len(ps) \in Nat /\ DOMAIN ps = 1..Len(ps) /\ DOMAIN qs = 1..Len(qs)
    BY <2>3, LenProperties
  <2>5. Len(ps) + 1 \in DOMAIN qs /\ \A k \in DOMAIN ps : k \in DOMAIN qs /\ qs[k] = ps[k]
    BY <2>3, <2>4
  <2>6. Extends(qs, ps) /\ (data[1][1] = cmd => Handed(qs, cmd))
    BY <2>3, <2>5 DEF Extends, Handed
  <2> QED
    BY <2>6 DEF qs
<1>2. CASE ~IsBody(data)
  <2>1. ps \o Found(cmd, data) = ps
    BY <1>2, FoundType
  <2>2. Extends(ps, ps)
    BY DEF Extends
  <2> QED
    BY <1>2, <2>1, <2>2
<1> QED
  BY <1>1, <1>2

LEMMA StillHanded ==
    ASSUME NEW ps, NEW qs, NEW i, Handed(ps, i), Extends(qs, ps)
    PROVE  Handed(qs, i)
BY DEF Handed, Extends

LEMMA PartHas ==
    ASSUME NEW s \in Seq(Symbol), NEW t \in Seq(Symbol), NEW a \in Nat, EndOf(t, s, a), NEW i, ~Has(s, i)
    PROVE  ~Has(t, i)
<1>1. /\ Len(s) \in Nat /\ DOMAIN s = 1..Len(s) /\ Len(t) \in Nat /\ DOMAIN t = 1..Len(t)
  BY SymbolFacts
<1>2. \A q \in DOMAIN t : a + q \in DOMAIN s /\ t[q] = s[a + q]
  BY <1>1 DEF EndOf
<1> QED
  BY <1>2 DEF Has

\* A body begins and ends where its message says.
LEMMA BodyFacts ==
    ASSUME TypeOK, NEW data \in Seq(Symbol), IsBody(data)
    PROVE  /\ data[1][1] \in Message /\ Len(data) = size[data[1][1]] /\ 1 \in DOMAIN data
           /\ data[1][2] = Header + 1 /\ data[Len(data)] = End(data[1][1])
<1> DEFINE j == data[1][1]
<1>1. Len(data) \in Nat /\ DOMAIN data = 1..Len(data) /\ Len(data) # 0 /\ data = Body(j)
  BY SymbolFacts, EmptySeq DEF IsBody
<1>2. 1 \in DOMAIN data
  BY <1>1
<1>3. j \in Message
  BY <1>2, SymbolFacts
<1>4. size[j] \in Nat /\ size[j] >= 1
  BY <1>3, Sizes
<1> HIDE DEF j
<1>5. DOMAIN data = 1..size[j] /\ \A p \in 1..size[j] : data[p] = <<j, Header + p>>
  BY <1>1 DEF Body
<1>6. Len(data) = size[j]
  BY <1>1, <1>4, <1>5
<1>7. data[1] = <<j, Header + 1>> /\ data[size[j]] = <<j, Header + size[j]>>
  BY <1>4, <1>5
<1> QED
  BY <1>2, <1>3, <1>6, <1>7 DEF End, j

LEMMA BodyIsBody ==
    ASSUME TypeOK, NEW i \in Message
    PROVE  /\ Body(i) \in Seq(Symbol) /\ IsBody(Body(i)) /\ Body(i)[1][1] = i /\ Len(Body(i)) = size[i]
<1>1. size[i] \in Nat /\ size[i] >= 1 /\ size[i] <= MaxSize
  BY Sizes
<1>2. MaxSize \in Nat
  BY ConstantsAssumption
<1>3. \A p \in 1..size[i] : <<i, Header + p>> \in Symbol
  BY <1>1, <1>2 DEF Symbol, Header
<1>4. Body(i) \in Seq(Symbol)
  BY <1>1, <1>3, IsASeq DEF Body
<1>5. DOMAIN Body(i) = 1..size[i] /\ Body(i)[1] = <<i, Header + 1>>
  BY <1>1 DEF Body
<1>6. Len(Body(i)) \in Nat /\ DOMAIN Body(i) = 1..Len(Body(i))
  BY <1>4, SymbolFacts
<1>7. Len(Body(i)) = size[i]
  BY <1>1, <1>5, <1>6
<1>8. Body(i) # <<>>
  BY <1>1, <1>7, EmptySeq
<1> QED
  BY <1>4, <1>5, <1>7, <1>8 DEF IsBody
----------------------------------------------------------------------------
(***************************************************************************)
(* A read of the first n symbols of coming.                                *)
(***************************************************************************)
LEMMA ReadFacts ==
    ASSUME IInv, rest = <<>>, NEW n \in 1..Len(coming), NEW d, d = SubSeq(coming, 1, n),
           NEW c, c = SubSeq(coming, n + 1, Len(coming))
    PROVE  /\ Unread = coming /\ coming \in Seq(Symbol) /\ coming # <<>> /\ Run(coming) /\ Before(parsed, coming, sent)
           /\ d \in Seq(Symbol) /\ d # <<>> /\ Len(d) = n /\ Run(d) /\ DOMAIN d = 1..n
           /\ \A p \in 1..n : p \in DOMAIN coming /\ d[p] = coming[p]
           /\ d[1] = coming[1] /\ coming[1] = <<coming[1][1], coming[1][2]>>
           /\ coming[Len(coming)] = End(sent)
           /\ c \in Seq(Symbol) /\ EndOf(c, coming, n) /\ d \o c = coming
           /\ n \in Nat /\ n >= 1 /\ Len(coming) \in Nat /\ n <= Len(coming) /\ DOMAIN coming = 1..Len(coming)
<1>1. coming \in Seq(Symbol) /\ rest \in Seq(Symbol) /\ parsed \in Seq((Message \union {None}) \X Message)
  BY DEF IInv, TypeOK
<1>2. Unread = coming
  BY <1>1, ConcatEmptySeq DEF Unread
<1>3. Len(coming) \in Nat /\ DOMAIN coming = 1..Len(coming) /\ n \in Nat /\ n >= 1 /\ n <= Len(coming) /\ n \in 0..Len(coming)
  BY <1>1, SymbolFacts
<1>4. coming # <<>>
  BY <1>3, EmptySeq
<1>5. Run(coming) /\ coming[Len(coming)] = End(sent) /\ Before(parsed, coming, sent)
  BY <1>2, <1>4 DEF IInv, Contiguous
<1>6. d \in Seq(Symbol) /\ Len(d) = n /\ \A p \in 1..n : d[p] = coming[p]
  BY <1>1, <1>3, BeginIsPart
<1>7. d # <<>> /\ DOMAIN d = 1..n
  BY <1>3, <1>6, EmptySeq, SymbolFacts
<1>8. Run(d)
  BY <1>1, <1>3, <1>5, RunOfBegin
<1>9. c \in Seq(Symbol) /\ EndOf(c, coming, n)
  BY <1>1, <1>3, EndIsPart
<1>10. d \o c = coming
  <2>1. 1 \in 1..(Len(coming) + 1) /\ n \in (1 - 1)..Len(coming) /\ Len(coming) \in n..Len(coming)
    BY <1>3
  <2>2. SubSeq(coming, 1, n) \o SubSeq(coming, n + 1, Len(coming)) = SubSeq(coming, 1, Len(coming))
    BY <1>1, <2>1, ConcatAdjacentSubSeq
  <2> QED
    BY <1>1, <2>2, SubSeqFull
<1>11. \A p \in 1..n : p \in DOMAIN coming
  BY <1>3
<1>12. 1 \in 1..n
  BY <1>3
<1>13. coming[1] = <<coming[1][1], coming[1][2]>>
  BY <1>1, <1>11, <1>12, SymbolFacts
<1> QED
  BY <1>1, <1>2, <1>3, <1>4, <1>5, <1>6, <1>7, <1>8, <1>9, <1>10, <1>11, <1>12, <1>13

\* m_msgData with what is read: what it begins and ends with.
LEMMA WholeFacts ==
    ASSUME IInv, rest = <<>>, NEW m \in 1..Len(coming), NEW whole, whole = m_msgData \o SubSeq(coming, 1, m)
    PROVE  /\ whole \in Seq(Symbol) /\ whole # <<>> /\ Len(whole) = Len(m_msgData) + m
           /\ \A p \in 1..m : whole[Len(m_msgData) + p] = coming[p]
           /\ \A p \in 1..Len(m_msgData) : whole[p] = m_msgData[p]
           /\ whole[1][2] = Header + 1 => m_cmdType \in {whole[1][1], None}
           /\ IsBody(whole) => m_cmdType \in {whole[1][1], None} /\ coming[m] = End(whole[1][1])
<1> DEFINE d == SubSeq(coming, 1, m)
<1>1. coming \in Seq(Symbol) /\ m_msgData \in Seq(Symbol) /\ TypeOK
  BY DEF IInv, TypeOK
<1>2. Len(coming) \in Nat /\ Len(m_msgData) \in Nat /\ m \in Nat /\ m >= 1 /\ m \in 0..Len(coming)
  BY <1>1, SymbolFacts
<1>3. d \in Seq(Symbol) /\ Len(d) = m /\ \A p \in 1..m : d[p] = coming[p]
  BY <1>1, <1>2, BeginIsPart
<1> HIDE DEF d
<1>4. /\ whole \in Seq(Symbol) /\ Len(whole) = Len(m_msgData) + m
      /\ \A p \in 1..(Len(m_msgData) + m) :
            whole[p] = IF p <= Len(m_msgData) THEN m_msgData[p] ELSE d[p - Len(m_msgData)]
  <2>1. whole = m_msgData \o d
    BY DEF d
  <2> QED
    BY <2>1, <1>1, <1>3, ConcatProperties
<1>5. whole # <<>>
  BY <1>2, <1>4, EmptySeq
<1>6. ASSUME NEW p \in 1..m PROVE whole[Len(m_msgData) + p] = coming[p]
  <2>1. /\ Len(m_msgData) + p \in 1..(Len(m_msgData) + m) /\ ~(Len(m_msgData) + p <= Len(m_msgData))
        /\ (Len(m_msgData) + p) - Len(m_msgData) = p
    BY <1>2
  <2> QED
    BY <1>3, <1>4, <2>1
<1>7. ASSUME NEW p \in 1..Len(m_msgData) PROVE whole[p] = m_msgData[p]
  BY <1>2, <1>4
<1>8. ASSUME whole[1][2] = Header + 1 PROVE m_cmdType \in {whole[1][1], None}
  <2>1. CASE m_msgData # <<>>
    <3>1. 1 \in 1..Len(m_msgData)
      BY <1>1, <1>2, <2>1, EmptySeq
    <3>2. whole[1] = m_msgData[1]
      BY <1>7, <3>1
    <3> QED
      BY <1>8, <2>1, <3>2 DEF IInv, CmdKept
  <2>2. CASE m_msgData = <<>>
    <3>1. Len(m_msgData) = 0 /\ 1 \in 1..m /\ 0 + 1 = 1
      BY <1>2, <2>2, EmptySeq
    <3>2. whole[1] = coming[1]
      BY <1>6, <3>1
    <3>3. coming # <<>>
      BY <1>1, <1>2, EmptySeq
    <3>4. coming[1][2] # 1
      BY <1>8, <3>2 DEF Header
    <3>5. m_cmdType = None \/ coming[1] = <<m_cmdType, Header + 1>>
      BY <2>2, <3>3, <3>4 DEF IInv, CmdKept
    <3> QED
      BY <3>2, <3>5
  <2> QED
    BY <2>1, <2>2
<1>9. ASSUME IsBody(whole) PROVE m_cmdType \in {whole[1][1], None} /\ coming[m] = End(whole[1][1])
  <2>1. whole[1][2] = Header + 1 /\ whole[Len(whole)] = End(whole[1][1])
    BY <1>1, <1>4, <1>9, BodyFacts
  <2>2. m \in 1..m /\ Len(whole) = Len(m_msgData) + m
    BY <1>2, <1>4
  <2>3. whole[Len(whole)] = coming[m]
    BY <1>6, <2>2
  <2> QED
    BY <1>8, <2>1, <2>3
<1> QED
  BY <1>4, <1>5, <1>6, <1>7, <1>8, <1>9
----------------------------------------------------------------------------
(***************************************************************************)
(* The steps. What they leave unread is an end of what was.                *)
(***************************************************************************)
LEMMA StillContiguous ==
    ASSUME IInv, NEW s \in Seq(Symbol), s = Unread, NEW t \in Seq(Symbol), NEW a \in Nat, EndOf(t, s, a)
    PROVE  t = Unread' /\ size' = size /\ sent' = sent => Contiguous'
<1> SUFFICES ASSUME t = Unread', size' = size, sent' = sent PROVE Contiguous'
  OBVIOUS
<1>1. TypeOK /\ Run(s) /\ (s # <<>> => s[Len(s)] = End(sent))
  BY DEF IInv, Contiguous
<1>2. Run(t)
  BY <1>1, RunOfEnd
<1>3. ASSUME t # <<>> PROVE t[Len(t)] = End(sent)
  <2>1. Len(t) \in Nat /\ Len(t) # 0 /\ Len(s) \in Nat /\ Len(s) = a + Len(t)
    BY <1>3, EmptySeq, SymbolFacts DEF EndOf
  <2>2. t[Len(t)] = s[a + Len(t)] /\ s # <<>>
    BY <2>1, EmptySeq DEF EndOf
  <2> QED
    BY <1>1, <2>1, <2>2
<1>4. Run(t)'
  BY <1>2 DEF Run
<1>5. Unread' # <<>> => Unread'[Len(Unread')] = <<sent', Header + size'[sent']>>
  BY <1>3 DEF End
<1> QED
  BY <1>4, <1>5 DEF Contiguous, End

LEMMA Reading ==
    ASSUME TypeOK, NEW s \in Seq(Symbol)
    PROVE  /\ LengthIn(s) \in 0..MaxSize /\ LengthIn(s) \in Nat /\ CommandIn(s) \in Message \union {None}
           /\ AfterHeader(s) \in Seq(Symbol) /\ Len(AfterHeader(s)) \in Nat
<1>1. Len(s) \in Nat /\ DOMAIN s = 1..Len(s) /\ \A p \in DOMAIN s : s[p][1] \in Message
  BY SymbolFacts
<1>2. MaxSize \in Nat
  BY ConstantsAssumption
<1>3. CASE Len(s) < Header
  <2>1. Header + 1 > Len(s)
    BY <1>1, <1>3 DEF Header
  <2>2. AfterHeader(s) = <<>>
    BY <1>1, <2>1, SubSeqEmpty DEF AfterHeader, Header
  <2> QED
    BY <1>2, <1>3, <2>2, EmptySeq DEF LengthIn, CommandIn
<1>4. CASE ~(Len(s) < Header)
  <2>1. Header \in 0..Len(s) /\ Header \in DOMAIN s
    BY <1>1, <1>4 DEF Header
  <2>2. s[Header][1] \in Message
    BY <1>1, <2>1
  <2>3. size[s[Header][1]] \in 0..MaxSize /\ size[s[Header][1]] \in Nat
    BY <1>2, <2>2, Sizes
  <2>4. AfterHeader(s) \in Seq(Symbol)
    BY <2>1, EndIsPart DEF AfterHeader
  <2>5. Len(AfterHeader(s)) \in Nat
    BY <2>4, SymbolFacts
  <2> QED
    BY <1>4, <2>2, <2>3, <2>4, <2>5 DEF LengthIn, CommandIn
<1> QED
  BY <1>3, <1>4

\* A read of d that leaves c.
ReadPiece(d, c) ==
    /\ rest = <<>> /\ coming' = c /\ owed' = (owed \ Spoilt(d)) \union Expected(d)
    /\ UNCHANGED <<size, sent, breaks>>

LEMMA OwedInComing ==
    ASSUME IInv, rest = <<>>, NEW i \in owed
    PROVE  /\ i <= sent /\ ~Has(rest, i) /\ (Has(coming, i) => Partly(i))
           /\ ~Has(coming, i) => Handed(parsed, i)
<1>1. ~Has(rest, i)
  BY DEF Has
<1> QED
  BY <1>1 DEF IInv, OwedKept

LEMMA HeaderStep ==
    ASSUME IInv, rest = <<>>, NEW n \in 1..Len(coming), NEW d, d = SubSeq(coming, 1, n),
           NEW c, c = SubSeq(coming, n + 1, Len(coming)), HasMagic(d),
           NEW i, i = coming[1][1]
    PROVE  /\ d[1] = <<i, 1>> /\ coming[1] = <<i, 1>> /\ n >= 2 /\ i \in Message /\ i <= sent
           /\ \A p \in DOMAIN coming :
                /\ p <= Header + size[i] => coming[p] = <<i, p>>
                /\ p > Header + size[i] => coming[p][1] > i
                /\ p = Header + size[i] + 1 => coming[p][2] = 1
           /\ \A j \in owed : j <= sent /\ ~Has(coming, j) /\ Handed(parsed, j)
<1>1. /\ coming \in Seq(Symbol) /\ coming # <<>> /\ Run(coming) /\ Before(parsed, coming, sent)
      /\ d \in Seq(Symbol) /\ d # <<>> /\ Len(d) = n /\ Run(d)
      /\ d[1] = coming[1] /\ coming[1] = <<coming[1][1], coming[1][2]>>
      /\ n \in Nat /\ n >= 1 /\ \A p \in 1..n : p \in DOMAIN coming
  BY ReadFacts
<1>2. TypeOK
  BY DEF IInv
<1>3. d[1] = <<i, 1>> /\ coming[1] = <<i, 1>>
  BY <1>1 DEF HasMagic
<1>4. n >= 2
  BY <1>1 DEF HasMagic
<1>5. /\ i \in Message
      /\ \A p \in DOMAIN coming :
            /\ p <= Header + size[i] => coming[p] = <<i, p>>
            /\ p > Header + size[i] => coming[p][1] > i
            /\ p = Header + size[i] + 1 => coming[p][2] = 1
  BY <1>1, <1>2, <1>3, HeaderFacts
<1>6. i <= sent
  <2>1. 1 \in DOMAIN coming
    BY <1>1
  <2> QED
    BY <1>1, <1>3, <2>1 DEF Before
<1>7. ASSUME NEW j \in owed
      PROVE  j <= sent /\ ~Has(coming, j) /\ Handed(parsed, j)
  <2>1. ~Partly(j)
    BY <1>3 DEF Partly, Header
  <2> QED
    BY <2>1, OwedInComing
<1> QED
  BY <1>3, <1>4, <1>5, <1>6, <1>7

\* d holds the header of i and not the end of its body, or not even the header.
LEMMA HeaderPart ==
    ASSUME IInv, NEW n \in 1..Len(coming), NEW d, d = SubSeq(coming, 1, n),
           NEW c, c = SubSeq(coming, n + 1, Len(coming)), NEW i, i = coming[1][1], n < Header + size[i]
    PROVE  ReadPiece(d, c) /\ ReadHeader(d) => IInv'
<1> SUFFICES ASSUME ReadPiece(d, c), ReadHeader(d) PROVE IInv'
  OBVIOUS
<1>1. TypeOK /\ rest = <<>> /\ HasMagic(d)
  BY DEF IInv, ReadPiece, ReadHeader
<1>2. /\ Unread = coming /\ coming \in Seq(Symbol) /\ coming # <<>> /\ Run(coming) /\ Before(parsed, coming, sent)
      /\ d \in Seq(Symbol) /\ d # <<>> /\ Len(d) = n /\ Run(d) /\ DOMAIN d = 1..n
      /\ \A p \in 1..n : p \in DOMAIN coming /\ d[p] = coming[p]
      /\ coming[Len(coming)] = End(sent)
      /\ c \in Seq(Symbol) /\ EndOf(c, coming, n)
      /\ n \in Nat /\ Len(coming) \in Nat /\ DOMAIN coming = 1..Len(coming)
  BY <1>1, ReadFacts
<1>3. /\ d[1] = <<i, 1>> /\ coming[1] = <<i, 1>> /\ n >= 2 /\ i \in Message /\ i <= sent
      /\ \A p \in DOMAIN coming : p <= Header + size[i] => coming[p] = <<i, p>>
      /\ \A j \in owed : j <= sent /\ ~Has(coming, j) /\ Handed(parsed, j)
  BY <1>1, HeaderStep
<1>4. size[i] \in Nat /\ size[i] >= 1
  BY <1>1, <1>3, Sizes
<1>5. /\ Len(d) >= Header => LengthIn(d) = size[i] /\ CommandIn(d) = i
      /\ Len(d) < Header => LengthIn(d) = 0 /\ CommandIn(d) = None /\ AfterHeader(d) = <<>>
      /\ AfterHeader(d) \in Seq(Symbol)
      /\ Len(d) >= Header => EndOf(AfterHeader(d), d, Header) /\ Len(AfterHeader(d)) = Len(d) - Header
  BY <1>1, <1>2, <1>3, HeaderFacts
<1> DEFINE msg == AfterHeader(d)
<1>6. /\ m_msgData' = msg /\ m_msgLength' = LengthIn(d) /\ m_cmdType' = CommandIn(d)
      /\ parsed' = IF Len(msg) = LengthIn(d) THEN parsed \o Found(CommandIn(d), msg) ELSE parsed
      /\ rest' = IF Len(msg) > LengthIn(d) THEN d ELSE <<>>
      /\ coming' = c /\ owed' = (owed \ Spoilt(d)) \union Expected(d)
      /\ size' = size /\ sent' = sent /\ breaks' = breaks
  BY DEF ReadPiece, ReadHeader
<1>7. /\ LengthIn(d) \in 0..MaxSize /\ LengthIn(d) \in Nat /\ CommandIn(d) \in Message \union {None}
      /\ msg \in Seq(Symbol) /\ Len(msg) \in Nat
  BY <1>1, <1>2, Reading
<1> HIDE DEF msg
<1>8. parsed' = parsed /\ rest' = <<>>
  <2>1. CASE Len(d) < Header
    <3>1. msg = <<>> /\ LengthIn(d) = 0 /\ Len(msg) = 0
      BY <1>5, <2>1 DEF msg
    <3>2. Found(CommandIn(d), msg) = <<>>
      BY <3>1 DEF Found
    <3>3. parsed \o <<>> = parsed
      BY <1>1, ConcatEmptySeq DEF TypeOK
    <3>4. Len(msg) = LengthIn(d) /\ ~(Len(msg) > LengthIn(d))
      BY <3>1
    <3> QED
      BY <1>6, <3>2, <3>3, <3>4
  <2>2. CASE Len(d) >= Header
    <3>1. LengthIn(d) = size[i] /\ Len(msg) = n - Header
      BY <1>2, <1>5, <2>2 DEF msg
    <3>2. Len(msg) # LengthIn(d) /\ ~(Len(msg) > LengthIn(d))
      BY <1>2, <1>4, <3>1 DEF Header
    <3> QED
      BY <1>6, <3>2
  <2> QED
    BY <1>2, <2>1, <2>2 DEF Header
<1>9. Unread' = c
  BY <1>2, <1>6, <1>8, ConcatEmptySeq DEF Unread
<1>10. Contiguous'
  BY <1>2, <1>6, <1>9, StillContiguous
<1>11. Before(parsed', Unread', sent')
  <2>1. Before(parsed, c, sent)
    BY <1>2, BeforeEnd
  <2> QED
    BY <1>6, <1>8, <1>9, <2>1
<1>12. n + 1 \in DOMAIN coming /\ coming[n + 1] = <<i, n + 1>> /\ c # <<>> /\ c[1] = <<i, n + 1>>
  <2>1. n # Len(coming)
    <3>0. n \in DOMAIN coming /\ n <= Header + size[i]
      BY <1>2, <1>3, <1>4 DEF Header
    <3>1. coming[n] = <<i, n>>
      BY <1>3, <3>0
    <3>2. End(sent)[2] = Header + size[sent] /\ End(sent)[1] = sent
      BY DEF End
    <3>3. ASSUME n = Len(coming) PROVE FALSE
      <4>1. <<i, n>> = End(sent)
        BY <1>2, <3>1, <3>3
      <4>2. i = sent /\ n = Header + size[sent]
        BY <3>2, <4>1
      <4> QED
        BY <1>2, <1>4, <4>2 DEF Header
    <3> QED
      BY <3>3
  <2>2. n + 1 \in DOMAIN coming /\ n + 1 <= Header + size[i]
    <3>1. n \in 1..Len(coming) /\ n # Len(coming)
      BY <2>1
    <3>2. n + 1 \in 1..Len(coming)
      <4> DEFINE L == Len(coming)
      <4>1. n \in Nat /\ L \in Nat /\ n \in 1..L /\ n # L
        BY <1>2, <3>1
      <4> HIDE DEF L
      <4>2. n + 1 \in 1..L
        BY <4>1
      <4> QED
        BY <4>2 DEF L
    <3> QED
      BY <1>2, <1>4, <3>2 DEF Header
  <2>3. coming[n + 1] = <<i, n + 1>>
    BY <1>3, <2>2
  <2>4. c # <<>> /\ c[1] = coming[n + 1]
    <3>0. coming \in Seq(Symbol) /\ c \in Seq(Symbol) /\ n \in Nat /\ EndOf(c, coming, n)
      BY <1>2
    <3>1. n + 1 \in DOMAIN coming => c # <<>> /\ 1 \in DOMAIN c /\ c[1] = coming[n + 1]
      BY <3>0, EndBegins
    <3> QED
      BY <2>2, <3>1
  <2> QED
    BY <2>2, <2>3, <2>4
<1>13. \A j \in Message : End(j) \notin Range(d)
  <2>1. SUFFICES ASSUME NEW j \in Message, NEW p \in DOMAIN d, d[p] = End(j) PROVE FALSE
    BY DEF Range
  <2>2. p \in Nat /\ p <= n /\ p <= Header + size[i] /\ p \in DOMAIN coming
    BY <1>2, <1>4 DEF Header
  <2>3. <<i, p>> = End(j)
    BY <1>2, <1>3, <2>1, <2>2
  <2>4. i = j /\ p = Header + size[j]
    BY <2>3 DEF End
  <2> QED
    BY <1>2, <1>4, <2>2, <2>4 DEF Header
<1>14. \A j \in Expected(d) : j = i /\ n >= Header
  BY <1>2, <1>3, <1>13 DEF Expected
<1>15. ASSUME n < Header PROVE CmdKept' /\ OwedKept'
  <2>1. m_msgData' = <<>> /\ m_cmdType' = None
    BY <1>2, <1>5, <1>6, <1>15 DEF msg
  <2>2. CmdKept'
    BY <1>8, <2>1 DEF CmdKept
  <2>3. \A j \in owed' : j \in owed
    BY <1>2, <1>6, <1>14, <1>15 DEF Header
  <2>4. \A j \in owed' : j <= sent' /\ ~Has(rest', j) /\ ~Has(coming', j) /\ Handed(parsed', j)
    <3>1. \A j : ~Has(rest', j)
      BY <1>8 DEF Has
    <3>2. \A j : ~Has(coming, j) => ~Has(coming', j)
      BY <1>2, <1>6, PartHas
    <3> QED
      BY <1>3, <1>6, <1>8, <2>3, <3>1, <3>2
  <2>5. OwedKept'
    BY <2>4 DEF OwedKept
  <2> QED
    BY <2>2, <2>5
<1>16. ASSUME n >= Header PROVE CmdKept' /\ OwedKept'
  <2>1. /\ LengthIn(d) = size[i] /\ CommandIn(d) = i /\ Len(msg) = n - Header
        /\ \A p \in 1..Len(msg) : msg[p] = d[Header + p]
    BY <1>2, <1>5, <1>16 DEF msg, EndOf
  <2>2. \A p \in 1..(n - Header) : msg[p] = <<i, Header + p>>
    <3>1. SUFFICES ASSUME NEW p \in 1..(n - Header) PROVE msg[p] = <<i, Header + p>>
      OBVIOUS
    <3>2. Header + p \in 1..n /\ Header + p <= Header + size[i]
      BY <1>2, <1>4, <1>16 DEF Header
    <3> QED
      BY <1>2, <1>3, <2>1, <3>2
  <2>3. msg = BodyTo(i, n - Header)
    <3>1. DOMAIN msg = 1..(n - Header)
      BY <1>7, <2>1, SymbolFacts
    <3>2. msg = [p \in DOMAIN msg |-> msg[p]]
      BY <1>7
    <3> QED
      BY <2>2, <3>1, <3>2 DEF BodyTo
  <2>4. ASSUME msg = <<>> PROVE CmdKept'
    <3>1. n = Header
      BY <1>2, <2>1, <2>4, EmptySeq DEF Header
    <3>2. coming'[1] = <<m_cmdType', Header + 1>> /\ m_msgLength' = size'[m_cmdType']
      BY <1>6, <1>12, <2>1, <3>1
    <3> QED
      BY <1>6, <1>8, <2>4, <3>2 DEF CmdKept
  <2>5. ASSUME msg # <<>> PROVE CmdKept'
    <3>1. 1 \in 1..(n - Header)
      BY <1>7, <2>1, <2>5, EmptySeq
    <3>2. m_msgData'[1][1] = i
      BY <1>6, <2>2, <3>1
    <3> QED
      BY <1>6, <1>8, <2>1, <2>5, <3>2 DEF CmdKept
  <2>6. CmdKept'
    BY <2>4, <2>5
  <2>7. Partly(i)'
    <3>1. coming'[1][1] = i /\ coming'[1][2] = n + 1 /\ (n + 1) - 1 - Header = n - Header /\ n + 1 > Header
      BY <1>2, <1>6, <1>12, <1>16 DEF Header
    <3> QED
      BY <1>6, <1>8, <2>1, <2>3, <3>1 DEF Partly
  <2>8. ASSUME NEW j \in owed'
        PROVE  /\ j <= sent' /\ ~Has(rest', j) /\ (Has(coming', j) => Partly(j)')
               /\ ~Has(coming', j) => Handed(parsed', j)
    <3>1. ~Has(rest', j)
      BY <1>8 DEF Has
    <3>2. CASE j \in owed
      BY <1>2, <1>3, <1>6, <1>8, <3>1, <3>2, PartHas
    <3>3. CASE j = i
      <4>1. Has(c, i)
        <5>1. 1 \in DOMAIN c /\ c[1][1] = i
          BY <1>2, <1>12, EndFacts
        <5> QED
          BY <5>1 DEF Has
      <4> QED
        BY <1>3, <1>6, <2>7, <3>1, <3>3, <4>1
    <3> QED
      BY <1>6, <1>14, <3>2, <3>3
  <2>9. OwedKept'
    BY <2>8 DEF OwedKept
  <2> QED
    BY <2>6, <2>9
<1>17. CmdKept' /\ OwedKept'
  BY <1>2, <1>15, <1>16 DEF Header
<1>18. TypeOK'
  <2>1. c \in Seq(Symbol) /\ <<>> \in Seq(Symbol) /\ Expected(d) \subseteq Message
    BY <1>2, <1>3, <1>14, EmptySeq
  <2> QED
    BY <1>1, <1>6, <1>7, <1>8, <2>1 DEF TypeOK
<1> QED
  BY <1>10, <1>11, <1>17, <1>18 DEF IInv

LEMMA BehindHeader ==
    ASSUME TypeOK, NEW s \in Seq(Symbol), Run(s), s # <<>>, NEW i, s[1] = <<i, 1>>, Len(s) >= Header + size[i]
    PROVE  /\ SubSeq(AfterHeader(s), 1, size[i]) = Body(i)
           /\ Len(s) = Header + size[i] => AfterHeader(s) = Body(i)
           /\ SubSeq(AfterHeader(s), size[i] + 1, Len(AfterHeader(s))) \in Seq(Symbol)
           /\ EndOf(SubSeq(AfterHeader(s), size[i] + 1, Len(AfterHeader(s))), s, Header + size[i])
<1> DEFINE msg == AfterHeader(s)
<1>1. /\ i \in Message
      /\ msg \in Seq(Symbol) /\ (Len(s) >= Header => EndOf(msg, s, Header) /\ Len(msg) = Len(s) - Header)
      /\ \A q \in DOMAIN s : q <= Header + size[i] => s[q] = <<i, q>>
  BY HeaderFacts
<1>2. Len(s) \in Nat /\ DOMAIN s = 1..Len(s) /\ Len(msg) \in Nat /\ DOMAIN msg = 1..Len(msg)
  BY <1>1, SymbolFacts
<1>3. size[i] \in Nat /\ size[i] >= 1
  BY <1>1, Sizes
<1>4. EndOf(msg, s, Header) /\ Len(msg) = Len(s) - Header /\ Len(msg) >= size[i] /\ size[i] \in 0..Len(msg)
  <2>1. Len(s) >= Header
    BY <1>2, <1>3 DEF Header
  <2>2. EndOf(msg, s, Header) /\ Len(msg) = Len(s) - Header
    BY <1>1, <2>1
  <2>3. Len(msg) >= size[i]
    BY <1>2, <1>3, <2>2 DEF Header
  <2> QED
    BY <1>2, <1>3, <2>2, <2>3
<1> HIDE DEF msg
<1>5. ASSUME NEW p \in 1..size[i] PROVE p \in DOMAIN msg /\ msg[p] = <<i, Header + p>>
  <2>1. p \in 1..Len(msg) /\ Header + p \in DOMAIN s /\ Header + p <= Header + size[i]
    BY <1>2, <1>3, <1>4 DEF Header
  <2>2. msg[p] = s[Header + p]
    BY <1>4, <2>1 DEF EndOf
  <2> QED
    BY <1>1, <1>2, <2>1, <2>2
<1>6. SubSeq(msg, 1, size[i]) = Body(i)
  <2>1. /\ SubSeq(msg, 1, size[i]) \in Seq(Symbol) /\ Len(SubSeq(msg, 1, size[i])) = size[i]
        /\ \A j \in 1..size[i] : SubSeq(msg, 1, size[i])[j] = msg[j]
    BY <1>1, <1>4, BeginIsPart
  <2>2. Body(i) \in Seq(Symbol) /\ Len(Body(i)) = size[i]
    BY <1>1, BodyIsBody
  <2>3. \A j \in 1..size[i] : SubSeq(msg, 1, size[i])[j] = Body(i)[j]
    BY <1>5, <2>1 DEF Body
  <2> QED
    BY <2>1, <2>2, <2>3, SeqEqual
<1>7. ASSUME Len(s) = Header + size[i] PROVE msg = Body(i)
  <2>1. Len(msg) = size[i]
    BY <1>2, <1>3, <1>4, <1>7 DEF Header
  <2>2. SubSeq(msg, 1, Len(msg)) = msg
    BY <1>1, SubSeqFull
  <2> QED
    BY <1>6, <2>1, <2>2
<1>8. /\ SubSeq(msg, size[i] + 1, Len(msg)) \in Seq(Symbol)
      /\ EndOf(SubSeq(msg, size[i] + 1, Len(msg)), msg, size[i])
  BY <1>1, <1>4, EndIsPart
<1>9. EndOf(SubSeq(msg, size[i] + 1, Len(msg)), s, Header + size[i])
  <2>1. Header \in Nat
    BY DEF Header
  <2> QED
    BY <1>1, <1>3, <1>4, <1>8, <2>1, EndOfEnd
<1> QED
  BY <1>6, <1>7, <1>8, <1>9 DEF msg

\* d is the message i.
LEMMA HeaderWhole ==
    ASSUME IInv, NEW n \in 1..Len(coming), NEW d, d = SubSeq(coming, 1, n),
           NEW c, c = SubSeq(coming, n + 1, Len(coming)), NEW i, i = coming[1][1], n = Header + size[i]
    PROVE  ReadPiece(d, c) /\ ReadHeader(d) => IInv'
<1> SUFFICES ASSUME ReadPiece(d, c), ReadHeader(d) PROVE IInv'
  OBVIOUS
<1>1. TypeOK /\ rest = <<>> /\ HasMagic(d) /\ sent \in Nat /\ parsed \in Seq((Message \union {None}) \X Message)
  <2>1. TypeOK /\ rest = <<>> /\ HasMagic(d)
    BY DEF IInv, ReadPiece, ReadHeader
  <2> QED
    BY <2>1, ConstantsAssumption DEF TypeOK
<1>2. /\ Unread = coming /\ coming \in Seq(Symbol) /\ coming # <<>> /\ Run(coming) /\ Before(parsed, coming, sent)
      /\ d \in Seq(Symbol) /\ d # <<>> /\ Len(d) = n /\ Run(d) /\ DOMAIN d = 1..n
      /\ \A p \in 1..n : p \in DOMAIN coming /\ d[p] = coming[p]
      /\ c \in Seq(Symbol) /\ EndOf(c, coming, n)
      /\ n \in Nat /\ n >= 1
  BY <1>1, ReadFacts
<1>2n. n \in Nat /\ Len(d) = n /\ n <= n /\ n \in 1..n
  <2>1. n \in Nat /\ Len(d) = n /\ n >= 1
    BY <1>2
  <2> QED
    BY <2>1
<1>3. /\ d[1] = <<i, 1>> /\ coming[1] = <<i, 1>> /\ n >= 2 /\ i \in Message /\ i <= sent
      /\ \A p \in DOMAIN coming :
            /\ p <= Header + size[i] => coming[p] = <<i, p>>
            /\ p = Header + size[i] + 1 => coming[p][2] = 1
      /\ \A j \in owed : j <= sent /\ ~Has(coming, j) /\ Handed(parsed, j)
  BY <1>1, HeaderStep
<1>4. size[i] \in Nat /\ size[i] >= 1 /\ size[i] <= MaxSize
  BY <1>1, <1>3, Sizes
<1>5. LengthIn(d) = size[i] /\ CommandIn(d) = i
  <2>1. Len(d) >= Header
    BY <1>2n, <1>4 DEF Header
  <2> QED
    BY <1>1, <1>2, <1>3, <2>1, HeaderFacts
<1>6. AfterHeader(d) = Body(i)
  <2>1. Len(d) >= Header + size[i]
    BY <1>2n
  <2> QED
    BY <1>1, <1>2, <1>3, <2>1, BehindHeader
<1>7. Body(i) \in Seq(Symbol) /\ IsBody(Body(i)) /\ Body(i)[1][1] = i /\ Len(Body(i)) = size[i]
  BY <1>1, <1>3, BodyIsBody
<1>8. /\ m_msgData' = Body(i) /\ m_msgLength' = size[i] /\ m_cmdType' = i
      /\ parsed' = parsed \o Found(i, Body(i)) /\ rest' = <<>>
      /\ coming' = c /\ owed' = (owed \ Spoilt(d)) \union Expected(d)
      /\ size' = size /\ sent' = sent /\ breaks' = breaks
  <2>1. ~(size[i] > size[i])
    BY <1>4
  <2> QED
    BY <1>5, <1>6, <1>7, <2>1 DEF ReadPiece, ReadHeader
<1>9. Unread' = c
  BY <1>2, <1>8, ConcatEmptySeq DEF Unread
<1>10. Contiguous'
  BY <1>2, <1>8, <1>9, StillContiguous
<1>11. n \in DOMAIN coming /\ coming[n] = End(i)
  <2>1. n \in 1..n /\ n <= Header + size[i]
    BY <1>2n
  <2> QED
    BY <1>2, <1>3, <2>1 DEF End
<1>12. Before(parsed', c, sent) /\ parsed' \in Seq((Message \union {None}) \X Message)
  <2>1. /\ IsBody(Body(i)) => i \in {Body(i)[1][1], None} /\ \E p \in DOMAIN coming : p <= n /\ coming[p] = End(Body(i)[1][1])
        /\ i \in Message \union {None}
    <3>1. n <= n
      BY <1>2n
    <3> QED
      BY <1>3, <1>7, <1>11, <3>1
  <2>2. /\ n \in Nat /\ sent \in Nat /\ parsed \in Seq((Message \union {None}) \X Message) /\ TypeOK
        /\ coming \in Seq(Symbol) /\ c \in Seq(Symbol) /\ Run(coming) /\ EndOf(c, coming, n) /\ Before(parsed, coming, sent)
    BY <1>1, <1>2
  <2>3. /\ Before(parsed \o Found(i, Body(i)), c, sent)
        /\ parsed \o Found(i, Body(i)) \in Seq((Message \union {None}) \X Message)
    BY <2>1, <2>2, FoundKeeps
  <2> QED
    BY <1>8, <2>3
<1>13. Extends(parsed', parsed) /\ Handed(parsed', i)
  <2>1. i \in Message \union {None} /\ (IsBody(Body(i)) => Body(i)[1][1] \in Message)
    BY <1>3, <1>7
  <2>2. /\ Extends(parsed \o Found(i, Body(i)), parsed)
        /\ IsBody(Body(i)) /\ Body(i)[1][1] = i => Handed(parsed \o Found(i, Body(i)), i)
    BY <1>1, <2>1, FoundAdds
  <2> QED
    BY <1>7, <1>8, <2>2
<1>14. ~Has(c, i)
  <2>1. n <= n
    BY <1>2n
  <2> QED
    BY <1>1, <1>2, <1>11, <2>1, Behind
<1>15. \A j \in Expected(d) : j = i
  <2>1. SUFFICES ASSUME NEW j \in Message, NEW p \in DOMAIN d, d[p] = End(j) PROVE j = i
    BY <1>1, <1>3 DEF Expected, Range
  <2>2. p \in DOMAIN coming /\ p <= Header + size[i] /\ d[p] = coming[p]
    <3>1. p \in 1..n /\ n \in Nat
      BY <1>2
    <3>2. p \in DOMAIN coming /\ d[p] = coming[p]
      BY <1>2, <3>1
    <3>3. p <= n
      BY <3>1
    <3> QED
      BY <3>2, <3>3
  <2>3. End(j) = <<i, p>>
    BY <1>3, <2>1, <2>2
  <2> QED
    BY <2>3 DEF End
<1>16. CmdKept'
  <2>1. m_msgData' # <<>> /\ m_msgData'[1][1] = m_cmdType'
    BY <1>7, <1>8 DEF IsBody
  <2> QED
    BY <1>8, <2>1 DEF CmdKept
<1>17. ASSUME NEW j \in owed'
       PROVE  /\ j <= sent' /\ ~Has(rest', j) /\ ~Has(coming', j)
              /\ Handed(parsed', j)
  <2>1. ~Has(rest', j)
    BY <1>8 DEF Has
  <2>2. CASE j \in owed
    <3>1. ~Has(c, j)
      BY <1>2, <1>3, <2>2, PartHas
    <3>2. j <= sent /\ Handed(parsed, j)
      BY <1>3, <2>2
    <3> QED
      BY <1>8, <1>13, <2>1, <3>1, <3>2, StillHanded
  <2>3. CASE j = i
    BY <1>3, <1>8, <1>13, <1>14, <2>1, <2>3
  <2> QED
    BY <1>8, <1>15, <2>2, <2>3
<1>18. OwedKept'
  BY <1>17 DEF OwedKept
<1>19. TypeOK'
  <2>1. c \in Seq(Symbol) /\ <<>> \in Seq(Symbol) /\ Expected(d) \subseteq Message /\ size[i] \in 0..MaxSize
    <3>1. size[i] \in 0..MaxSize
      BY <1>4, ConstantsAssumption
    <3> QED
      BY <1>2, <1>3, <1>15, <3>1, EmptySeq
  <2> QED
    BY <1>1, <1>3, <1>7, <1>8, <1>12, <2>1 DEF TypeOK
<1> QED
  BY <1>8, <1>9, <1>10, <1>12, <1>16, <1>18, <1>19 DEF IInv

\* d is the message i and more.
LEMMA HeaderMore ==
    ASSUME IInv, NEW n \in 1..Len(coming), NEW d, d = SubSeq(coming, 1, n),
           NEW c, c = SubSeq(coming, n + 1, Len(coming)), NEW i, i = coming[1][1], n > Header + size[i]
    PROVE  ReadPiece(d, c) /\ ReadHeader(d) => IInv'
<1> SUFFICES ASSUME ReadPiece(d, c), ReadHeader(d) PROVE IInv'
  OBVIOUS
<1>1. TypeOK /\ rest = <<>> /\ HasMagic(d)
  BY DEF IInv, ReadPiece, ReadHeader
<1>2. /\ Unread = coming /\ coming \in Seq(Symbol) /\ coming # <<>> /\ Run(coming) /\ Before(parsed, coming, sent)
      /\ d \in Seq(Symbol) /\ d # <<>> /\ Len(d) = n /\ Run(d) /\ DOMAIN d = 1..n
      /\ \A p \in 1..n : p \in DOMAIN coming /\ d[p] = coming[p]
      /\ c \in Seq(Symbol) /\ EndOf(c, coming, n) /\ d \o c = coming
      /\ n \in Nat /\ n >= 1
  BY <1>1, ReadFacts
<1>3. /\ d[1] = <<i, 1>> /\ coming[1] = <<i, 1>> /\ n >= 2 /\ i \in Message /\ i <= sent
      /\ \A p \in DOMAIN coming : p <= Header + size[i] => coming[p] = <<i, p>>
      /\ \A j \in owed : j <= sent /\ ~Has(coming, j) /\ Handed(parsed, j)
  BY <1>1, HeaderStep
<1>4. size[i] \in Nat /\ size[i] >= 1 /\ size[i] <= MaxSize
  BY <1>1, <1>3, Sizes
<1>5. /\ LengthIn(d) = size[i] /\ CommandIn(d) = i
      /\ AfterHeader(d) \in Seq(Symbol) /\ EndOf(AfterHeader(d), d, Header) /\ Len(AfterHeader(d)) = n - Header
  <2>1. Len(d) >= Header
    BY <1>2, <1>4 DEF Header
  <2> QED
    BY <1>1, <1>2, <1>3, <2>1, HeaderFacts
<1>6. n - Header > size[i]
  BY <1>2, <1>4 DEF Header
<1>7. /\ m_msgData' = AfterHeader(d) /\ m_msgLength' = size[i] /\ m_cmdType' = i
      /\ parsed' = parsed /\ rest' = d
      /\ coming' = c /\ owed' = (owed \ Spoilt(d)) \union Expected(d)
      /\ size' = size /\ sent' = sent /\ breaks' = breaks
  <2>1. Len(AfterHeader(d)) > LengthIn(d) /\ Len(AfterHeader(d)) # LengthIn(d)
    BY <1>2, <1>4, <1>5, <1>6
  <2> QED
    BY <1>5, <2>1 DEF ReadPiece, ReadHeader
<1>8. Unread' = coming
  BY <1>2, <1>7 DEF Unread
<1>9. Contiguous'
  <2>1. EndOf(coming, coming, 0)
    BY <1>2, SymbolFacts DEF EndOf
  <2> QED
    BY <1>2, <1>7, <1>8, <2>1, StillContiguous
<1>10. m_msgData' # <<>> /\ m_msgData'[1][1] = i
  <2>1. Header + 1 \in DOMAIN d /\ Header + 1 \in 1..n /\ Header + 1 <= Header + size[i] /\ Header \in Nat
    BY <1>2, <1>4 DEF Header
  <2>2. AfterHeader(d) # <<>> /\ AfterHeader(d)[1] = d[Header + 1]
    <3>1. /\ d \in Seq(Symbol) /\ AfterHeader(d) \in Seq(Symbol) /\ Header \in Nat
          /\ EndOf(AfterHeader(d), d, Header) /\ Header + 1 \in DOMAIN d
      BY <1>2, <1>5, <2>1
    <3> QED
      BY <3>1, EndBegins
  <2>3. \A p \in DOMAIN d : p <= Header + size[i] => d[p][1] = i
    BY <1>2, <1>3
  <2>4. d[Header + 1][1] = i
    BY <2>1, <2>3
  <2>5. AfterHeader(d)[1][1] = i
    BY <2>2, <2>4
  <2> QED
    BY <1>7, <2>2, <2>5
<1>11. CmdKept'
  BY <1>7, <1>10 DEF CmdKept
<1>12. ASSUME NEW j \in Expected(d) PROVE j \in Message /\ \E p \in DOMAIN d : d[p] = End(j)
  <2>1. CASE j = i
    <3>1. Header + size[i] \in 1..n /\ Header + size[i] <= Header + size[i]
      BY <1>2, <1>4 DEF Header
    <3>2. d[Header + size[i]] = <<i, Header + size[i]>>
      BY <1>2, <1>3, <3>1
    <3> QED
      BY <1>2, <1>3, <2>1, <3>1, <3>2 DEF End
  <2>2. CASE j \in Message /\ End(j) \in Range(d)
    BY <2>2 DEF Range
  <2> QED
    BY <1>1, <1>3, <2>1, <2>2 DEF Expected
<1>13. ASSUME NEW j \in owed'
       PROVE  /\ j <= sent' /\ ~Has(coming', j)
              /\ Has(rest', j) => rest'[1][2] = 1 /\ \E p \in DOMAIN rest' : rest'[p] = End(j)
              /\ ~Has(rest', j) => Handed(parsed', j)
  <2>1. CASE j \in owed
    <3>1. ~Has(c, j)
      BY <1>2, <1>3, <2>1, PartHas
    <3>2. ~Has(d, j)
      BY <1>2, <1>3, <2>1 DEF Has
    <3> QED
      BY <1>3, <1>7, <2>1, <3>1, <3>2
  <2>2. CASE j \in Expected(d)
    <3>1. PICK p \in DOMAIN d : d[p] = End(j)
      BY <1>12, <2>2
    <3>2. p \in DOMAIN coming /\ p <= n /\ coming[p] = End(j) /\ coming[p][1] = j /\ d[p][1] = j
      BY <1>2, <3>1 DEF End
    <3>3. ~Has(c, j)
      BY <1>1, <1>2, <3>2, Behind
    <3>4. Has(d, j) /\ j <= sent
      BY <1>2, <3>2 DEF Has, Before
    <3> QED
      BY <1>3, <1>7, <3>1, <3>3, <3>4
  <2> QED
    BY <1>7, <2>1, <2>2
<1>14. OwedKept'
  <2>1. \A j : End(j)' = End(j)
    BY <1>7 DEF End
  <2>2. ASSUME NEW j \in owed'
        PROVE  /\ j <= sent'
               /\ Has(rest, j)' => (rest[1][2] = 1)' /\ \E p \in DOMAIN rest' : rest'[p] = End(j)'
               /\ Has(coming, j)' => Partly(j)'
               /\ ~Has(rest, j)' /\ ~Has(coming, j)' => Handed(parsed, j)'
    BY <1>13, <2>1 DEF Has, Handed
  <2> QED
    BY <2>2 DEF OwedKept
<1>15. TypeOK'
  <2>1. Expected(d) \subseteq Message /\ size[i] \in 0..MaxSize
    BY <1>4, <1>12, ConstantsAssumption
  <2> QED
    BY <1>1, <1>2, <1>3, <1>5, <1>7, <2>1 DEF TypeOK
<1> QED
  BY <1>2, <1>7, <1>8, <1>9, <1>11, <1>14, <1>15 DEF IInv

LEMMA HeaderPreserves ==
    ASSUME IInv, NEW n \in 1..Len(coming), NEW d, d = SubSeq(coming, 1, n),
           NEW c, c = SubSeq(coming, n + 1, Len(coming))
    PROVE  ReadPiece(d, c) /\ ReadHeader(d) => IInv'
<1> SUFFICES ASSUME ReadPiece(d, c), ReadHeader(d) PROVE IInv'
  OBVIOUS
<1> DEFINE i == coming[1][1]
<1>1. TypeOK /\ rest = <<>> /\ HasMagic(d)
  BY DEF IInv, ReadPiece, ReadHeader
<1>2. i \in Message
  BY <1>1, HeaderStep
<1>3. size[i] \in Nat /\ n \in Nat
  BY <1>1, <1>2, Sizes, ReadFacts
<1>4. n < Header + size[i] \/ n = Header + size[i] \/ n > Header + size[i]
  BY <1>3 DEF Header
<1> HIDE DEF i
<1>5. i = coming[1][1]
  BY DEF i
<1> QED
  BY <1>4, <1>5, HeaderPart, HeaderWhole, HeaderMore

PartIs(data, i, k, n) == data = BodyTo(i, n - Header) /\ k > Header

\* A message that has been read up to its middle is completed by the first m symbols that come.
LEMMA PartlyWhole ==
    ASSUME IInv, rest = <<>>, NEW m \in 1..Len(coming), NEW whole, whole = m_msgData \o SubSeq(coming, 1, m),
           NEW i, NEW k, coming[1] = <<i, k>>, Partly(i), m <= LastAt(i, k)
    PROVE  /\ \A n : n = k + m - 1 => PartIs(whole, i, k, n)
           /\ m = LastAt(i, k) => whole = Body(i) /\ Len(whole) = size[i]
           /\ m < LastAt(i, k) => Len(whole) < size[i]
           /\ m_cmdType = i /\ m_msgLength = size[i]
<1>1. /\ whole \in Seq(Symbol) /\ Len(whole) = Len(m_msgData) + m
      /\ \A p \in 1..m : whole[Len(m_msgData) + p] = coming[p]
      /\ \A p \in 1..Len(m_msgData) : whole[p] = m_msgData[p]
  <2>1. whole \in Seq(Symbol) /\ Len(whole) = Len(m_msgData) + m
    BY WholeFacts
  <2>2. \A p \in 1..m : whole[Len(m_msgData) + p] = coming[p]
    BY WholeFacts
  <2>3. \A p \in 1..Len(m_msgData) : whole[p] = m_msgData[p]
    BY WholeFacts
  <2> QED
    BY <2>1, <2>2, <2>3
<1>2. TypeOK /\ coming \in Seq(Symbol) /\ m_msgData \in Seq(Symbol)
  BY DEF IInv, TypeOK
<1>3. Len(coming) \in Nat /\ DOMAIN coming = 1..Len(coming) /\ m \in Nat /\ m >= 1 /\ coming # <<>>
      /\ Len(m_msgData) \in Nat /\ DOMAIN m_msgData = 1..Len(m_msgData) /\ DOMAIN whole = 1..Len(whole)
  <2>1. Len(coming) \in Nat /\ DOMAIN coming = 1..Len(coming) /\ m \in Nat /\ m >= 1 /\ Len(coming) # 0
    BY <1>2, SymbolFacts
  <2> QED
    BY <1>1, <1>2, <2>1, EmptySeq, SymbolFacts
<1>4. Run(coming)
  BY <1>2, ConcatEmptySeq DEF IInv, Contiguous, Unread
<1>5. /\ i \in Message /\ k \in Nat /\ k >= 1 /\ k <= Header + size[i]
      /\ LastAt(i, k) \in Nat
      /\ \A q \in DOMAIN coming : q <= LastAt(i, k) => coming[q] = <<i, k + (q - 1)>>
  <2>1. TypeOK /\ coming \in Seq(Symbol) /\ Run(coming) /\ coming # <<>>
    BY <1>2, <1>3, <1>4
  <2>2. i \in Message /\ k \in Nat /\ k >= 1 /\ k <= Header + size[i] /\ LastAt(i, k) \in Nat
    BY <2>1, FromHeadAt
  <2>3. \A q \in DOMAIN coming : q <= LastAt(i, k) => coming[q] = <<i, k + (q - 1)>>
    BY <2>1, FromHeadAt DEF HeadIs
  <2> QED
    BY <2>2, <2>3
<1>6. /\ k > Header /\ m_cmdType = i /\ m_msgLength = size[i]
      /\ m_msgData = BodyTo(i, k - 1 - Header)
  <2>1. coming[1][2] = k
    OBVIOUS
  <2> QED
    BY <2>1 DEF Partly
<1>7. size[i] \in Nat
  BY <1>2, <1>5, Sizes
<1>8. Len(m_msgData) = k - 1 - Header
  <2>1. DOMAIN m_msgData = 1..(k - 1 - Header) /\ k - 1 - Header \in Nat
    BY <1>5, <1>6 DEF Header, BodyTo
  <2> QED
    BY <1>3, <2>1
<1>9. Len(whole) = k + m - 1 - Header
  <2>1. Len(whole) = (k - 1 - 3) + m /\ k \in Nat /\ m \in Nat
    BY <1>1, <1>3, <1>5, <1>8 DEF Header
  <2> QED
    BY <2>1 DEF Header
<1>10. ASSUME NEW p \in 1..(k + m - 1 - Header) PROVE whole[p] = <<i, Header + p>>
  <2>1. CASE p <= k - 1 - Header
    <3>1. p \in 1..(k - 1 - Header)
      BY <1>3, <1>5, <2>1 DEF Header
    <3> QED
      BY <1>1, <1>6, <1>8, <3>1 DEF BodyTo
  <2>2. CASE ~(p <= k - 1 - Header)
    <3> DEFINE q == p - (k - 1 - Header)
    <3>1. q \in 1..m /\ q \in Nat /\ (k - 1 - Header) + q = p /\ k + (q - 1) = Header + p /\ p \in Nat
      BY <1>3, <1>5, <2>2 DEF Header
    <3> HIDE DEF q
    <3>2. whole[p] = coming[q]
      BY <1>1, <1>8, <3>1
    <3>3. q \in DOMAIN coming /\ q <= LastAt(i, k)
      BY <1>3, <1>5, <3>1
    <3> QED
      BY <1>5, <3>1, <3>2, <3>3
  <2> QED
    BY <2>1, <2>2
<1>11. whole = BodyTo(i, k + m - 1 - Header)
  <2>1. whole \in [1..Len(whole) -> Symbol]
    BY <1>1, LenProperties
  <2> QED
    BY <1>3, <1>9, <1>10, <2>1 DEF BodyTo
<1>12. LastAt(i, k) = 3 + size[i] - k + 1
  BY DEF LastAt, Header
<1>13. ASSUME m = LastAt(i, k) PROVE k + m - 1 - Header = size[i]
  <2> DEFINE z == size[i]
  <2>1. z \in Nat /\ k \in Nat /\ m = 3 + z - k + 1
    BY <1>5, <1>7, <1>12, <1>13
  <2> HIDE DEF z
  <2>2. k + m - 1 - 3 = z
    BY <2>1
  <2> QED
    BY <2>2 DEF Header, z
<1>14. ASSUME m < LastAt(i, k) PROVE k + m - 1 - Header < size[i]
  <2> DEFINE z == size[i]
  <2>1. z \in Nat /\ k \in Nat /\ m \in Nat /\ m < 3 + z - k + 1
    BY <1>3, <1>5, <1>7, <1>12, <1>14
  <2> HIDE DEF z
  <2>2. k + m - 1 - 3 < z
    BY <2>1
  <2> QED
    BY <2>2 DEF Header, z
<1>15. m = LastAt(i, k) => whole = Body(i)
  BY <1>11, <1>13 DEF Body, BodyTo
<1>16. ASSUME NEW n, n = k + m - 1 PROVE PartIs(whole, i, k, n)
  <2>1. n - Header = k + m - 1 - Header
    BY <1>3, <1>5, <1>16 DEF Header
  <2>2. whole = BodyTo(i, n - Header)
    BY <1>11, <2>1
  <2> QED
    BY <1>6, <2>2 DEF PartIs
<1> QED
  BY <1>6, <1>9, <1>13, <1>14, <1>15, <1>16

LEMMA PartlyEnd ==
    ASSUME IInv, rest = <<>>, NEW m \in 1..Len(coming), NEW whole, whole = m_msgData \o SubSeq(coming, 1, m),
           NEW i, NEW k, coming[1] = <<i, k>>, Partly(i), m = LastAt(i, k)
    PROVE  whole = Body(i)
<1>1. m <= LastAt(i, k)
  OBVIOUS
<1> QED
  BY <1>1, PartlyWhole

\* A read that does not begin with a header.
LEMMA MiddleStep ==
    ASSUME IInv, rest = <<>>, coming # <<>>, NEW i, NEW k, coming[1] = <<i, k>>
    PROVE  \A j \in owed : /\ j <= sent /\ ~Has(rest, j)
                           /\ Has(coming, j) => j = i /\ Partly(i)
                           /\ ~Has(coming, j) => Handed(parsed, j)
<1>1. ASSUME NEW j \in owed PROVE Partly(j) => j = i
  BY DEF Partly
<1> QED
  BY <1>1, OwedInComing

LEMMA Settled ==
    ASSUME IInv, \A j \in owed : j <= sent
    PROVE  /\ sent' = sent /\ owed' \subseteq owed
           /\ \A j \in owed : Handed(parsed', j) /\ ~Has(rest', j) /\ ~Has(coming', j)
           => OwedKept'
<1> SUFFICES ASSUME sent' = sent, owed' \subseteq owed,
                    \A j \in owed : Handed(parsed', j) /\ ~Has(rest', j) /\ ~Has(coming', j)
             PROVE  OwedKept'
  OBVIOUS
<1>1. ASSUME NEW j \in owed'
      PROVE  j <= sent' /\ ~Has(rest, j)' /\ ~Has(coming, j)' /\ Handed(parsed, j)'
  BY DEF Has, Handed
<1> QED
  BY <1>1 DEF OwedKept

TailIs(d, i, k, n, e) ==
    /\ Min(Tails(d)) = e /\ e \in Nat /\ e >= 1 /\ e <= n - 2 /\ e \in DOMAIN coming /\ e \in 1..Len(coming)
    /\ coming[e] = End(i) /\ k # 1 /\ i \in Message /\ e + 1 \in DOMAIN d /\ d[e + 1][2] = 1
    /\ SubSeq(d, 1, e) = SubSeq(coming, 1, e)

LEMMA TailStep ==
    ASSUME IInv, rest = <<>>, NEW n \in 1..Len(coming), NEW d, d = SubSeq(coming, 1, n), ~HasMagic(d), Tails(d) # {},
           NEW i, NEW k, coming[1] = <<i, k>>, NEW e, e = LastAt(i, k)
    PROVE  TailIs(d, i, k, n, e)
<1>1. /\ coming \in Seq(Symbol) /\ coming # <<>> /\ Run(coming)
      /\ d \in Seq(Symbol) /\ d # <<>> /\ Len(d) = n /\ Run(d) /\ DOMAIN d = 1..n
      /\ \A p \in 1..n : p \in DOMAIN coming /\ d[p] = coming[p]
      /\ d[1] = coming[1]
      /\ n \in Nat /\ n >= 1 /\ Len(coming) \in Nat /\ n <= Len(coming) /\ DOMAIN coming = 1..Len(coming)
  BY ReadFacts
<1>2. TypeOK /\ d[1] = <<i, k>>
  BY <1>1 DEF IInv
<1>3. e <= n - 2 /\ Min(Tails(d)) = e
  <2>1. LastAt(i, k) <= Len(d) - 2 /\ Min(Tails(d)) = LastAt(i, k)
    <3>1. TypeOK /\ d \in Seq(Symbol) /\ Run(d) /\ d # <<>> /\ d[1] = <<i, k>>
      BY <1>1, <1>2
    <3> QED
      BY <3>1, TailFacts
  <2>2. Len(d) = n
    BY <1>1
  <2> QED
    BY <2>1, <2>2
<1>4. /\ i \in Message /\ e \in Nat /\ e >= 1
      /\ \A q \in DOMAIN d : (q = e => d[q] = End(i)) /\ (q = e + 1 => d[q][2] = 1)
  <2>1. i \in Message /\ e \in Nat /\ e >= 1
    BY <1>1, <1>2, FromHeadAt
  <2>2. HeadIs(d, i, k)
    BY <1>1, <1>2, FromHeadAt
  <2> QED
    BY <2>1, <2>2 DEF HeadIs
<1>5. e \in 1..n /\ e + 1 \in 1..n /\ e \in DOMAIN coming /\ coming[e] = End(i) /\ d[e + 1][2] = 1
      /\ e \in 0..Len(coming) /\ e \in 0..n
  <2>1. e \in 1..n /\ e + 1 \in 1..n /\ e \in 0..Len(coming) /\ e \in 0..n
    <3>1. e \in Nat /\ e >= 1 /\ e <= n - 2 /\ n \in Nat /\ Len(coming) \in Nat /\ n <= Len(coming)
      BY <1>1, <1>3, <1>4
    <3> QED
      BY <3>1
  <2> QED
    BY <1>1, <1>4, <2>1
<1>6. k # 1
  <2>1. ASSUME k = 1 PROVE FALSE
    <3>1. d[1] = <<i, 1>> /\ Len(d) >= 2
      BY <1>1, <1>2, <1>3, <1>4, <2>1
    <3> QED
      BY <1>1, <1>2, <3>1, HeaderFacts
  <2> QED
    BY <2>1
<1>7. SubSeq(d, 1, e) = SubSeq(coming, 1, e)
  <2>1. SubSeq(d, 1, e) \in Seq(Symbol) /\ Len(SubSeq(d, 1, e)) = e /\ \A j \in 1..e : SubSeq(d, 1, e)[j] = d[j]
    BY <1>1, <1>5, BeginIsPart
  <2>2. SubSeq(coming, 1, e) \in Seq(Symbol) /\ Len(SubSeq(coming, 1, e)) = e
        /\ \A j \in 1..e : SubSeq(coming, 1, e)[j] = coming[j]
    BY <1>1, <1>5, BeginIsPart
  <2>3. \A j \in 1..e : j \in 1..n
    BY <1>1, <1>3, <1>4
  <2>4. \A j \in 1..e : SubSeq(d, 1, e)[j] = SubSeq(coming, 1, e)[j]
    BY <1>1, <2>1, <2>2, <2>3
  <2> QED
    BY <2>1, <2>2, <2>4, SeqEqual
<1>8. e + 1 \in DOMAIN d /\ e \in 1..Len(coming)
  BY <1>1, <1>5
<1> QED
  BY <1>3, <1>4, <1>5, <1>6, <1>7, <1>8 DEF TailIs

\* What lies behind the first tail.
LEMMA TailRest ==
    ASSUME IInv, rest = <<>>, NEW n \in 1..Len(coming), NEW d, d = SubSeq(coming, 1, n),
           NEW c, c = SubSeq(coming, n + 1, Len(coming)), NEW e \in Nat, e + 1 \in DOMAIN d, d[e + 1][2] = 1,
           NEW r, r = SubSeq(d, e + 1, Len(d))
    PROVE  /\ r \in Seq(Symbol) /\ r # <<>> /\ EndOf(r, d, e) /\ Run(r) /\ r[1] = <<r[1][1], 1>>
           /\ EndOf(r \o c, coming, e) /\ r \o c \in Seq(Symbol) /\ Run(r \o c)
<1>1. /\ coming \in Seq(Symbol) /\ Run(coming)
      /\ d \in Seq(Symbol) /\ Len(d) = n /\ Run(d) /\ DOMAIN d = 1..n
      /\ c \in Seq(Symbol) /\ d \o c = coming /\ n \in Nat
  BY ReadFacts
<1>2. TypeOK
  BY DEF IInv
<1>3. e \in 0..Len(d)
  BY <1>1
<1>4. r \in Seq(Symbol) /\ EndOf(r, d, e)
  BY <1>1, <1>3, EndIsPart
<1>5. Run(r)
  BY <1>1, <1>2, <1>4, RunOfEnd
<1>6. r # <<>> /\ 1 \in DOMAIN r /\ r[1] = d[e + 1]
  <2>1. d \in Seq(Symbol) /\ e + 1 \in DOMAIN d
    BY <1>1
  <2> QED
    BY <1>4, <2>1, EndBegins
<1>7. r[1] = <<r[1][1], 1>>
  <2>1. r[1] = <<r[1][1], r[1][2]>>
    BY <1>4, <1>6, SymbolFacts
  <2> QED
    BY <1>6, <2>1
<1>8. EndOf(r \o c, coming, e) /\ r \o c \in Seq(Symbol)
  <2>1. EndOf(r \o c, d \o c, e)
    BY <1>1, <1>4, EndBefore
  <2> QED
    BY <1>1, <1>4, <2>1, ConcatProperties
<1>9. Run(r \o c)
  BY <1>1, <1>2, <1>8, RunOfEnd
<1> QED
  BY <1>4, <1>5, <1>6, <1>7, <1>8, <1>9

\* What parseData finds in m_msgData and the end of a message.
LEMMA EndFound ==
    ASSUME IInv, rest = <<>>, NEW m \in 1..Len(coming), NEW whole, whole = m_msgData \o SubSeq(coming, 1, m),
           NEW t \in Seq(Symbol), EndOf(t, coming, m), NEW ps, ps = parsed \o Found(m_cmdType, whole)
    PROVE  /\ Before(ps, t, sent) /\ ps \in Seq((Message \union {None}) \X Message) /\ Extends(ps, parsed)
           /\ IsBody(whole) /\ whole[1][1] = m_cmdType => Handed(ps, m_cmdType)
<1>1. /\ coming \in Seq(Symbol) /\ parsed \in Seq((Message \union {None}) \X Message) /\ sent \in Nat
      /\ m_cmdType \in Message \union {None} /\ TypeOK
  BY ConstantsAssumption DEF IInv, TypeOK
<1>2. coming # <<>> /\ m \in Nat /\ m \in DOMAIN coming /\ m <= m
  <2>1. Len(coming) \in Nat /\ DOMAIN coming = 1..Len(coming) /\ m \in Nat /\ Len(coming) # 0
    BY <1>1, SymbolFacts
  <2> QED
    BY <1>1, <2>1, EmptySeq
<1>3. Unread = coming
  BY <1>1, ConcatEmptySeq DEF Unread
<1>4. Run(coming) /\ Before(parsed, coming, sent)
  BY <1>3 DEF IInv, Contiguous
<1>5. whole \in Seq(Symbol)
  BY WholeFacts
<1>6. IsBody(whole) => m_cmdType \in {whole[1][1], None} /\ coming[m] = End(whole[1][1])
  BY WholeFacts
<1>7. IsBody(whole) => whole[1][1] \in Message
  BY <1>1, <1>5, BodyFacts
<1>8. IsBody(whole) => /\ m_cmdType \in {whole[1][1], None}
                       /\ \E p \in DOMAIN coming : p <= m /\ coming[p] = End(whole[1][1])
  BY <1>2, <1>6
<1>9. Before(parsed \o Found(m_cmdType, whole), t, sent)
      /\ parsed \o Found(m_cmdType, whole) \in Seq((Message \union {None}) \X Message)
  BY <1>1, <1>2, <1>4, <1>8, FoundKeeps
<1>10. /\ Extends(parsed \o Found(m_cmdType, whole), parsed)
       /\ IsBody(whole) /\ whole[1][1] = m_cmdType => Handed(parsed \o Found(m_cmdType, whole), m_cmdType)
  BY <1>1, <1>7, FoundAdds
<1> QED
  BY <1>9, <1>10

LEMMA ConcatFacts ==
    ASSUME NEW u \in Seq(Symbol), NEW v \in Seq(Symbol)
    PROVE  /\ u \o v \in Seq(Symbol) /\ EndOf(v, u \o v, Len(u)) /\ Len(u) \in Nat
           /\ \A p \in DOMAIN u : p \in DOMAIN (u \o v) /\ (u \o v)[p] = u[p]
           /\ \A i : ~Has(u \o v, i) => ~Has(u, i) /\ ~Has(v, i)
<1>1. Len(u) \in Nat /\ Len(v) \in Nat /\ DOMAIN u = 1..Len(u) /\ DOMAIN v = 1..Len(v)
  BY SymbolFacts
<1> DEFINE w == u \o v
<1>2. /\ w \in Seq(Symbol) /\ Len(w) = Len(u) + Len(v)
      /\ \A i \in 1..(Len(u) + Len(v)) : w[i] = IF i <= Len(u) THEN u[i] ELSE v[i - Len(u)]
  BY ConcatProperties
<1> HIDE DEF w
<1>3. DOMAIN w = 1..(Len(u) + Len(v))
  BY <1>2, SymbolFacts
<1>4. \A p \in DOMAIN u : p \in DOMAIN w /\ w[p] = u[p]
  BY <1>1, <1>2, <1>3
<1>5. ASSUME NEW j \in 1..Len(v) PROVE Len(u) + j \in DOMAIN w /\ w[Len(u) + j] = v[j]
  <2>1. /\ Len(u) + j \in 1..(Len(u) + Len(v)) /\ ~(Len(u) + j <= Len(u)) /\ (Len(u) + j) - Len(u) = j
    BY <1>1
  <2> QED
    BY <1>2, <1>3, <2>1
<1>6. EndOf(v, w, Len(u))
  BY <1>2, <1>5 DEF EndOf
<1>7. \A i : ~Has(w, i) => ~Has(u, i) /\ ~Has(v, i)
  BY <1>1, <1>4, <1>5 DEF Has
<1> QED
  BY <1>1, <1>2, <1>4, <1>6, <1>7 DEF w

\* d is dropped: the message it ends had not been read from its header on.
LEMMA TailDropped ==
    ASSUME IInv, NEW n \in 1..Len(coming), NEW d, d = SubSeq(coming, 1, n),
           NEW c, c = SubSeq(coming, n + 1, Len(coming)), ~HasMagic(d), Tails(d) # {},
           NEW i, NEW k, coming[1] = <<i, k>>, NEW e, e = LastAt(i, k),
           NEW whole, whole = m_msgData \o SubSeq(coming, 1, e), Len(whole) # m_msgLength
    PROVE  ReadPiece(d, c) /\ UNCHANGED <<m_msgData, m_msgLength, parsed, rest, m_cmdType>> => IInv'
<1> SUFFICES ASSUME ReadPiece(d, c), UNCHANGED <<m_msgData, m_msgLength, parsed, rest, m_cmdType>> PROVE IInv'
  OBVIOUS
<1>1. TypeOK /\ rest = <<>> /\ CmdKept
  BY DEF IInv, ReadPiece
<1>2. /\ Unread = coming /\ coming \in Seq(Symbol) /\ coming # <<>> /\ Run(coming) /\ Before(parsed, coming, sent)
      /\ c \in Seq(Symbol) /\ EndOf(c, coming, n) /\ n \in Nat /\ n <= Len(coming) /\ Len(coming) \in Nat
      /\ coming[1] = <<coming[1][1], coming[1][2]>>
  BY <1>1, ReadFacts
<1>4. e \in 1..Len(coming) /\ k # 1
  BY <1>1, TailStep DEF TailIs
<1>5. e <= LastAt(i, k)
  BY <1>2, <1>4
<1>6. ~Partly(i)
  <2>1. Partly(i) => Len(whole) = size[i] /\ m_msgLength = size[i]
    BY <1>1, <1>4, <1>5, PartlyWhole
  <2> QED
    BY <2>1
<1>7. \A j \in owed : j <= sent /\ ~Has(rest, j) /\ ~Has(coming, j) /\ Handed(parsed, j)
  BY <1>1, <1>2, <1>6, MiddleStep
<1>8. /\ coming' = c /\ owed' = (owed \ Spoilt(d)) \union Expected(d) /\ Expected(d) = {}
      /\ size' = size /\ sent' = sent /\ breaks' = breaks /\ m_msgData' = m_msgData /\ m_msgLength' = m_msgLength
      /\ parsed' = parsed /\ rest' = <<>> /\ m_cmdType' = m_cmdType
  BY <1>1 DEF ReadPiece, Expected
<1>9. Unread' = c
  BY <1>2, <1>8, ConcatEmptySeq DEF Unread
<1>10. Contiguous'
  BY <1>2, <1>8, <1>9, StillContiguous
<1>11. Before(parsed, c, sent)
  BY <1>2, BeforeEnd
<1>12. OwedKept'
  <2>1. \A j \in owed : ~Has(c, j)
    BY <1>2, <1>7, PartHas
  <2>2. \A j \in owed : Handed(parsed', j) /\ ~Has(rest', j) /\ ~Has(coming', j)
    BY <1>1, <1>7, <1>8, <2>1
  <2>3. owed' \subseteq owed
    BY <1>8
  <2> QED
    BY <1>7, <1>8, <2>2, <2>3, Settled
<1>13. CmdKept'
  <2>1. m_msgData = <<>> => m_cmdType = None
    <3>1. SUFFICES ASSUME m_msgData = <<>>, m_cmdType # None PROVE FALSE
      OBVIOUS
    <3>2. coming[1] = <<m_cmdType, Header + 1>> /\ m_msgLength = size[m_cmdType]
      BY <1>1, <1>2, <1>4, <3>1 DEF CmdKept
    <3>3. i = m_cmdType /\ k = Header + 1
      BY <3>2
    <3>4. Partly(i)
      <4>1. coming[1][1] = i /\ coming[1][2] = k /\ k > Header /\ k - 1 - Header = 0
        BY <3>3 DEF Header
      <4>2. BodyTo(i, 0) = <<>>
        BY DEF BodyTo
      <4> QED
        BY <1>1, <3>1, <3>2, <3>3, <4>1, <4>2 DEF Partly
    <3> QED
      BY <1>6, <3>4
  <2> QED
    BY <1>1, <1>8, <2>1 DEF CmdKept
<1>14. TypeOK'
  BY <1>1, <1>2, <1>8 DEF TypeOK
<1> QED
  BY <1>8, <1>9, <1>10, <1>11, <1>12, <1>13, <1>14 DEF IInv

\* The message that d ends has been looked at, and t is what is left unread.
LEMMA TailParsed ==
    ASSUME IInv, NEW n \in 1..Len(coming), NEW d, d = SubSeq(coming, 1, n),
           NEW c, c = SubSeq(coming, n + 1, Len(coming)), ~HasMagic(d), Tails(d) # {},
           NEW i, NEW k, coming[1] = <<i, k>>, NEW e, e = LastAt(i, k),
           NEW whole, whole = m_msgData \o SubSeq(coming, 1, e),
           NEW found, found = parsed \o Found(m_cmdType, whole),
           NEW u \in Seq(Symbol), NEW b \in Nat, b >= e, EndOf(u \o c, coming, b),
           NEW qs \in Seq((Message \union {None}) \X Message), Before(qs, u \o c, sent), Extends(qs, found)
    PROVE  /\ ReadPiece(d, c) /\ parsed' = qs /\ rest' = u /\ m_cmdType' = m_cmdType
           /\ m_msgData' \in Seq(Symbol) /\ m_msgData' # <<>> /\ m_msgData'[1] = whole[1] /\ m_msgLength' \in 0..MaxSize
           => IInv'
<1> SUFFICES ASSUME ReadPiece(d, c), parsed' = qs, rest' = u, m_cmdType' = m_cmdType,
                    m_msgData' \in Seq(Symbol), m_msgData' # <<>>, m_msgData'[1] = whole[1], m_msgLength' \in 0..MaxSize
             PROVE  IInv'
  OBVIOUS
<1>1. TypeOK /\ rest = <<>>
  BY DEF IInv, ReadPiece
<1>2. /\ Unread = coming /\ coming \in Seq(Symbol) /\ coming # <<>> /\ Run(coming) /\ c \in Seq(Symbol)
  BY <1>1, ReadFacts
<1>3. e \in Nat /\ e \in 1..Len(coming) /\ e \in DOMAIN coming /\ coming[e] = End(i)
  <2>1. e \in Nat /\ e \in 1..Len(coming)
    BY <1>1, TailStep DEF TailIs
  <2>2. e \in DOMAIN coming
    BY <1>2, <2>1, SymbolFacts
  <2>3. HeadIs(coming, i, k)
    BY <1>1, <1>2, FromHeadAt
  <2> QED
    BY <2>1, <2>2, <2>3 DEF HeadIs
<1>4. /\ coming' = c /\ owed' = (owed \ Spoilt(d)) \union Expected(d) /\ Expected(d) = {}
      /\ size' = size /\ sent' = sent /\ breaks' = breaks
  BY DEF ReadPiece, Expected
<1>5. Unread' = u \o c /\ u \o c \in Seq(Symbol)
  BY <1>2, <1>4, ConcatFacts DEF Unread
<1>6. Contiguous'
  <2>1. size' = size /\ sent' = sent /\ u \o c = Unread' /\ coming = Unread
    BY <1>2, <1>4, <1>5
  <2>2. coming \in Seq(Symbol) /\ u \o c \in Seq(Symbol)
    BY <1>2, <1>5
  <2> QED
    BY <2>1, <2>2, StillContiguous
<1>7. CmdKept'
  <2>1. whole[1][2] = Header + 1 => m_cmdType \in {whole[1][1], None}
    BY <1>1, <1>3, WholeFacts
  <2> QED
    BY <2>1 DEF CmdKept
<1>8. /\ Extends(found, parsed)
      /\ IsBody(whole) /\ whole[1][1] = m_cmdType => Handed(found, m_cmdType)
  <2> DEFINE t == SubSeq(coming, e + 1, Len(coming))
  <2>1. e \in 0..Len(coming)
    BY <1>3
  <2>2. t \in Seq(Symbol) /\ EndOf(t, coming, e)
    BY <1>2, <2>1, EndIsPart
  <2> HIDE DEF t
  <2>3. rest = <<>> /\ e \in 1..Len(coming)
    BY <1>1, <1>3
  <2>4. Extends(found, parsed)
    BY <2>2, <2>3, EndFound
  <2>5. IsBody(whole) /\ whole[1][1] = m_cmdType => Handed(found, m_cmdType)
    BY <2>2, <2>3, EndFound
  <2> QED
    BY <2>4, <2>5
<1>9. Partly(i) => Handed(found, i)
  <2>1. SUFFICES ASSUME Partly(i) PROVE Handed(found, i)
    OBVIOUS
  <2>2. e <= LastAt(i, k)
    BY <1>3
  <2>3. whole = Body(i) /\ m_cmdType = i
    <3>1. IInv /\ rest = <<>> /\ e \in 1..Len(coming) /\ e <= LastAt(i, k) /\ Partly(i)
      BY <1>1, <1>3, <2>1, <2>2
    <3>2. whole = Body(i)
      BY <3>1, PartlyEnd
    <3> QED
      BY <2>1, <3>2 DEF Partly
  <2>4. i \in Message
    BY <1>1, TailStep DEF TailIs
  <2>5. IsBody(whole) /\ whole[1][1] = i
    BY <1>1, <2>3, <2>4, BodyIsBody
  <2> QED
    BY <1>8, <2>3, <2>5
<1>10. \A j \in owed : /\ j <= sent
                       /\ Has(coming, j) => j = i /\ Partly(i)
                       /\ ~Has(coming, j) => Handed(parsed, j)
  BY <1>1, <1>2, MiddleStep
<1>11. ASSUME NEW j \in owed PROVE Handed(parsed', j) /\ ~Has(rest', j) /\ ~Has(coming', j)
  <2>1. ~Has(u \o c, j)
    <3>1. CASE ~Has(coming, j)
      BY <1>2, <1>5, <3>1, PartHas
    <3>2. CASE j = i
      BY <1>1, <1>2, <1>3, <1>5, <3>2, Behind
    <3> QED
      BY <1>10, <3>1, <3>2
  <2>2. Handed(found, j)
    BY <1>8, <1>9, <1>10, StillHanded
  <2>3. Handed(qs, j)
    BY <2>2, StillHanded
  <2>4. ~Has(u, j) /\ ~Has(c, j)
    BY <1>2, <2>1, ConcatFacts
  <2> QED
    BY <1>4, <2>3, <2>4
<1>12. OwedKept'
  <2>1. owed' \subseteq owed
    BY <1>4
  <2>2. \A j \in owed : j <= sent
    BY <1>10
  <2> QED
    BY <1>4, <1>11, <2>1, <2>2, Settled
<1>13. TypeOK'
  BY <1>1, <1>2, <1>4 DEF TypeOK
<1>14. Before(parsed', Unread', sent')
  BY <1>4, <1>5
<1> QED
  BY <1>6, <1>7, <1>12, <1>13, <1>14 DEF IInv

FoundIn(ps, qs, s, t, u) ==
    /\ u \in Seq(Symbol) /\ t \in Seq(Symbol) /\ qs \in Seq((Message \union {None}) \X Message)
    /\ \E a \in Nat : EndOf(t, s, a)
    /\ Before(qs, t, sent) /\ Extends(qs, ps)

\* Another message behind it is looked at in the same read: u is what lies behind its body.
LEMMA NextFound ==
    ASSUME IInv, NEW s \in Seq(Symbol), Run(s), NEW r \in Seq(Symbol), Run(r), r # <<>>, NEW c \in Seq(Symbol), s = r \o c,
           NEW i, r[1] = <<i, 1>>, Len(r) > Header, Len(AfterHeader(r)) >= LengthIn(r),
           NEW ps \in Seq((Message \union {None}) \X Message), Before(ps, s, sent),
           NEW cmd \in {CommandIn(r), None},
           NEW u, u = SubSeq(AfterHeader(r), LengthIn(r) + 1, Len(AfterHeader(r))),
           NEW qs, qs = ps \o Found(cmd, AfterHeader(r))
    PROVE  FoundIn(ps, qs, s, u \o c, u)
<1> DEFINE msg == AfterHeader(r)
           a == Header + size[i]
<1>1. TypeOK /\ sent \in Nat
  <2>1. TypeOK
    BY DEF IInv
  <2>2. sent \in 0..Messages /\ Messages \in Nat
    BY <2>1, ConstantsAssumption DEF TypeOK
  <2> QED
    BY <2>1, <2>2
<1>2. Len(r) \in Nat /\ DOMAIN r = 1..Len(r) /\ Len(r) >= Header
  BY SymbolFacts DEF Header
<1>3. /\ i \in Message /\ LengthIn(r) = size[i] /\ CommandIn(r) = i
      /\ msg \in Seq(Symbol) /\ EndOf(msg, r, Header) /\ Len(msg) = Len(r) - Header
      /\ \A q \in DOMAIN r : q <= Header + size[i] => r[q] = <<i, q>>
  <2>1. i \in Message /\ LengthIn(r) = size[i] /\ CommandIn(r) = i
    BY <1>1, <1>2, HeaderFacts
  <2>2. msg \in Seq(Symbol) /\ EndOf(msg, r, Header) /\ Len(msg) = Len(r) - Header
    BY <1>1, <1>2, HeaderFacts
  <2>3. i \in Message /\ \A q \in DOMAIN r : q <= Header + size[i] => r[q] = <<i, q>>
    <3>1. TypeOK
      BY <1>1
    <3> QED
      BY <3>1, HeaderFacts
  <2> QED
    BY <2>1, <2>2, <2>3
<1>4. size[i] \in Nat /\ size[i] >= 1
  BY <1>1, <1>3, Sizes
<1>5. Len(r) >= a /\ a \in Nat /\ a \in DOMAIN r
  <2> DEFINE z == size[i]
  <2>1. z \in Nat /\ z >= 1 /\ Len(r) - 3 >= z /\ a = 3 + z
    BY <1>3, <1>4 DEF Header
  <2> HIDE DEF z, a
  <2> QED
    BY <1>2, <2>1
<1>6. u \in Seq(Symbol) /\ EndOf(u, r, a)
  BY <1>1, <1>3, <1>5, BehindHeader
<1>7. EndOf(u \o c, s, a) /\ u \o c \in Seq(Symbol)
  BY <1>5, <1>6, EndBefore, ConcatFacts
<1>8. a \in DOMAIN s /\ a <= a /\ s[a] = End(i)
  <2>1. a \in DOMAIN s /\ s[a] = r[a]
    BY <1>5, ConcatFacts
  <2>2. r[a] = <<i, a>> /\ a <= a
    BY <1>3, <1>5
  <2> QED
    BY <2>1, <2>2 DEF End
<1>9. IsBody(msg) => msg[1][1] = i
  <2>1. Header + 1 \in DOMAIN r /\ Header + 1 <= Header + size[i] /\ 1 \in 1..Len(msg)
    <3>1. Len(r) \in Nat /\ DOMAIN r = 1..Len(r) /\ Len(r) > Header /\ Len(msg) = Len(r) - Header
      BY <1>2, <1>3
    <3>2. Header + 1 \in DOMAIN r /\ 1 \in 1..Len(msg)
      BY <3>1 DEF Header
    <3>3. Header + 1 <= Header + size[i]
      <4> DEFINE z == size[i]
      <4>1. z \in Nat /\ z >= 1
        BY <1>4
      <4> HIDE DEF z
      <4>2. 3 + 1 <= 3 + z
        BY <4>1
      <4> QED
        BY <4>2 DEF z, Header
    <3> QED
      BY <3>2, <3>3
  <2>2. msg[1] = r[Header + 1]
    BY <1>3, <2>1 DEF EndOf
  <2>3. \A q \in DOMAIN r : q <= Header + size[i] => r[q][1] = i
    BY <1>3
  <2> QED
    BY <2>1, <2>2, <2>3
<1> HIDE DEF msg, a
<1>10. cmd \in Message \union {None} /\ cmd \in {i, None}
  BY <1>3
<1>11. IsBody(msg) => cmd \in {msg[1][1], None} /\ \E p \in DOMAIN s : p <= a /\ s[p] = End(msg[1][1])
  BY <1>8, <1>9, <1>10
<1>12. Before(ps \o Found(cmd, msg), u \o c, sent) /\ ps \o Found(cmd, msg) \in Seq((Message \union {None}) \X Message)
  BY <1>1, <1>5, <1>7, <1>10, <1>11, FoundKeeps
<1>13. Extends(ps \o Found(cmd, msg), ps)
  BY <1>3, <1>9, <1>10, FoundAdds
<1>14. qs = ps \o Found(cmd, msg)
  BY DEF msg
<1> QED
  BY <1>5, <1>6, <1>7, <1>12, <1>13, <1>14 DEF FoundIn

LEMMA TailPreserves ==
    ASSUME IInv, NEW n \in 1..Len(coming), NEW d, d = SubSeq(coming, 1, n),
           NEW c, c = SubSeq(coming, n + 1, Len(coming))
    PROVE  ReadPiece(d, c) /\ ReadTail(d) => IInv'
<1> SUFFICES ASSUME ReadPiece(d, c), ReadTail(d) PROVE IInv'
  OBVIOUS
<1>1. /\ rest = <<>> /\ ~HasMagic(d) /\ Tails(d) # {} /\ TypeOK /\ MaxSize \in Nat
      /\ m_msgLength \in 0..MaxSize /\ m_cmdType' = m_cmdType
  BY ConstantsAssumption DEF IInv, TypeOK, ReadPiece, ReadTail
<1>2. PICK i, k : coming[1] = <<i, k>>
  BY <1>1, ReadFacts
<1>3. PICK e : e = LastAt(i, k)
  OBVIOUS
<1>4. PICK whole : whole = m_msgData \o SubSeq(coming, 1, e)
  OBVIOUS
<1>5. PICK r : r = SubSeq(d, e + 1, Len(d))
  OBVIOUS
<1>6. PICK found : found = parsed \o Found(m_cmdType, whole)
  OBVIOUS
<1>7. /\ Min(Tails(d)) = e /\ e \in Nat /\ e >= 1 /\ e <= n - 2 /\ e \in DOMAIN coming /\ e \in 1..Len(coming)
      /\ coming[e] = End(i) /\ k # 1 /\ i \in Message /\ e + 1 \in DOMAIN d /\ d[e + 1][2] = 1
      /\ SubSeq(d, 1, e) = SubSeq(coming, 1, e)
  <2>1. IInv /\ rest = <<>> /\ ~HasMagic(d) /\ Tails(d) # {}
    BY <1>1
  <2>2. coming[1] = <<i, k>> /\ e = LastAt(i, k) /\ d = SubSeq(coming, 1, n) /\ n \in 1..Len(coming)
    BY <1>2, <1>3
  <2>3. TailIs(d, i, k, n, e)
    BY <2>1, <2>2, TailStep
  <2> QED
    BY <2>3 DEF TailIs
<1>8. CASE Len(whole) # m_msgLength
  <2>1. UNCHANGED <<m_msgData, m_msgLength, parsed, rest, m_cmdType>>
    BY <1>1, <1>4, <1>7, <1>8 DEF ReadTail
  <2> QED
    BY <1>1, <1>2, <1>3, <1>4, <1>8, <2>1, TailDropped
<1>9. CASE Len(whole) = m_msgLength
  <2>1. /\ coming \in Seq(Symbol) /\ c \in Seq(Symbol) /\ EndOf(c, coming, n) /\ n \in Nat
    BY <1>1, ReadFacts
  <2>2. /\ r \in Seq(Symbol) /\ r # <<>> /\ Run(r) /\ r[1] = <<r[1][1], 1>>
        /\ EndOf(r \o c, coming, e) /\ r \o c \in Seq(Symbol) /\ Run(r \o c)
    <3>1. rest = <<>> /\ e \in Nat /\ e + 1 \in DOMAIN d /\ d[e + 1][2] = 1
      BY <1>1, <1>7
    <3>2. r \in Seq(Symbol) /\ r # <<>> /\ Run(r) /\ r[1] = <<r[1][1], 1>>
      BY <1>5, <3>1, TailRest
    <3>3. EndOf(r \o c, coming, e) /\ r \o c \in Seq(Symbol) /\ Run(r \o c)
      BY <1>5, <3>1, TailRest
    <3> QED
      BY <3>2, <3>3
  <2>3. Before(found, r \o c, sent) /\ found \in Seq((Message \union {None}) \X Message) /\ Extends(found, parsed)
    BY <1>1, <1>4, <1>6, <1>7, <2>2, EndFound
  <2>4. whole \in Seq(Symbol) /\ whole # <<>>
    BY <1>1, <1>4, <1>7, WholeFacts
  <2>5. /\ <<>> \in Seq(Symbol) /\ <<>> \o c = c /\ n >= e /\ Extends(found, found)
    BY <1>7, <2>1, EmptySeq, ConcatEmptySeq DEF Extends
  <2>6. Before(found, <<>> \o c, sent) /\ EndOf(<<>> \o c, coming, n)
    <3>1. EndOf(c, r \o c, Len(r)) /\ Len(r) \in Nat
      BY <2>1, <2>2, ConcatFacts
    <3>2. Before(found, c, sent)
      BY <2>1, <2>2, <2>3, <3>1, BeforeEnd
    <3> QED
      BY <2>1, <2>5, <3>2
  <2>7. ASSUME parsed' = found, rest' = <<>>, m_msgData' \in Seq(Symbol), m_msgData' # <<>>,
               m_msgData'[1] = whole[1], m_msgLength' \in 0..MaxSize
        PROVE  IInv'
    BY <1>1, <1>2, <1>3, <1>4, <1>6, <2>1, <2>3, <2>5, <2>6, <2>7, TailParsed
  <2>8. \/ Len(r) <= Header /\ m_msgData' = whole /\ m_msgLength' = 0 /\ parsed' = found /\ rest' = <<>>
        \/ Len(r) > Header /\ NextHeader(r, whole, found)
    BY <1>4, <1>5, <1>6, <1>7, <1>9 DEF ReadTail
  <2>9. CASE Len(r) <= Header /\ m_msgData' = whole /\ m_msgLength' = 0 /\ parsed' = found /\ rest' = <<>>
    BY <1>1, <2>4, <2>7, <2>9
  <2>10. CASE Len(r) > Header /\ NextHeader(r, whole, found)
    <3>1. /\ LengthIn(r) \in 0..MaxSize /\ LengthIn(r) \in Nat /\ AfterHeader(r) \in Seq(Symbol)
          /\ Len(AfterHeader(r)) \in Nat /\ m_msgLength' = LengthIn(r)
      BY <1>1, <2>2, <2>10, Reading DEF NextHeader
    <3>2. CASE LengthIn(r) > Len(AfterHeader(r))
      <4>1. /\ m_msgData' = whole \o AfterHeader(r) /\ parsed' = found /\ rest' = <<>>
        BY <2>10, <3>1, <3>2 DEF NextHeader
      <4>2. whole \o AfterHeader(r) \in Seq(Symbol)
        BY <2>4, <3>1, ConcatFacts
      <4>3. 1 \in DOMAIN whole
        BY <2>4, SymbolFacts, EmptySeq
      <4>4. 1 \in DOMAIN (whole \o AfterHeader(r)) /\ (whole \o AfterHeader(r))[1] = whole[1]
        BY <2>4, <3>1, <4>3, ConcatFacts
      <4>5. whole \o AfterHeader(r) # <<>>
        BY <4>4
      <4> QED
        BY <2>7, <3>1, <4>1, <4>2, <4>4, <4>5
    <3>3. CASE ~(LengthIn(r) > Len(AfterHeader(r)))
      <4>1. /\ m_msgData' = whole
            /\ rest' = SubSeq(AfterHeader(r), LengthIn(r) + 1, Len(AfterHeader(r)))
            /\ \E cmd \in {CommandIn(r), None} : parsed' = found \o Found(cmd, AfterHeader(r))
        BY <2>10, <3>3 DEF NextHeader
      <4>2. PICK cmd \in {CommandIn(r), None} : parsed' = found \o Found(cmd, AfterHeader(r))
        BY <4>1
      <4>3. PICK u : u = SubSeq(AfterHeader(r), LengthIn(r) + 1, Len(AfterHeader(r)))
        OBVIOUS
      <4>4. PICK qs : qs = found \o Found(cmd, AfterHeader(r))
        OBVIOUS
      <4>5. PICK j, s : r[1] = <<j, 1>> /\ s = r \o c
        BY <2>2
      <4>6. Len(AfterHeader(r)) >= LengthIn(r)
        BY <3>1, <3>3
      <4>7. /\ u \in Seq(Symbol) /\ qs \in Seq((Message \union {None}) \X Message)
            /\ \E a \in Nat : EndOf(u \o c, s, a)
            /\ Before(qs, u \o c, sent) /\ Extends(qs, found)
        <5>1. /\ IInv /\ s \in Seq(Symbol) /\ Run(s) /\ r \in Seq(Symbol) /\ Run(r) /\ r # <<>> /\ c \in Seq(Symbol)
              /\ s = r \o c /\ r[1] = <<j, 1>> /\ Len(r) > Header /\ Len(AfterHeader(r)) >= LengthIn(r)
          BY <2>1, <2>2, <2>10, <4>5, <4>6
        <5>2. found \in Seq((Message \union {None}) \X Message) /\ Before(found, s, sent)
          BY <2>3, <4>5
        <5>3. FoundIn(found, qs, s, u \o c, u)
          BY <4>3, <4>4, <5>1, <5>2, NextFound
        <5> QED
          BY <5>3 DEF FoundIn
      <4>8. PICK a \in Nat : EndOf(u \o c, r \o c, a)
        BY <4>5, <4>7
      <4>9. u \o c \in Seq(Symbol)
        BY <2>1, <4>7, ConcatFacts
      <4>10. EndOf(u \o c, coming, e + a) /\ e + a \in Nat /\ e + a >= e
        <5>1. EndOf(u \o c, coming, e + a)
          BY <1>7, <2>1, <2>2, <4>8, <4>9, EndOfEnd
        <5>2. e \in Nat /\ a \in Nat
          BY <1>7
        <5>3. e + a \in Nat /\ e + a >= e
          BY <5>2
        <5> QED
          BY <5>1, <5>3
      <4>11. parsed' = qs /\ rest' = u
        BY <4>1, <4>2, <4>3, <4>4
      <4> QED
        BY <1>1, <1>2, <1>3, <1>4, <1>6, <2>1, <2>4, <3>1, <4>1, <4>7, <4>10, <4>11, TailParsed
    <3> QED
      BY <3>2, <3>3
  <2> QED
    BY <2>8, <2>9, <2>10
<1> QED
  BY <1>8, <1>9

LEMMA MorePreserves ==
    ASSUME IInv, NEW n \in 1..Len(coming), NEW d, d = SubSeq(coming, 1, n),
           NEW c, c = SubSeq(coming, n + 1, Len(coming))
    PROVE  ReadPiece(d, c) /\ ReadMore(d) => IInv'
<1> SUFFICES ASSUME ReadPiece(d, c), ReadMore(d) PROVE IInv'
  OBVIOUS
<1>1. rest = <<>> /\ ~HasMagic(d) /\ Tails(d) = {} /\ TypeOK /\ n \in 1..Len(coming)
  BY DEF IInv, ReadPiece, ReadMore
<1>2. /\ Unread = coming /\ coming \in Seq(Symbol) /\ coming # <<>> /\ Run(coming) /\ Before(parsed, coming, sent)
      /\ d \in Seq(Symbol) /\ d # <<>> /\ Len(d) = n /\ Run(d) /\ DOMAIN d = 1..n /\ d[1] = coming[1]
      /\ \A p \in 1..n : p \in DOMAIN coming /\ d[p] = coming[p]
      /\ c \in Seq(Symbol) /\ EndOf(c, coming, n) /\ n \in Nat /\ n >= 1 /\ n <= Len(coming) /\ Len(coming) \in Nat
      /\ DOMAIN coming = 1..Len(coming)
  BY <1>1, ReadFacts
<1>3. PICK i, k : coming[1] = <<i, k>>
  BY <1>1, ReadFacts
<1>4. PICK whole : whole = m_msgData \o SubSeq(coming, 1, n)
  OBVIOUS
<1>5. /\ coming' = c /\ rest' = <<>> /\ size' = size /\ sent' = sent /\ breaks' = breaks
      /\ m_msgData' = whole /\ m_msgLength' = m_msgLength /\ m_cmdType' = m_cmdType
      /\ parsed' = (IF Len(whole) = m_msgLength THEN parsed \o Found(m_cmdType, whole) ELSE parsed)
      /\ owed' = owed \ Spoilt(d)
  BY <1>1, <1>4 DEF ReadPiece, ReadMore, Expected
<1>6. /\ parsed' \in Seq((Message \union {None}) \X Message) /\ Before(parsed', c, sent) /\ Extends(parsed', parsed)
      /\ Len(whole) = m_msgLength /\ IsBody(whole) /\ whole[1][1] = m_cmdType => Handed(parsed', m_cmdType)
  <2>1. CASE Len(whole) = m_msgLength
    <3>1. PICK ps : ps = parsed \o Found(m_cmdType, whole)
      OBVIOUS
    <3>2. Before(ps, c, sent) /\ ps \in Seq((Message \union {None}) \X Message) /\ Extends(ps, parsed)
      BY <1>1, <1>2, <1>4, <3>1, EndFound
    <3>3. IsBody(whole) /\ whole[1][1] = m_cmdType => Handed(ps, m_cmdType)
      BY <1>1, <1>2, <1>4, <3>1, EndFound
    <3> QED
      BY <1>5, <2>1, <3>1, <3>2, <3>3
  <2>2. CASE Len(whole) # m_msgLength
    <3>1. parsed \in Seq((Message \union {None}) \X Message)
      BY <1>1 DEF TypeOK
    <3>2. Before(parsed, c, sent)
      BY <1>2, BeforeEnd
    <3>3. Extends(parsed, parsed)
      BY DEF Extends
    <3> QED
      BY <1>5, <2>2, <3>1, <3>2, <3>3
  <2> QED
    BY <2>1, <2>2
<1>7. /\ whole \in Seq(Symbol) /\ whole # <<>>
      /\ whole[1][2] = Header + 1 => m_cmdType \in {whole[1][1], None}
  BY <1>1, <1>4, WholeFacts
<1>8. Unread' = c
  BY <1>2, <1>5, ConcatEmptySeq DEF Unread
<1>9. Contiguous'
  BY <1>2, <1>5, <1>8, StillContiguous
<1>10. CmdKept'
  BY <1>5, <1>7 DEF CmdKept
<1>11. TypeOK'
  BY <1>1, <1>2, <1>5, <1>6, <1>7 DEF TypeOK, Spoilt
<1>12. \A j \in owed : /\ j <= sent /\ (Has(coming, j) => j = i /\ Partly(i))
                       /\ (~Has(coming, j) => Handed(parsed, j))
  BY <1>1, <1>2, <1>3, MiddleStep
<1>13. /\ i \in Message /\ k \in Nat /\ k >= 1 /\ LastAt(i, k) \in Nat /\ LastAt(i, k) >= 1 /\ HeadIs(coming, i, k)
       /\ d[1] = <<i, k>>
  BY <1>1, <1>2, <1>3, FromHeadAt
<1>14. PICK e \in Nat : e = LastAt(i, k) /\ e >= 1
  BY <1>13
<1>15. n <= e + 1
  <2>1. ~(e <= n - 2)
    BY <1>1, <1>2, <1>13, <1>14, TailFacts
  <2> QED
    BY <1>2, <2>1
<1>16. ASSUME n = e + 1 PROVE i \notin owed'
  <2>1. e \in DOMAIN coming /\ n \in DOMAIN coming /\ n >= 2 /\ n - 1 = e /\ e \in 1..n /\ n \in 1..n
    <3>1. e \in Nat /\ e >= 1 /\ n = e + 1 /\ n \in Nat /\ n <= Len(coming) /\ Len(coming) \in Nat
      BY <1>2, <1>14, <1>16
    <3>2. e \in 1..Len(coming) /\ n \in 1..Len(coming) /\ n >= 2 /\ n - 1 = e /\ e \in 1..n /\ n \in 1..n
      BY <3>1
    <3> QED
      BY <1>2, <3>2
  <2>2. coming[e] = End(i) /\ coming[n][2] = 1
    BY <1>13, <1>14, <1>16, <2>1 DEF HeadIs
  <2>3. d[n - 1][1] = i /\ d[n][2] = 1
    BY <1>2, <2>1, <2>2 DEF End
  <2>4. Spoilt(d) = {i}
    BY <1>1, <1>2, <2>1, <2>3 DEF Spoilt
  <2> QED
    BY <1>5, <2>4
<1>17. ASSUME n = e, Partly(i) PROVE Handed(parsed', i) /\ ~Has(c, i)
  <2>1. whole = Body(i)
    BY <1>1, <1>3, <1>4, <1>14, <1>17, PartlyEnd
  <2>2. IsBody(whole) /\ whole[1][1] = i /\ Len(whole) = size[i]
    BY <1>1, <1>13, <2>1, BodyIsBody
  <2>3. m_msgLength = size[i] /\ m_cmdType = i
    BY <1>17 DEF Partly
  <2>4. n \in DOMAIN coming /\ n <= n /\ coming[n] = End(i)
    BY <1>2, <1>13, <1>14, <1>17 DEF HeadIs
  <2>5. ~Has(c, i)
    BY <1>1, <1>2, <2>4, Behind
  <2> QED
    BY <1>6, <2>2, <2>3, <2>5
<1>18. ASSUME n < e, Partly(i) PROVE Has(c, i) /\ Partly(i)'
  <2>1. coming[Len(coming)] = End(sent)
    BY <1>1, ReadFacts
  <2>2. e \in DOMAIN coming
    BY <1>1, <1>2, <1>3, <1>14, <2>1, EndThere DEF LastAt
  <2>3. n + 1 \in DOMAIN coming /\ n + 1 <= e
    BY <1>2, <1>14, <1>18, <2>2
  <2>4. coming[n + 1] = <<i, k + n>>
    <3>1. coming[n + 1] = <<i, k + ((n + 1) - 1)>>
      BY <1>13, <1>14, <2>3 DEF HeadIs
    <3>2. (n + 1) - 1 = n
      BY <1>2
    <3> QED
      BY <3>1, <3>2
  <2>5. 1 \in DOMAIN c /\ c[1] = <<i, k + n>>
    BY <1>2, <2>3, <2>4, EndBegins
  <2>6. Has(c, i)
    <3>1. c[1][1] = i
      BY <2>5
    <3> QED
      BY <2>5, <3>1 DEF Has
  <2>7. n <= LastAt(i, k)
    BY <1>2, <1>14, <1>18
  <2>8. PICK m : m = k + n - 1
    OBVIOUS
  <2>9. PartIs(whole, i, k, m)
    BY <1>1, <1>3, <1>4, <1>18, <2>7, <2>8, PartlyWhole
  <2>10. m \in Int /\ m + 1 = k + n /\ m + 1 > Header /\ (m + 1) - 1 = m
    <3>1. k > Header
      BY <2>9 DEF PartIs
    <3> QED
      BY <1>2, <1>13, <2>8, <3>1 DEF Header
  <2>11. c[1] = <<i, m + 1>>
    BY <2>5, <2>10
  <2>12. c[1][1] = i /\ c[1][2] = m + 1
    <3>1. \A z, x, y : z = <<x, y>> => z[1] = x /\ z[2] = y
      OBVIOUS
    <3> QED
      BY <2>11, <3>1
  <2>13. whole = BodyTo(i, m - Header)
    BY <2>9 DEF PartIs
  <2>14. c[1][2] - 1 = m
    BY <2>10, <2>12
  <2>15. whole = BodyTo(i, c[1][2] - 1 - Header)
    BY <2>13, <2>14
  <2>16. m_msgLength' = size'[i] /\ m_cmdType' = i /\ rest' = <<>> /\ coming' = c /\ m_msgData' = whole
    BY <1>5, <1>18 DEF Partly
  <2>17. c[1][2] > Header
    BY <2>10, <2>12
  <2> QED
    BY <2>6, <2>12, <2>15, <2>16, <2>17 DEF Partly
<1>19. OwedKept'
  <2>1. ASSUME NEW j \in owed'
        PROVE  j <= sent' /\ (Has(c, j) => Partly(j)') /\ (~Has(c, j) => Handed(parsed', j))
    <3>1. j \in owed /\ j <= sent
      BY <1>5, <1>12
    <3>2. CASE ~Has(coming, j)
      <4>1. ~Has(c, j)
        BY <1>2, <3>2, PartHas
      <4>2. Handed(parsed', j)
        BY <1>6, <1>12, <3>1, <3>2, StillHanded
      <4> QED
        BY <1>5, <3>1, <4>1, <4>2
    <3>3. CASE Has(coming, j)
      <4>1. j = i /\ Partly(i) /\ n # e + 1
        BY <1>12, <1>16, <2>1, <3>1, <3>3
      <4>2. n = e \/ n < e
        BY <1>2, <1>14, <1>15, <4>1
      <4> QED
        BY <1>5, <1>17, <1>18, <3>1, <4>1, <4>2
    <3> QED
      BY <3>2, <3>3
  <2>2. \A j : ~Has(rest', j)
    BY <1>5 DEF Has
  <2> QED
    BY <1>5, <2>1, <2>2 DEF OwedKept, Has, Handed
<1>20. Before(parsed', Unread', sent')
  BY <1>5, <1>6, <1>8
<1> QED
  BY <1>9, <1>10, <1>11, <1>19, <1>20 DEF IInv

(***************************************************************************)
(* checkReadData.                                                          *)
(***************************************************************************)
LEMMA RunOfFirst ==
    ASSUME NEW u \in Seq(Symbol), NEW v \in Seq(Symbol), Run(u \o v)
    PROVE  Run(u)
<1> DEFINE s == u \o v
<1>1. \A p \in DOMAIN u : p \in DOMAIN s /\ s[p] = u[p]
  BY ConcatFacts
<1>2. Run(s)
  OBVIOUS
<1> HIDE DEF s
<1>3. \A p \in DOMAIN u : u[p][2] <= Header + size[u[p][1]]
  BY <1>1, <1>2 DEF Run
<1>4. ASSUME NEW p \in DOMAIN u, NEW q \in DOMAIN u, p <= q
      PROVE  LET k == u[p][2] + (q - p)
                 last == Header + size[u[p][1]]
             IN /\ k <= last => u[q] = <<u[p][1], k>>
                /\ k > last => u[q][1] > u[p][1]
                /\ k = last + 1 => u[q][2] = 1
  BY <1>1, <1>2, <1>4 DEF Run
<1> QED
  BY <1>3, <1>4 DEF Run

CheckFacts ==
    /\ TypeOK /\ CmdKept /\ rest \in Seq(Symbol) /\ coming \in Seq(Symbol) /\ Unread \in Seq(Symbol) /\ Unread = rest \o coming
    /\ Run(Unread) /\ Run(rest) /\ EndOf(coming, Unread, Len(rest)) /\ Before(parsed, Unread, sent)
    /\ m_msgData \in Seq(Symbol) /\ m_msgData # <<>>
    /\ parsed \in Seq((Message \union {None}) \X Message) /\ sent \in Nat
    /\ Len(rest) \in Nat /\ DOMAIN rest = 1..Len(rest)
    /\ \A p \in DOMAIN rest : p \in DOMAIN Unread /\ Unread[p] = rest[p]
    /\ \A j \in owed : /\ j <= sent /\ ~Has(coming, j)
                       /\ Has(rest, j) => rest[1][2] = 1 /\ \E p \in DOMAIN rest : rest[p] = End(j)
                       /\ ~Has(rest, j) => Handed(parsed, j)

LEMMA Checking ==
    ASSUME IInv, rest # <<>>
    PROVE  CheckFacts
<1>1. TypeOK /\ CmdKept /\ rest \in Seq(Symbol) /\ coming \in Seq(Symbol) /\ m_msgData \in Seq(Symbol)
  BY DEF IInv, TypeOK
<1>2. parsed \in Seq((Message \union {None}) \X Message) /\ sent \in Nat
  BY <1>1, ConstantsAssumption DEF TypeOK
<1>3. Unread = rest \o coming /\ Run(Unread) /\ Before(parsed, Unread, sent)
  BY DEF IInv, Contiguous, Unread
<1>4. /\ Unread \in Seq(Symbol) /\ EndOf(coming, Unread, Len(rest)) /\ Len(rest) \in Nat
      /\ \A p \in DOMAIN rest : p \in DOMAIN Unread /\ Unread[p] = rest[p]
  BY <1>1, <1>3, ConcatFacts
<1>5. Run(rest)
  BY <1>1, <1>3, RunOfFirst
<1>6. m_msgData # <<>>
  BY <1>1 DEF CmdKept
<1>7. ASSUME NEW j \in owed
      PROVE  /\ j <= sent /\ ~Has(coming, j)
             /\ Has(rest, j) => rest[1][2] = 1 /\ \E p \in DOMAIN rest : rest[p] = End(j)
             /\ ~Has(rest, j) => Handed(parsed, j)
  <2>1. ~Partly(j)
    BY DEF Partly
  <2> QED
    BY <2>1 DEF IInv, OwedKept
<1>8. DOMAIN rest = 1..Len(rest)
  BY <1>1, SymbolFacts
<1> QED
  BY <1>1, <1>2, <1>3, <1>4, <1>5, <1>6, <1>7, <1>8 DEF CheckFacts

OwedIn(u, qs) ==
    \A j \in owed : /\ Has(u, j) => u[1][2] = 1 /\ \E p \in DOMAIN u : u[p] = End(j)
                    /\ ~Has(u, j) => Handed(qs, j)

\* What is left for the next call is u.
LEMMA CheckStep ==
    ASSUME IInv, rest # <<>>, NEW u \in Seq(Symbol), NEW a \in Nat, EndOf(u \o coming, Unread, a),
           NEW qs \in Seq((Message \union {None}) \X Message), Before(qs, u \o coming, sent), OwedIn(u, qs)
    PROVE  /\ rest' = u /\ parsed' = qs /\ m_cmdType' = m_cmdType /\ m_msgLength' \in 0..MaxSize
           /\ m_msgData' \in Seq(Symbol) /\ m_msgData' # <<>> /\ m_msgData'[1] = m_msgData[1]
           /\ UNCHANGED <<size, sent, coming, breaks, owed>>
           => IInv'
<1> SUFFICES ASSUME rest' = u, parsed' = qs, m_cmdType' = m_cmdType, m_msgLength' \in 0..MaxSize,
                    m_msgData' \in Seq(Symbol), m_msgData' # <<>>, m_msgData'[1] = m_msgData[1],
                    UNCHANGED <<size, sent, coming, breaks, owed>>
             PROVE  IInv'
  OBVIOUS
<1>1. CheckFacts
  BY Checking
<1>2. size' = size /\ sent' = sent /\ coming' = coming /\ breaks' = breaks /\ owed' = owed
  OBVIOUS
<1>3. Unread' = u \o coming
  BY <1>2 DEF Unread
<1>4. TypeOK'
  BY <1>1, <1>2 DEF TypeOK, CheckFacts
<1>5. Contiguous'
  <2>1. Unread \in Seq(Symbol) /\ u \o coming \in Seq(Symbol)
    BY <1>1, ConcatFacts DEF CheckFacts
  <2> QED
    BY <1>2, <1>3, <2>1, StillContiguous
<1>6. Before(parsed', Unread', sent')
  BY <1>2, <1>3
<1>7. CmdKept'
  BY <1>1 DEF CmdKept, CheckFacts
<1>8. OwedKept'
  <2>1. ASSUME NEW j \in owed PROVE ~Has(coming', j) /\ j <= sent'
    BY <1>1, <1>2 DEF CheckFacts
  <2>2. ASSUME NEW j \in owed
        PROVE  /\ Has(rest', j) => rest'[1][2] = 1 /\ \E p \in DOMAIN rest' : rest'[p] = End(j)'
               /\ ~Has(rest', j) => Handed(parsed', j)
    <3>1. End(j)' = End(j)
      BY <1>2 DEF End
    <3> QED
      BY <3>1 DEF OwedIn
  <2> QED
    BY <1>2, <2>1, <2>2 DEF OwedKept, Has, Handed
<1> QED
  BY <1>4, <1>5, <1>6, <1>7, <1>8 DEF IInv

\* Nothing is found, and nothing is left.
LEMMA CheckEnds ==
    ASSUME IInv, rest # <<>>, \A j \in owed : ~Has(rest, j)
    PROVE  /\ rest' = <<>> /\ parsed' = parsed /\ m_cmdType' = m_cmdType /\ m_msgLength' \in 0..MaxSize
           /\ m_msgData' \in Seq(Symbol) /\ m_msgData' # <<>> /\ m_msgData'[1] = m_msgData[1]
           /\ UNCHANGED <<size, sent, coming, breaks, owed>>
           => IInv'
<1>1. CheckFacts
  BY Checking
<1>2. /\ coming \in Seq(Symbol) /\ Unread \in Seq(Symbol) /\ EndOf(coming, Unread, Len(rest))
      /\ Before(parsed, Unread, sent) /\ Len(rest) \in Nat /\ parsed \in Seq((Message \union {None}) \X Message)
  BY <1>1 DEF CheckFacts
<1>3. Before(parsed, coming, sent)
  BY <1>2, BeforeEnd
<1>4. <<>> \in Seq(Symbol) /\ <<>> \o coming = coming
  BY <1>2, EmptySeq, ConcatEmptySeq
<1>5. OwedIn(<<>>, parsed)
  <2>1. \A j : ~Has(<<>>, j)
    BY DEF Has
  <2>2. \A j \in owed : Handed(parsed, j)
    BY <1>1 DEF CheckFacts
  <2> QED
    BY <2>1, <2>2 DEF OwedIn
<1> QED
  BY <1>2, <1>3, <1>4, <1>5, CheckStep

LEMMA InEnd ==
    ASSUME NEW s \in Seq(Symbol), NEW t \in Seq(Symbol), NEW a \in Nat, EndOf(t, s, a), NEW p \in DOMAIN s, ~(p <= a)
    PROVE  a + 1 \in DOMAIN s /\ \E q \in DOMAIN t : t[q] = s[p]
<1>1. Len(s) \in Nat /\ DOMAIN s = 1..Len(s) /\ Len(t) \in Nat /\ DOMAIN t = 1..Len(t)
  BY SymbolFacts
<1>2. Len(s) = a + Len(t)
  BY DEF EndOf
<1>3. p - a \in 1..Len(t) /\ a + (p - a) = p /\ a + 1 \in 1..Len(s)
  BY <1>1, <1>2
<1>4. t[p - a] = s[a + (p - a)]
  BY <1>3 DEF EndOf
<1> QED
  BY <1>1, <1>3, <1>4

\* Where the message at the head of rest ends.
LEMMA CheckHead ==
    ASSUME IInv, rest # <<>>, NEW i, rest[1] = <<i, 1>>
    PROVE  /\ i \in Message /\ size[i] \in Nat /\ size[i] >= 1
           /\ \A p \in DOMAIN rest : /\ p <= Header + size[i] => rest[p] = <<i, p>>
                                     /\ p = Header + size[i] + 1 => rest[p][2] = 1
           /\ \A j, p : p \in DOMAIN rest /\ p <= Header + size[i] /\ rest[p] = End(j) => p = Header + size[i] /\ j = i
<1>1. TypeOK /\ rest \in Seq(Symbol) /\ Run(rest)
  BY Checking DEF CheckFacts
<1>2. /\ i \in Message
      /\ \A p \in DOMAIN rest : /\ p <= Header + size[i] => rest[p] = <<i, p>>
                                /\ p = Header + size[i] + 1 => rest[p][2] = 1
  BY <1>1, HeaderFacts
<1>3. size[i] \in Nat /\ size[i] >= 1
  BY <1>1, <1>2, Sizes
<1>4. ASSUME NEW j, NEW p, p \in DOMAIN rest, p <= Header + size[i], rest[p] = End(j)
      PROVE  p = Header + size[i] /\ j = i
  <2>1. <<i, p>> = <<j, Header + size[j]>>
    BY <1>2, <1>4 DEF End
  <2>2. i = j /\ p = Header + size[j]
    BY <2>1
  <2> QED
    BY <2>2
<1> QED
  BY <1>2, <1>3, <1>4

\* The message at the head of rest is not all there.
LEMMA CheckShort ==
    ASSUME IInv, rest # <<>>, NEW i, rest[1] = <<i, 1>>, Len(rest) < Header + size[i]
    PROVE  \A j \in owed : ~Has(rest, j)
<1>1. CheckFacts
  BY Checking
<1>2. ASSUME NEW j \in owed, Has(rest, j) PROVE FALSE
  <2>1. PICK p \in DOMAIN rest : rest[p] = End(j)
    BY <1>1, <1>2 DEF CheckFacts
  <2>2. size[i] \in Nat
    BY CheckHead
  <2>3. p \in Nat /\ p < Header + size[i]
    <3> DEFINE z == size[i]
    <3>1. z \in Nat /\ Len(rest) \in Nat /\ p \in 1..Len(rest) /\ Len(rest) < 3 + z
      BY <1>1, <2>1, <2>2 DEF CheckFacts, Header
    <3> HIDE DEF z
    <3>2. p \in Nat /\ p < 3 + z
      BY <3>1
    <3> QED
      BY <3>2 DEF z, Header
  <2>4. p <= Header + size[i]
    BY <2>2, <2>3 DEF Header
  <2>5. p = Header + size[i]
    BY <2>1, <2>4, CheckHead
  <2> QED
    BY <2>2, <2>3, <2>5 DEF Header
<1> QED
  BY <1>2

\* A message is found and removed.
LEMMA CheckWhole ==
    ASSUME IInv, rest # <<>>, NEW i, rest[1] = <<i, 1>>, Len(rest) >= Header + size[i],
           NEW u, u = SubSeq(AfterHeader(rest), size[i] + 1, Len(AfterHeader(rest))),
           NEW qs, qs = parsed \o Found(i, Body(i))
    PROVE  /\ rest' = u /\ parsed' = qs
           /\ UNCHANGED <<size, sent, coming, breaks, owed, m_msgData, m_msgLength, m_cmdType>>
           => IInv'
<1> SUFFICES ASSUME rest' = u, parsed' = qs,
                    UNCHANGED <<size, sent, coming, breaks, owed, m_msgData, m_msgLength, m_cmdType>>
             PROVE  IInv'
  OBVIOUS
<1>1. CheckFacts
  BY Checking
<1>2. /\ TypeOK /\ rest \in Seq(Symbol) /\ coming \in Seq(Symbol) /\ Unread \in Seq(Symbol) /\ Unread = rest \o coming
      /\ Run(Unread) /\ Run(rest) /\ Before(parsed, Unread, sent) /\ sent \in Nat
      /\ parsed \in Seq((Message \union {None}) \X Message)
      /\ Len(rest) \in Nat /\ DOMAIN rest = 1..Len(rest)
      /\ \A p \in DOMAIN rest : p \in DOMAIN Unread /\ Unread[p] = rest[p]
  BY <1>1 DEF CheckFacts
<1>3. i \in Message /\ size[i] \in Nat /\ size[i] >= 1
  BY CheckHead
<1>4. PICK a \in Nat : a = Header + size[i] /\ a >= 1
  <2> DEFINE z == size[i]
  <2>1. z \in Nat
    BY <1>3
  <2> HIDE DEF z
  <2>2. 3 + z \in Nat /\ 3 + z >= 1
    BY <2>1
  <2> QED
    BY <2>2 DEF z, Header
<1>5. a \in DOMAIN rest /\ rest[a] = End(i)
  <2>1. a \in DOMAIN rest
    BY <1>2, <1>4
  <2>2. a <= Header + size[i]
    BY <1>4
  <2>3. rest[a] = <<i, a>>
    BY <2>1, <2>2, CheckHead
  <2> QED
    BY <1>4, <2>1, <2>3 DEF End
<1>6. u \in Seq(Symbol) /\ EndOf(u, rest, a)
  BY <1>2, <1>4, BehindHeader
<1>7. EndOf(u \o coming, Unread, a) /\ u \o coming \in Seq(Symbol)
  BY <1>2, <1>6, EndBefore, ConcatFacts
<1>8. IsBody(Body(i)) /\ Body(i)[1][1] = i
  BY <1>2, <1>3, BodyIsBody
<1>9. Before(qs, u \o coming, sent) /\ qs \in Seq((Message \union {None}) \X Message)
  <2>1. a \in DOMAIN Unread /\ a <= a /\ Unread[a] = End(i)
    BY <1>2, <1>5
  <2>2. PICK data : data = Body(i)
    OBVIOUS
  <2>3. IsBody(data) => i \in {data[1][1], None} /\ \E p \in DOMAIN Unread : p <= a /\ Unread[p] = End(data[1][1])
    BY <1>8, <2>1, <2>2
  <2>4. TypeOK /\ Unread \in Seq(Symbol) /\ Run(Unread) /\ sent \in Nat /\ Before(parsed, Unread, sent)
        /\ parsed \in Seq((Message \union {None}) \X Message) /\ i \in Message \union {None}
    BY <1>2, <1>3
  <2>5. /\ Before(parsed \o Found(i, data), u \o coming, sent)
        /\ parsed \o Found(i, data) \in Seq((Message \union {None}) \X Message)
    BY <1>7, <2>3, <2>4, FoundKeeps
  <2> QED
    BY <2>2, <2>5
<1>10. Extends(qs, parsed) /\ Handed(qs, i)
  BY <1>2, <1>3, <1>8, FoundAdds
<1>11. OwedIn(u, qs)
  <2>1. ASSUME NEW j \in owed, Has(u, j) PROVE u[1][2] = 1 /\ \E p \in DOMAIN u : u[p] = End(j)
    <3>1. Has(rest, j)
      BY <1>2, <1>6, <2>1, PartHas
    <3>2. PICK p \in DOMAIN rest : rest[p] = End(j)
      BY <1>1, <3>1 DEF CheckFacts
    <3>3. ~(p <= a)
      BY <1>2, <1>6, <2>1, <3>2, Behind
    <3>4. a + 1 \in DOMAIN rest /\ \E q \in DOMAIN u : u[q] = rest[p]
      <4>1. rest \in Seq(Symbol)
        BY <1>2
      <4> QED
        BY <1>6, <3>3, <4>1, InEnd
    <3>5. u[1] = rest[a + 1]
      BY <1>2, <1>6, <3>4, EndBegins
    <3>6. a + 1 = Header + size[i] + 1
      BY <1>4
    <3>7. rest[a + 1][2] = 1
      BY <3>4, <3>6, CheckHead
    <3> QED
      BY <3>2, <3>4, <3>5, <3>7
  <2>2. ASSUME NEW j \in owed, ~Has(u, j) PROVE Handed(qs, j)
    <3>1. CASE ~Has(rest, j)
      <4>1. Handed(parsed, j)
        BY <1>1, <3>1 DEF CheckFacts
      <4> QED
        BY <1>10, <4>1, StillHanded
    <3>2. CASE Has(rest, j)
      <4>1. PICK p \in DOMAIN rest : rest[p] = End(j)
        BY <1>1, <3>2 DEF CheckFacts
      <4>2. CASE p <= a
        <5>1. j = i
          BY <1>4, <4>1, <4>2, CheckHead
        <5> QED
          BY <1>10, <5>1
      <4>3. CASE ~(p <= a)
        <5>0. rest \in Seq(Symbol)
          BY <1>2
        <5>1. PICK q \in DOMAIN u : u[q] = rest[p]
          BY <1>6, <4>3, <5>0, InEnd
        <5>2. u[q][1] = j
          <6>1. u[q] = End(j)
            BY <4>1, <5>1
          <6>2. End(j)[1] = j
            BY DEF End
          <6> QED
            BY <6>1, <6>2
        <5> QED
          BY <2>2, <5>1, <5>2 DEF Has
      <4> QED
        BY <4>2, <4>3
    <3> QED
      BY <3>1, <3>2
  <2> QED
    BY <2>1, <2>2 DEF OwedIn
<1>12. /\ m_cmdType' = m_cmdType /\ m_msgLength' \in 0..MaxSize
       /\ m_msgData' \in Seq(Symbol) /\ m_msgData' # <<>> /\ m_msgData'[1] = m_msgData[1]
       /\ UNCHANGED <<size, sent, coming, breaks, owed>>
  BY <1>1 DEF CheckFacts, TypeOK
<1> QED
  BY <1>6, <1>7, <1>9, <1>11, <1>12, CheckStep

LEMMA CheckPreserves == IInv /\ CheckRead => IInv'
<1> SUFFICES ASSUME IInv, CheckRead PROVE IInv'
  OBVIOUS
<1>1. rest # <<>> /\ UNCHANGED <<size, sent, coming, breaks, owed>>
  BY DEF CheckRead
<1>2. CheckFacts
  BY <1>1, Checking
<1>3. /\ TypeOK /\ rest \in Seq(Symbol) /\ Run(rest) /\ m_msgData \in Seq(Symbol) /\ m_msgData # <<>>
      /\ Len(rest) \in Nat /\ DOMAIN rest = 1..Len(rest)
  BY <1>2 DEF CheckFacts
<1>4. m_msgLength \in 0..MaxSize
  BY <1>3 DEF TypeOK
<1>5. Len(rest) >= 1 /\ 1 \in DOMAIN rest /\ rest[1] = <<rest[1][1], rest[1][2]>>
  <2>1. Len(rest) # 0
    BY <1>1, <1>3, EmptySeq
  <2> QED
    BY <1>3, <2>1, SymbolFacts
<1>6. PICK i, k : rest[1] = <<i, k>>
  BY <1>5
<1>7. \A z, x, y : z = <<x, y>> => z[1] = x /\ z[2] = y
  OBVIOUS
<1>8. rest[1][1] = i /\ rest[1][2] = k
  BY <1>6, <1>7
<1>9. CASE ~HasMagic(rest)
  <2>1. rest' = <<>> /\ UNCHANGED <<m_msgData, m_msgLength, m_cmdType, parsed>>
    BY <1>9 DEF CheckRead
  <2>2. ASSUME NEW j \in owed, Has(rest, j) PROVE FALSE
    <3>1. k = 1
      BY <1>2, <1>8, <2>2 DEF CheckFacts
    <3>2. Len(rest) < 2
      BY <1>1, <1>3, <1>6, <1>9, <3>1, HeaderFacts
    <3>3. size[i] \in Nat
      BY <1>1, <1>6, <3>1, CheckHead
    <3>4. Len(rest) < Header + size[i]
      BY <1>3, <3>2, <3>3 DEF Header
    <3> QED
      BY <1>1, <1>6, <2>2, <3>1, <3>4, CheckShort
  <2> QED
    BY <1>1, <1>3, <1>4, <2>1, <2>2, CheckEnds
<1>10. CASE HasMagic(rest)
  <2>1. rest[1] = <<i, 1>>
    BY <1>6, <1>8, <1>10 DEF HasMagic
  <2>2. size[i] \in Nat /\ size[i] >= 1 /\ i \in Message
    BY <1>1, <2>1, CheckHead
  <2>3. /\ LengthIn(rest) \in 0..MaxSize /\ LengthIn(rest) \in Nat
        /\ AfterHeader(rest) \in Seq(Symbol) /\ Len(AfterHeader(rest)) \in Nat
    BY <1>3, Reading
  <2>4. CASE Len(rest) < Header + size[i]
    <3>1. \A j \in owed : ~Has(rest, j)
      BY <1>1, <2>1, <2>4, CheckShort
    <3>2. CASE Len(rest) >= Header
      <4>1. LengthIn(rest) = size[i] /\ Len(AfterHeader(rest)) = Len(rest) - Header
        BY <1>1, <1>3, <2>1, <3>2, HeaderFacts
      <4>2. Len(AfterHeader(rest)) < LengthIn(rest)
        BY <1>3, <2>2, <2>4, <4>1 DEF Header
      <4>3. CheckPartial(LengthIn(rest), AfterHeader(rest)) /\ rest' = <<>> /\ parsed' = parsed
        BY <1>10, <2>3, <4>2 DEF CheckRead
      <4>4. /\ m_msgLength' = LengthIn(rest) /\ m_cmdType' = m_cmdType
            /\ m_msgData' = m_msgData \o AfterHeader(rest)
        BY <4>3 DEF CheckPartial
      <4>5. 1 \in DOMAIN m_msgData
        BY <1>3, SymbolFacts, EmptySeq
      <4>6. /\ m_msgData \o AfterHeader(rest) \in Seq(Symbol)
            /\ 1 \in DOMAIN (m_msgData \o AfterHeader(rest))
            /\ (m_msgData \o AfterHeader(rest))[1] = m_msgData[1]
        BY <1>3, <2>3, <4>5, ConcatFacts
      <4>7. m_msgData' \in Seq(Symbol) /\ m_msgData' # <<>> /\ m_msgData'[1] = m_msgData[1]
        BY <4>4, <4>6
      <4> QED
        BY <1>1, <2>3, <3>1, <4>3, <4>4, <4>7, CheckEnds
    <3>3. CASE ~(Len(rest) >= Header)
      <4>1. LengthIn(rest) = 0 /\ AfterHeader(rest) = <<>>
        <5>1. Len(rest) < Header
          BY <1>3, <3>3 DEF Header
        <5> QED
          BY <1>1, <1>3, <2>1, <5>1, HeaderFacts
      <4>2. Len(AfterHeader(rest)) = 0
        BY <4>1
      <4>3. /\ parsed' = parsed \o Found(CommandIn(rest), SubSeq(<<>>, 1, 0))
            /\ rest' = SubSeq(<<>>, 0 + 1, 0)
            /\ UNCHANGED <<m_msgData, m_msgLength, m_cmdType>>
        BY <1>10, <4>1, <4>2 DEF CheckRead
      <4>4. SubSeq(<<>>, 1, 0) = <<>> /\ SubSeq(<<>>, 0 + 1, 0) = <<>>
        OBVIOUS
      <4>5. Found(CommandIn(rest), <<>>) = <<>>
        BY DEF Found
      <4>6. parsed \o <<>> = parsed
        BY <1>3, ConcatEmptySeq DEF TypeOK
      <4>7. rest' = <<>> /\ parsed' = parsed
        BY <4>3, <4>4, <4>5, <4>6
      <4> QED
        BY <1>1, <1>3, <1>4, <3>1, <4>3, <4>7, CheckEnds
    <3> QED
      BY <3>2, <3>3
  <2>5. CASE ~(Len(rest) < Header + size[i])
    <3>1. Len(rest) >= Header + size[i] /\ Len(rest) >= Header
      <4> DEFINE z == size[i]
      <4>1. z \in Nat /\ ~(Len(rest) < 3 + z)
        BY <2>2, <2>5 DEF Header
      <4> HIDE DEF z
      <4>2. Len(rest) >= 3 + z /\ Len(rest) >= 3
        BY <1>3, <4>1
      <4> QED
        BY <4>2 DEF z, Header
    <3>2. LengthIn(rest) = size[i] /\ CommandIn(rest) = i /\ Len(AfterHeader(rest)) = Len(rest) - Header
      BY <1>1, <1>3, <2>1, <3>1, HeaderFacts
    <3>3. Len(AfterHeader(rest)) >= LengthIn(rest) /\ ~(Len(AfterHeader(rest)) < LengthIn(rest))
      BY <1>3, <2>2, <3>1, <3>2 DEF Header
    <3>4. /\ parsed' = parsed \o Found(CommandIn(rest), SubSeq(AfterHeader(rest), 1, LengthIn(rest)))
          /\ rest' = SubSeq(AfterHeader(rest), LengthIn(rest) + 1, Len(AfterHeader(rest)))
          /\ UNCHANGED <<m_msgData, m_msgLength, m_cmdType>>
      BY <1>10, <3>3 DEF CheckRead
    <3>5. SubSeq(AfterHeader(rest), 1, size[i]) = Body(i)
      BY <1>1, <1>3, <2>1, <3>1, BehindHeader
    <3>6. /\ parsed' = parsed \o Found(i, Body(i))
          /\ rest' = SubSeq(AfterHeader(rest), size[i] + 1, Len(AfterHeader(rest)))
      BY <3>2, <3>4, <3>5
    <3> QED
      BY <1>1, <2>1, <3>1, <3>4, <3>6, CheckWhole
  <2> QED
    BY <2>4, <2>5
<1> QED
  BY <1>9, <1>10

(***************************************************************************)
(* The back end sends, the connection breaks.                              *)
(***************************************************************************)
LEMMA PieceFacts ==
    ASSUME TypeOK, NEW m \in Message, NEW t, t = Piece(m)
    PROVE  /\ t \in Seq(Symbol) /\ Len(t) \in Nat /\ Len(t) = Header + size[m] /\ Len(t) >= 1
           /\ DOMAIN t = 1..Len(t) /\ 1 \in DOMAIN t
           /\ \A q \in DOMAIN t : t[q] = <<m, q>>
           /\ Len(t) \in DOMAIN t /\ t[Len(t)] = End(m)
<1> DEFINE z == size[m]
<1>1. z \in Nat /\ z >= 1 /\ z <= MaxSize /\ MaxSize \in Nat
  BY Sizes, ConstantsAssumption
<1>2. t = [k \in 1..(Header + z) |-> <<m, k>>]
  BY DEF Piece
<1>3. \A k \in 1..(Header + z) : <<m, k>> \in Symbol
  <2> HIDE DEF z
  <2>1. \A k \in 1..(3 + z) : k \in 1..(3 + MaxSize)
    BY <1>1
  <2> QED
    BY <2>1 DEF Symbol, Header
<1>4. Header + z \in Nat /\ Header + z >= 1
  <2> HIDE DEF z
  <2> QED
    BY <1>1 DEF Header
<1> HIDE DEF z
<1>5. t \in Seq(Symbol)
  BY <1>2, <1>3, <1>4
<1>6. DOMAIN t = 1..(Header + z) /\ \A q \in DOMAIN t : t[q] = <<m, q>>
  BY <1>2
<1>7. Len(t) = Header + z
  BY <1>4, <1>5, <1>6, LenProperties
<1>8. Len(t) \in DOMAIN t /\ 1 \in DOMAIN t
  BY <1>4, <1>6, <1>7
<1>9. t[Len(t)] = End(m)
  BY <1>6, <1>7, <1>8 DEF End, z
<1> QED
  BY <1>4, <1>5, <1>6, <1>7, <1>8, <1>9 DEF z

EndsWith(s, l) == (s # <<>> => s[Len(s)] = End(l)) /\ \A p \in DOMAIN s : s[p][1] <= l

LEMMA Across ==
    ASSUME NEW x \in Nat, NEW n \in Nat, NEW p \in 1..n, NEW r \in Nat, r >= 1, NEW last \in Nat, x + (n - p) >= last
    PROVE  ~(x + ((n + r) - p) <= last) /\ (x + ((n + r) - p) = last + 1 => r = 1)
OBVIOUS

PastIs(s, l, p, r) ==
    LET k == s[p][2] + ((Len(s) + r) - p)
        last == Header + size[s[p][1]]
    IN s[p][1] <= l /\ ~(k <= last) /\ (k = last + 1 => r = 1)

\* From a symbol of s, all that lies behind s belongs to the message l + 1.
LEMMA RunPast ==
    ASSUME TypeOK, NEW s \in Seq(Symbol), Run(s), NEW l \in Nat, EndsWith(s, l), NEW p \in DOMAIN s, NEW r \in Nat, r >= 1
    PROVE  PastIs(s, l, p, r)
<1>1. PICK n \in Nat : n = Len(s) /\ DOMAIN s = 1..n
  BY SymbolFacts
<1>2. PICK j, x : j = s[p][1] /\ x = s[p][2]
  OBVIOUS
<1>3. j \in Message /\ x \in Nat /\ p \in 1..n
  BY <1>1, <1>2, SymbolFacts
<1>4. PICK last \in Nat : last = Header + size[j]
  <2>1. size[j] \in Nat
    BY <1>3, Sizes
  <2> QED
    BY <2>1 DEF Header
<1>5. n \in DOMAIN s /\ p <= n
  BY <1>1, <1>3
<1>6. /\ x + (n - p) <= last => s[n] = <<j, x + (n - p)>>
  BY <1>2, <1>4, <1>5 DEF Run
<1>7. s[n] = <<l, Header + size[l]>> /\ j <= l
  <2>1. s # <<>>
    BY <1>5
  <2> QED
    BY <1>1, <1>2, <2>1 DEF EndsWith, End
<1>8. x + (n - p) >= last
  <2>1. ASSUME x + (n - p) <= last PROVE x + (n - p) = last
    <3>1. <<j, x + (n - p)>> = <<l, Header + size[l]>>
      BY <1>6, <1>7, <2>1
    <3>2. j = l /\ x + (n - p) = Header + size[l]
      BY <3>1
    <3> QED
      BY <1>4, <3>2
  <2>2. x + (n - p) \in Int
    BY <1>3
  <2> QED
    BY <2>1, <2>2
<1>9. ~(x + ((n + r) - p) <= last) /\ (x + ((n + r) - p) = last + 1 => r = 1)
  BY <1>3, <1>8, Across
<1> QED
  BY <1>1, <1>2, <1>4, <1>7, <1>9 DEF PastIs

LEMMA RunAdd ==
    ASSUME TypeOK, NEW s \in Seq(Symbol), Run(s), NEW m \in Message, NEW l \in Nat, m = l + 1, EndsWith(s, l),
           NEW t \in Seq(Symbol), t = Piece(m), NEW v, v = s \o t
    PROVE  Run(v)
<1>1. PICK w \in Nat : w = Len(t) /\ w = Header + size[m] /\ DOMAIN t = 1..w
  BY PieceFacts
<1>2. PICK n \in Nat : n = Len(s) /\ DOMAIN s = 1..n
  BY SymbolFacts
<1>3. \A q \in DOMAIN t : t[q] = <<m, q>>
  BY PieceFacts
<1>4. /\ Len(v) = n + w /\ v \in Seq(Symbol)
      /\ \A i \in 1..(n + w) : v[i] = IF i <= n THEN s[i] ELSE t[i - n]
  BY <1>1, <1>2, ConcatProperties
<1>5. DOMAIN v = 1..(n + w)
  BY <1>4, SymbolFacts
<1>6. \A p \in DOMAIN v : p <= n => p \in DOMAIN s /\ v[p] = s[p]
  BY <1>2, <1>4, <1>5
<1>7. ASSUME NEW p \in DOMAIN v, ~(p <= n)
      PROVE  \E r \in Nat : r >= 1 /\ r <= w /\ p = n + r /\ v[p] = <<m, r>>
  <2>1. p - n \in 1..w /\ p - n \in Nat /\ p - n >= 1 /\ p - n <= w /\ p = n + (p - n)
    BY <1>1, <1>2, <1>5, <1>7
  <2>2. v[p] = t[p - n]
    BY <1>4, <1>5, <1>7
  <2>3. t[p - n] = <<m, p - n>>
    BY <1>1, <1>3, <2>1
  <2> QED
    BY <2>1, <2>2, <2>3
<1>8. \A x, y : <<x, y>>[1] = x /\ <<x, y>>[2] = y
  OBVIOUS
<1>9. \A p \in DOMAIN v : v[p][2] <= Header + size[v[p][1]]
  <2> SUFFICES ASSUME NEW p \in DOMAIN v PROVE v[p][2] <= Header + size[v[p][1]]
    OBVIOUS
  <2>1. CASE p <= n
    BY <1>6, <2>1 DEF Run
  <2>2. CASE ~(p <= n)
    <3>1. PICK r \in Nat : r <= w /\ v[p] = <<m, r>>
      BY <1>7, <2>2
    <3>2. v[p][1] = m /\ v[p][2] = r
      BY <1>8, <3>1
    <3> QED
      BY <1>1, <3>1, <3>2
  <2> QED
    BY <2>1, <2>2
<1>10. ASSUME NEW p \in DOMAIN v, NEW q \in DOMAIN v, p <= q
      PROVE  LET k == v[p][2] + (q - p)
                 last == Header + size[v[p][1]]
             IN /\ k <= last => v[q] = <<v[p][1], k>>
                /\ k > last => v[q][1] > v[p][1]
                /\ k = last + 1 => v[q][2] = 1
  <2>1. CASE q <= n
    <3>1. p <= n
      BY <1>5, <1>10, <2>1
    <3>2. p \in DOMAIN s /\ q \in DOMAIN s /\ v[p] = s[p] /\ v[q] = s[q]
      BY <1>6, <2>1, <3>1
    <3> QED
      BY <1>10, <3>2 DEF Run
  <2>2. CASE ~(p <= n)
    <3>1. ~(q <= n)
      BY <1>5, <1>10, <2>2
    <3>2. PICK r \in Nat : p = n + r /\ v[p] = <<m, r>>
      BY <1>7, <2>2
    <3>3. PICK u \in Nat : q = n + u /\ v[q] = <<m, u>> /\ u <= w
      BY <1>7, <3>1
    <3>4. v[p][1] = m /\ v[p][2] = r
      <4>1. v[p] = <<m, r>>
        BY <3>2
      <4> QED
        BY <1>8, <4>1, SMTT(20)
    <3>5. r + (q - p) = u
      BY <3>2, <3>3
    <3>6. u <= Header + size[m] /\ ~(u > Header + size[m]) /\ u # Header + size[m] + 1
      <4>0. u \in Nat /\ w \in Nat /\ u <= w
        BY <1>1, <3>3
      <4>1. u <= w /\ ~(u > w) /\ u # w + 1
        BY <4>0
      <4> QED
        BY <1>1, <4>1
    <3> QED
      BY <3>3, <3>4, <3>5, <3>6
  <2>3. CASE p <= n /\ ~(q <= n)
    <3>1. p \in DOMAIN s /\ v[p] = s[p]
      BY <1>6, <2>3
    <3>2. PICK r \in Nat : r >= 1 /\ q = n + r /\ v[q] = <<m, r>>
      BY <1>7, <2>3
    <3>3. v[q][1] = m /\ v[q][2] = r
      BY <1>8, <3>2
    <3>4. LET k == s[p][2] + ((n + r) - p)
              last == Header + size[s[p][1]]
          IN s[p][1] <= l /\ ~(k <= last) /\ (k = last + 1 => r = 1)
      <4>1. Len(s) = n
        BY <1>2
      <4>2. PastIs(s, l, p, r)
        BY <3>1, <3>2, RunPast
      <4> QED
        BY <4>1, <4>2 DEF PastIs
    <3>5. m > s[p][1]
      <4>1. s[p][1] \in Nat
        BY <3>1, SymbolFacts
      <4>2. s[p][1] <= l
        BY <3>4
      <4> QED
        BY <4>1, <4>2
    <3> QED
      BY <3>1, <3>2, <3>3, <3>4, <3>5
  <2> QED
    BY <2>1, <2>2, <2>3
<1> QED
  BY <1>9, <1>10 DEF Run

LEMMA SymbolsConcat ==
    ASSUME NEW u \in Seq(Symbol), NEW v \in Seq(Symbol), NEW w \in Seq(Symbol)
    PROVE  (u \o v) \o w = u \o (v \o w)
BY ConcatAssociative, SMTT(20)

LEMMA SendPreserves == IInv /\ Send => IInv'
<1> SUFFICES ASSUME IInv, Send PROVE IInv'
  OBVIOUS
<1>1. /\ TypeOK /\ Contiguous /\ Before(parsed, Unread, sent) /\ CmdKept /\ OwedKept
      /\ rest \in Seq(Symbol) /\ coming \in Seq(Symbol)
  BY DEF IInv, TypeOK
<1>2. /\ sent < Messages /\ sent' = sent + 1 /\ coming' = coming \o Piece(sent + 1)
      /\ size' = size /\ breaks' = breaks /\ m_msgData' = m_msgData /\ m_msgLength' = m_msgLength
      /\ m_cmdType' = m_cmdType /\ rest' = rest /\ parsed' = parsed /\ owed' = owed
  BY DEF Send
<1>3. sent \in Nat /\ Messages \in Nat /\ sent \in 0..Messages
  BY <1>1, ConstantsAssumption DEF TypeOK
<1>4. sent + 1 \in Message /\ sent + 1 \in 0..Messages
  BY <1>2, <1>3 DEF Message
<1>5. PICK m \in Message : m = sent + 1
  BY <1>4
<1>6. PICK t : t = Piece(m)
  OBVIOUS
<1>7. /\ t \in Seq(Symbol) /\ Len(t) \in Nat /\ Len(t) >= 1 /\ DOMAIN t = 1..Len(t) /\ 1 \in DOMAIN t
      /\ \A q \in DOMAIN t : t[q] = <<m, q>>
      /\ Len(t) \in DOMAIN t /\ t[Len(t)] = End(m)
  <2>1. t \in Seq(Symbol) /\ Len(t) \in Nat /\ Len(t) >= 1 /\ DOMAIN t = 1..Len(t) /\ 1 \in DOMAIN t
    BY <1>1, <1>6, PieceFacts
  <2>2. \A q \in DOMAIN t : t[q] = <<m, q>>
    BY <1>1, <1>6, PieceFacts
  <2>3. Len(t) \in DOMAIN t /\ t[Len(t)] = End(m)
    BY <1>1, <1>6, PieceFacts
  <2> QED
    BY <2>1, <2>2, <2>3
<1>8. coming' = coming \o t /\ coming' \in Seq(Symbol)
  BY <1>1, <1>2, <1>5, <1>6, <1>7, ConcatFacts
<1>9. PICK s \in Seq(Symbol) : s = Unread
  BY <1>1, ConcatFacts DEF Unread
<1>10. PICK v \in Seq(Symbol) : v = s \o t
  BY <1>7, <1>9, ConcatFacts
<1>11. Unread' = v
  <2>1. Unread' = rest \o (coming \o t)
    BY <1>2, <1>8 DEF Unread
  <2> QED
    <3>1. PICK r \in Seq(Symbol) : r = rest
      BY <1>1
    <3>2. PICK c \in Seq(Symbol) : c = coming
      BY <1>1
    <3>3. (r \o c) \o t = r \o (c \o t)
      BY <1>7, SymbolsConcat
    <3> QED
      BY <1>9, <1>10, <2>1, <3>1, <3>2, <3>3 DEF Unread
<1>12. Run(s) /\ EndsWith(s, sent)
  BY <1>1, <1>9 DEF Contiguous, EndsWith, Before
<1>13. Run(v)
  BY <1>1, <1>3, <1>5, <1>6, <1>7, <1>9, <1>10, <1>12, RunAdd
<1>14. /\ Len(s) \in Nat /\ Len(v) = Len(s) + Len(t) /\ DOMAIN v = 1..(Len(s) + Len(t)) /\ DOMAIN s = 1..Len(s)
       /\ \A i \in 1..(Len(s) + Len(t)) : v[i] = IF i <= Len(s) THEN s[i] ELSE t[i - Len(s)]
  BY <1>7, <1>9, <1>10, SymbolFacts, ConcatProperties
<1>15. v[Len(v)] = End(m)
  <2>1. Len(v) \in 1..(Len(s) + Len(t)) /\ ~(Len(v) <= Len(s)) /\ Len(v) - Len(s) = Len(t)
    BY <1>7, <1>14
  <2> QED
    BY <1>7, <1>14, <2>1
<1>16. Contiguous'
  <2>1. Run(v)'
    BY <1>2, <1>13 DEF Run
  <2>2. End(sent)' = End(m)
    BY <1>2, <1>5 DEF End
  <2> QED
    BY <1>2, <1>11, <1>13, <1>15, <2>2 DEF Contiguous, Run
<1>17. Before(parsed', Unread', sent')
  <2>1. \A p \in DOMAIN v : \/ p \in DOMAIN s /\ v[p] = s[p]
                            \/ v[p][1] = m
    <3> SUFFICES ASSUME NEW p \in DOMAIN v, ~(p <= Len(s)) PROVE v[p][1] = m
      BY <1>14
    <3>1. p - Len(s) \in DOMAIN t /\ v[p] = t[p - Len(s)]
      BY <1>7, <1>14
    <3>2. t[p - Len(s)] = <<m, p - Len(s)>>
      BY <1>7, <3>1
    <3> QED
      BY <3>1, <3>2
  <2>2. \A k \in DOMAIN parsed : parsed[k][2] \in Nat
    <3>1. parsed \in Seq((Message \union {None}) \X Message)
      BY <1>1 DEF TypeOK
    <3>2. \A k \in DOMAIN parsed : parsed[k] \in (Message \union {None}) \X Message
      BY <3>1, LenProperties, ElementOfSeq
    <3>3. \A x \in (Message \union {None}) \X Message : x[2] \in Nat
      BY DEF Message
    <3> QED
      BY <3>2, <3>3
  <2>3. Before(parsed, s, sent)
    BY <1>1, <1>9
  <2>4. \A p \in DOMAIN v : v[p][1] <= m /\ \A k \in DOMAIN parsed : parsed[k][2] < v[p][1]
    <3> SUFFICES ASSUME NEW p \in DOMAIN v
                 PROVE  v[p][1] <= m /\ \A k \in DOMAIN parsed : parsed[k][2] < v[p][1]
      OBVIOUS
    <3>1. \A k \in DOMAIN parsed : parsed[k][2] \in Nat /\ parsed[k][2] <= sent
      BY <2>2, <2>3 DEF Before
    <3>2. CASE p \in DOMAIN s /\ v[p] = s[p]
      <4>1. s[p][1] \in Nat /\ s[p][1] <= sent
        BY <1>9, <2>3, <3>2, SymbolFacts DEF Before
      <4>2. s[p][1] <= m
        BY <1>3, <1>5, <4>1
      <4> QED
        BY <2>3, <3>2, <4>2 DEF Before
    <3>3. CASE v[p][1] = m
      <4>1. m <= m /\ \A x \in Nat : x <= sent => x < m
        BY <1>3, <1>5
      <4> QED
        BY <3>1, <3>3, <4>1
    <3> QED
      BY <2>1, <3>2, <3>3
  <2>5. \A k \in DOMAIN parsed : parsed[k][2] <= m
    <3>1. \A k \in DOMAIN parsed : parsed[k][2] \in Nat /\ parsed[k][2] <= sent
      BY <2>2, <2>3 DEF Before
    <3>2. \A x \in Nat : x <= sent => x <= m
      BY <1>3, <1>5
    <3> QED
      BY <3>1, <3>2
  <2>6. Before(parsed, v, m)
    BY <2>3, <2>4, <2>5 DEF Before
  <2> QED
    BY <1>2, <1>5, <1>11, <2>6
<1>18. coming # <<>> => coming' # <<>> /\ coming'[1] = coming[1]
  <2>1. SUFFICES ASSUME coming # <<>> PROVE coming' # <<>> /\ coming'[1] = coming[1]
    OBVIOUS
  <2>2. 1 \in DOMAIN coming
    BY <1>1, <2>1, SymbolFacts, EmptySeq
  <2>3. 1 \in DOMAIN (coming \o t) /\ (coming \o t)[1] = coming[1]
    BY <1>1, <1>7, <2>2, ConcatFacts
  <2> QED
    BY <1>8, <2>3
<1>19. coming = <<>> => coming'[1][2] = 1
  <2>1. SUFFICES ASSUME coming = <<>> PROVE coming'[1][2] = 1
    OBVIOUS
  <2>2. coming' = t
    BY <1>7, <1>8, <2>1, ConcatEmptySeq
  <2>3. t[1] = <<m, 1>>
    BY <1>7
  <2> QED
    BY <2>2, <2>3
<1>20. CmdKept'
  BY <1>1, <1>2, <1>18, <1>19 DEF CmdKept
<1>21. OwedKept'
  <2>1. ASSUME NEW j \in owed
        PROVE  /\ j <= sent'
               /\ Has(rest', j) => rest'[1][2] = 1 /\ \E p \in DOMAIN rest' : rest'[p] = End(j)'
               /\ Has(coming', j) => Partly(j)'
               /\ ~Has(rest', j) /\ ~Has(coming', j) => Handed(parsed', j)
    <3>1. /\ j <= sent
          /\ Has(rest, j) => rest[1][2] = 1 /\ \E p \in DOMAIN rest : rest[p] = End(j)
          /\ Has(coming, j) => Partly(j)
          /\ ~Has(rest, j) /\ ~Has(coming, j) => Handed(parsed, j)
      BY <1>1 DEF OwedKept
    <3>2. j \in Nat
      BY <1>1 DEF TypeOK, Message
    <3>3. j <= sent' /\ j # m
      BY <1>2, <1>3, <1>5, <3>1, <3>2
    <3>4. Has(coming', j) <=> Has(coming, j)
      <4>1. \A p \in DOMAIN coming' : \/ p \in DOMAIN coming /\ coming'[p] = coming[p]
                                      \/ coming'[p][1] = m
        <5> SUFFICES ASSUME NEW p \in DOMAIN coming'
                     PROVE  (p \in DOMAIN coming /\ coming'[p] = coming[p]) \/ coming'[p][1] = m
          OBVIOUS
        <5>1. /\ Len(coming) \in Nat /\ DOMAIN coming = 1..Len(coming)
              /\ Len(coming \o t) = Len(coming) + Len(t) /\ DOMAIN (coming \o t) = 1..Len(coming \o t)
              /\ \A i \in 1..(Len(coming) + Len(t)) :
                    (coming \o t)[i] = IF i <= Len(coming) THEN coming[i] ELSE t[i - Len(coming)]
          BY <1>1, <1>7, <1>8, SymbolFacts, ConcatProperties
        <5>2. CASE p <= Len(coming)
          BY <1>7, <1>8, <5>1, <5>2
        <5>3. CASE ~(p <= Len(coming))
          <6>1. p - Len(coming) \in DOMAIN t /\ coming'[p] = t[p - Len(coming)]
            BY <1>7, <1>8, <5>1, <5>3
          <6>2. t[p - Len(coming)] = <<m, p - Len(coming)>>
            BY <1>7, <6>1
          <6> QED
            BY <6>1, <6>2
        <5> QED
          BY <5>2, <5>3
      <4>2. \A p \in DOMAIN coming : p \in DOMAIN coming' /\ coming'[p] = coming[p]
        BY <1>1, <1>7, <1>8, ConcatFacts
      <4> QED
        BY <3>3, <4>1, <4>2 DEF Has
    <3>5. ASSUME Has(coming, j) PROVE Partly(j)'
      <4>1. Partly(j)
        BY <3>1, <3>5
      <4>2. coming # <<>>
        BY <3>5 DEF Has
      <4>3. coming'[1] = coming[1]
        BY <1>18, <4>2
      <4> QED
        BY <1>2, <4>1, <4>3 DEF Partly
    <3>6. End(j)' = End(j)
      BY <1>2 DEF End
    <3> QED
      BY <1>2, <3>1, <3>3, <3>4, <3>5, <3>6
  <2> QED
    BY <1>2, <2>1 DEF OwedKept, Has, Handed
<1>22. TypeOK'
  BY <1>1, <1>2, <1>4, <1>8 DEF TypeOK
<1> QED
  BY <1>16, <1>17, <1>20, <1>21, <1>22 DEF IInv

LEMMA BreakPreserves == IInv /\ Break => IInv'
<1> SUFFICES ASSUME IInv, Break PROVE IInv'
  OBVIOUS
<1>1. TypeOK /\ CmdKept /\ OwedKept /\ Before(parsed, Unread, sent)
  BY DEF IInv
<1>2. /\ rest = <<>> /\ coming # <<>> /\ breaks < MaxBreaks /\ coming' = <<>> /\ owed' = owed \ {coming[1][1]}
      /\ breaks' = breaks + 1 /\ size' = size /\ sent' = sent /\ m_msgData' = m_msgData
      /\ m_msgLength' = m_msgLength /\ m_cmdType' = m_cmdType /\ rest' = <<>> /\ parsed' = parsed
  BY DEF Break
<1>3. Unread' = <<>>
  BY <1>2 DEF Unread
<1>4. TypeOK'
  <2>1. <<>> \in Seq(Symbol)
    BY EmptySeq
  <2>2. breaks' \in 0..MaxBreaks
    BY <1>1, <1>2, ConstantsAssumption DEF TypeOK
  <2> QED
    BY <1>1, <1>2, <2>1, <2>2 DEF TypeOK
<1>5. Contiguous'
  BY <1>3 DEF Contiguous, Run
<1>6. Before(parsed', Unread', sent')
  BY <1>1, <1>2, <1>3 DEF Before
<1>7. CmdKept'
  BY <1>1, <1>2 DEF CmdKept
<1>8. OwedKept'
  <2>1. ASSUME NEW j \in owed, j # coming[1][1] PROVE j <= sent' /\ Handed(parsed', j)
    <3>1. ~Has(rest, j)
      BY <1>2 DEF Has
    <3>2. ~Partly(j)
      BY <2>1 DEF Partly
    <3> QED
      BY <1>1, <1>2, <2>1, <3>1, <3>2 DEF OwedKept
  <2>2. \A j : ~Has(rest', j) /\ ~Has(coming', j)
    BY <1>2 DEF Has
  <2> QED
    BY <1>2, <2>1, <2>2 DEF OwedKept, Has, Handed
<1> QED
  BY <1>4, <1>5, <1>6, <1>7, <1>8 DEF IInv
----------------------------------------------------------------------------
LEMMA ReadPreserves == IInv /\ Read => IInv'
<1> SUFFICES ASSUME IInv, Read PROVE IInv'
  OBVIOUS
<1>1. PICK n \in 1..Len(coming) :
        LET d == SubSeq(coming, 1, n) IN
        /\ ReadHeader(d) \/ ReadTail(d) \/ ReadMore(d)
        /\ owed' = (owed \ Spoilt(d)) \union Expected(d)
        /\ coming' = SubSeq(coming, n + 1, Len(coming))
  BY DEF Read
<1>2. PICK d : d = SubSeq(coming, 1, n)
  OBVIOUS
<1>3. PICK c : c = SubSeq(coming, n + 1, Len(coming))
  OBVIOUS
<1>4. (ReadHeader(d) \/ ReadTail(d) \/ ReadMore(d)) /\ n \in 1..Len(coming)
  BY <1>1, <1>2
<1>5. ReadPiece(d, c)
  BY <1>1, <1>2, <1>3 DEF Read, ReadPiece
<1>6. CASE ReadHeader(d)
  BY <1>2, <1>3, <1>4, <1>5, <1>6, HeaderPreserves
<1>7. CASE ReadTail(d)
  BY <1>2, <1>3, <1>4, <1>5, <1>7, TailPreserves
<1>8. CASE ReadMore(d)
  BY <1>2, <1>3, <1>4, <1>5, <1>8, MorePreserves
<1> QED
  BY <1>4, <1>6, <1>7, <1>8

LEMMA StutterPreserves == IInv /\ UNCHANGED vars => IInv'
<1> SUFFICES ASSUME IInv, UNCHANGED vars PROVE IInv'
  OBVIOUS
<1>1. /\ size' = size /\ sent' = sent /\ coming' = coming /\ breaks' = breaks /\ m_msgData' = m_msgData
      /\ m_msgLength' = m_msgLength /\ m_cmdType' = m_cmdType /\ rest' = rest /\ parsed' = parsed /\ owed' = owed
  BY DEF vars
<1>2. TypeOK'
  BY <1>1 DEF IInv, TypeOK
<1>3. Contiguous'
  <2>1. PICK s \in Seq(Symbol) : s = Unread
    BY ConcatFacts DEF IInv, TypeOK, Unread
  <2>2. s = Unread'
    BY <1>1, <2>1 DEF Unread
  <2>3. Len(s) \in Nat
    BY <2>1, SymbolFacts
  <2>4. EndOf(s, s, 0)
    BY <2>3 DEF EndOf
  <2> QED
    BY <1>1, <2>1, <2>2, <2>4, StillContiguous
<1>4. Before(parsed', Unread', sent')
  BY <1>1 DEF IInv, Unread
<1>5. CmdKept'
  BY <1>1 DEF IInv, CmdKept
<1>6. OwedKept'
  <2>1. \A i : Partly(i) => Partly(i)'
    BY <1>1 DEF Partly
  <2>2. \A i : End(i)' = End(i)
    BY <1>1 DEF End
  <2> QED
    BY <1>1, <2>1, <2>2 DEF IInv, OwedKept, Has, Handed
<1> QED
  BY <1>2, <1>3, <1>4, <1>5, <1>6 DEF IInv

LEMMA Begins == Init => IInv
<1> SUFFICES ASSUME Init PROVE IInv
  OBVIOUS
<1>1. /\ size \in [Message -> 1..MaxSize] /\ sent = 0 /\ coming = <<>> /\ breaks = 0 /\ m_msgData = <<>>
      /\ m_msgLength = 0 /\ m_cmdType = None /\ rest = <<>> /\ parsed = <<>> /\ owed = {}
  BY DEF Init
<1>2. Unread = <<>>
  BY <1>1 DEF Unread
<1>3. TypeOK
  <2>1. <<>> \in Seq(Symbol) /\ <<>> \in Seq((Message \union {None}) \X Message)
    BY EmptySeq
  <2> QED
    BY <1>1, <2>1, ConstantsAssumption DEF TypeOK
<1> QED
  BY <1>1, <1>2, <1>3 DEF IInv, Contiguous, Run, Before, CmdKept, OwedKept

THEOREM Inductive == Spec => []IInv
<1>1. IInv /\ [Next]_vars => IInv'
  BY SendPreserves, ReadPreserves, CheckPreserves, BreakPreserves, StutterPreserves DEF Next
<1> QED
  BY Begins, <1>1, PTL DEF Spec

\* The variables of the framing keep their types.
THEOREM TypeCorrect == Spec => []TypeOK
<1>1. IInv => TypeOK
  BY DEF IInv
<1> QED
  BY Inductive, <1>1, PTL

\* However the stream is cut and wherever the connection breaks, the messages that are handed on are handed
\* on once, in the order of the stream, and never under the cmd of another message.
THEOREM HandedOnInOrder == Spec => []InOrderOnce
<1>1. IInv => InOrderOnce
  BY DEF IInv, Before, InOrderOnce
<1> QED
  BY Inductive, <1>1, PTL

\* A message that arrives as OnReadData expects is handed on, under its own cmd, by the time its last byte has
\* been dealt with.
THEOREM ExpectedHandedOn == Spec => []OwedIsParsed
<1>1. ASSUME IInv PROVE OwedIsParsed
  <2> SUFFICES ASSUME rest = <<>>, NEW i \in owed, End(i) \notin Range(coming) PROVE <<i, i>> \in Range(parsed)
    BY DEF OwedIsParsed
  <2>1. TypeOK /\ coming \in Seq(Symbol) /\ Unread = coming
    BY <1>1, ConcatEmptySeq DEF IInv, TypeOK, Unread
  <2>2. ~Has(coming, i)
    <3>1. SUFFICES ASSUME Has(coming, i) PROVE FALSE
      OBVIOUS
    <3>2. coming # <<>> /\ 1 \in DOMAIN coming
      <4>1. coming # <<>>
        BY <3>1 DEF Has
      <4> QED
        BY <2>1, <4>1, SymbolFacts, EmptySeq
    <3>3. coming[1][1] = i
      BY <1>1, <3>1, OwedInComing DEF Partly
    <3>4. PICK k : coming[1] = <<i, k>>
      BY <2>1, <3>2, <3>3, SymbolFacts
    <3>5. Run(coming) /\ coming[Len(coming)] = End(sent)
      BY <1>1, <2>1, <3>2 DEF IInv, Contiguous
    <3>6. \E p \in DOMAIN coming : coming[p] = End(i)
      BY <2>1, <3>2, <3>4, <3>5, EndThere
    <3> QED
      BY <3>6 DEF Range
  <2>3. Handed(parsed, i)
    BY <1>1, <2>2, OwedInComing
  <2> QED
    BY <2>3 DEF Handed, Range
<1> QED
  BY Inductive, <1>1, PTL
=============================================================================
