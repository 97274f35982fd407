--------------------------- MODULE CommandsProofs ---------------------------
(***************************************************************************)
(* The list of commands implements the queue of Fifo, for any number of    *)
(* commands and any room in the array, until a take has met a push.        *)
(***************************************************************************)
EXTENDS Commands, TLAPS, SequenceTheorems

\* A pusher in the middle of PushLogPacket holds m_mutex: there is one at most.
LockInv == \A t \in Pusher : pushing[t] # "idle" => mutex = t /\ sent[t] >= 1

\* The indices between the steps of a push and of a take that have not met.
IndexInv ==
    /\ end <= 2 * Room
    /\ ~Moving => begin <= end
    /\ Moving => /\ begin = Room /\ end <= Room
                 /\ \A i \in 0..(end - 1) : array[i + Room] = array[i]
    /\ \A t \in Pusher : pushing[t] = "resized" => size = end
    /\ \A t \in Pusher : pushing[t] = "write" => begin + 1 <= end
    /\ \A t \in Pusher : pushing[t] = "move" => begin = 0
    /\ \A t \in Pusher : pushing[t] = "slot" => begin > 0

TakeInv ==
    /\ Taking => ~Moving /\ First < end
    /\ taking \in {"pop", "popped"} => packet = array[end - 1]
    /\ taking = "popped" => seenBegin = begin /\ seenEnd = end

ListInv == ~raced => IndexInv /\ TakeInv

IInv == ListType /\ LockInv /\ ListInv

-----------------------------------------------------------------------------
(* The slots of an array from hi - 1 down to lo, as a sequence.             *)

LEMMA DownIsSeq ==
  ASSUME NEW S, NEW a, NEW lo \in Nat, NEW hi \in Nat, lo <= hi,
         \A i \in lo..(hi - 1) : a[i] \in S
  PROVE  Down(a, lo, hi) \in Seq(S)
<1>1. \A i \in 1..(hi - lo) : hi - i \in lo..(hi - 1)
  OBVIOUS
<1>2. Down(a, lo, hi) \in [1..(hi - lo) -> S]
  BY <1>1 DEF Down
<1>3. hi - lo \in Nat
  OBVIOUS
<1> QED
  BY <1>2, <1>3, SeqDef

LEMMA DownLen ==
  ASSUME NEW a, NEW lo \in Nat, NEW hi \in Nat, lo <= hi
  PROVE  Len(Down(a, lo, hi)) = hi - lo
<1>1. hi - lo \in Nat
  OBVIOUS
<1> QED
  BY <1>1 DEF Down

LEMMA DownElement ==
  ASSUME NEW a, NEW lo \in Nat, NEW hi \in Nat, lo <= hi
  PROVE  \A i \in 1..(hi - lo) : Down(a, lo, hi)[i] = a[hi - i]
BY DEF Down

LEMMA DownSame ==
  ASSUME NEW a, NEW b, NEW lo \in Nat, NEW hi \in Nat, NEW k \in Nat,
         \A i \in lo..(hi - 1) : b[i + k] = a[i]
  PROVE  Down(b, lo + k, hi + k) = Down(a, lo, hi)
<1>1. (hi + k) - (lo + k) = hi - lo
  OBVIOUS
<1>2. \A i \in 1..(hi - lo) : hi - i \in lo..(hi - 1) /\ (hi + k) - i = (hi - i) + k
  OBVIOUS
<1> QED
  BY <1>1, <1>2 DEF Down

LEMMA DownEmpty ==
  ASSUME NEW a, NEW n \in Nat
  PROVE  Down(a, n, n) = <<>>
<1>1. 1..(n - n) = {}
  OBVIOUS
<1>2. Down(a, n, n) \in Seq({}) /\ Len(Down(a, n, n)) = 0
  <2>1. n <= n /\ n - n = 0 /\ \A i \in n..(n - 1) : a[i] \in {}
    OBVIOUS
  <2> QED
    BY <2>1, DownIsSeq, DownLen
<1> QED
  BY <1>2, EmptySeq

\* b is a with c in the slot below lo + 1.
Pushed(b, a, lo, hi, c) == Down(b, lo, hi) = Append(Down(a, lo + 1, hi), c)

LEMMA DownAppend ==
  ASSUME NEW S, NEW a, NEW lo \in Nat, NEW hi \in Nat, lo < hi, NEW c \in S,
         NEW b, b[lo] = c, \A i \in (lo + 1)..(hi - 1) : a[i] \in S,
         \A i \in (lo + 1)..(hi - 1) : b[i] = a[i]
  PROVE  Pushed(b, a, lo, hi, c)
<1> DEFINE s == Down(a, lo + 1, hi)  r == Down(b, lo, hi)
<1>0. lo + 1 \in Nat /\ lo + 1 <= hi /\ \A i \in (lo + 1)..(hi - 1) : a[i] \in S
  OBVIOUS
<1>1. s \in Seq(S) /\ Len(s) = hi - (lo + 1) /\ \A i \in 1..(hi - (lo + 1)) : s[i] = a[hi - i]
  <2>1. s \in Seq(S)
    BY <1>0, DownIsSeq
  <2>2. Len(s) = hi - (lo + 1)
    BY <1>0, DownLen
  <2>3. \A i \in 1..(hi - (lo + 1)) : s[i] = a[hi - i]
    BY <1>0, DownElement
  <2> QED
    BY <2>1, <2>2, <2>3
<1>2. \A i \in lo..(hi - 1) : b[i] \in S
  OBVIOUS
<1>3. r \in Seq(S) /\ Len(r) = hi - lo /\ \A i \in 1..(hi - lo) : r[i] = b[hi - i]
  <2>1. r \in Seq(S)
    BY <1>2, DownIsSeq
  <2>2. Len(r) = hi - lo
    BY DownLen
  <2>3. \A i \in 1..(hi - lo) : r[i] = b[hi - i]
    BY DownElement
  <2> QED
    BY <2>1, <2>2, <2>3
<1>4. Append(s, c) \in Seq(S) /\ Len(Append(s, c)) = Len(s) + 1
  BY <1>1
<1>5. ASSUME NEW i \in 1..(hi - lo) PROVE r[i] = Append(s, c)[i]
  <2>1. CASE i = hi - lo
    BY <2>1, <1>1, <1>3
  <2>2. CASE i # hi - lo
    <3>1. i \in 1..(hi - (lo + 1)) /\ hi - i \in (lo + 1)..(hi - 1)
      BY <2>2
    <3>2. s[i] = a[hi - i] /\ i \in 1..Len(s)
      BY <3>1, <1>1
    <3>3. b[hi - i] = a[hi - i] /\ r[i] = b[hi - i]
      BY <3>1, <1>3
    <3>4. Append(s, c)[i] = s[i]
      BY <3>2, <1>1, AppendProperties
    <3> QED
      BY <3>2, <3>3, <3>4
  <2> QED
    BY <2>1, <2>2
<1> HIDE DEF s, r
<1>6. Len(r) = Len(Append(s, c))
  BY <1>1, <1>3, <1>4
<1>7. r = Append(s, c)
  BY <1>3, <1>4, <1>5, <1>6, SeqEqual
<1> QED
  BY <1>7 DEF s, r, Pushed

LEMMA DownPop ==
  ASSUME NEW S, NEW a, NEW lo \in Nat, NEW hi \in Nat, lo < hi,
         \A i \in lo..(hi - 1) : a[i] \in S
  PROVE  Down(a, lo, hi) = <<a[hi - 1]>> \o Down(a, lo, hi - 1)
<1> DEFINE s == Down(a, lo, hi - 1)  r == Down(a, lo, hi)  p == <<a[hi - 1]>>
<1>1. hi - 1 \in Nat /\ lo <= hi - 1 /\ \A i \in lo..((hi - 1) - 1) : a[i] \in S
  OBVIOUS
<1>2. s \in Seq(S) /\ Len(s) = (hi - 1) - lo /\ \A i \in 1..((hi - 1) - lo) : s[i] = a[(hi - 1) - i]
  <2>1. s \in Seq(S)
    BY <1>1, DownIsSeq
  <2>2. Len(s) = (hi - 1) - lo
    BY <1>1, DownLen
  <2>3. \A i \in 1..((hi - 1) - lo) : s[i] = a[(hi - 1) - i]
    BY <1>1, DownElement
  <2> QED
    BY <2>1, <2>2, <2>3
<1>3. r \in Seq(S) /\ Len(r) = hi - lo /\ \A i \in 1..(hi - lo) : r[i] = a[hi - i]
  <2>1. r \in Seq(S)
    BY DownIsSeq
  <2>2. Len(r) = hi - lo
    BY DownLen
  <2>3. \A i \in 1..(hi - lo) : r[i] = a[hi - i]
    BY DownElement
  <2> QED
    BY <2>1, <2>2, <2>3
<1>4. p \in Seq(S) /\ Len(p) = 1 /\ p[1] = a[hi - 1]
  OBVIOUS
<1> HIDE DEF s, r, p
<1>5. /\ p \o s \in Seq(S) /\ Len(p \o s) = Len(p) + Len(s)
      /\ \A i \in 1..(Len(p) + Len(s)) :
            (p \o s)[i] = IF i <= Len(p) THEN p[i] ELSE s[i - Len(p)]
  BY <1>2, <1>4, ConcatProperties
<1>6. ASSUME NEW i \in 1..(hi - lo) PROVE r[i] = (p \o s)[i]
  <2>0. i \in 1..(Len(p) + Len(s))
    BY <1>2, <1>4
  <2>1. CASE i = 1
    BY <2>0, <2>1, <1>3, <1>4, <1>5
  <2>2. CASE i # 1
    <3>1. i - 1 \in 1..((hi - 1) - lo) /\ (hi - 1) - (i - 1) = hi - i /\ ~ (i <= 1)
      BY <2>2
    <3>2. (p \o s)[i] = s[i - 1]
      BY <2>0, <3>1, <1>4, <1>5
    <3>3. s[i - 1] = a[hi - i]
      BY <3>1, <1>2
    <3> QED
      BY <3>2, <3>3, <1>3
  <2> QED
    BY <2>1, <2>2
<1>7. Len(r) = Len(p \o s)
  BY <1>2, <1>3, <1>4, <1>5
<1>8. r = p \o s
  BY <1>3, <1>5, <1>6, <1>7, SeqEqual
<1> QED
  BY <1>8 DEF s, r, p
-----------------------------------------------------------------------------
(* The invariant is inductive: one lemma per action, as the place of the     *)
(* lock's holder, of the indices and of the taker changes with each.         *)

LEMMA InitInv == ListInit => IInv
<1> SUFFICES ASSUME ListInit PROVE IInv
  OBVIOUS
<1>1. ListType
  <2>1. Stale \in Entry
    BY DEF Entry
  <2>2. array \in [Index -> Entry] /\ packet \in Entry
    BY <2>1 DEF ListInit
  <2>3. {begin, end, size, seenBegin, seenEnd} \subseteq Nat
    BY DEF ListInit
  <2>4. raced \in BOOLEAN
    BY DEF ListInit
  <2>5. dealt \in Seq(Entry) /\ taking = "test"
    BY DEF ListInit
  <2>6. /\ pushing \in [Pusher -> {"idle", "prepend", "move", "moved", "resized", "slot", "write"}]
        /\ sent \in [Pusher -> 0..MaxSent] /\ mutex \in Pusher \cup {Nobody}
    BY ConstantsAssumption DEF ListInit
  <2> QED
    BY <2>2, <2>3, <2>5, <2>6, <2>4 DEF ListType
<1>2. LockInv
  BY DEF ListInit, LockInv
<1>3. ~Moving /\ ~Taking /\ begin = 0 /\ end = 0
  BY DEF ListInit, Moving, Taking
<1>4. ListInv
  BY <1>3, ConstantsAssumption DEF ListInit, ListInv, IndexInv, TakeInv
<1> QED
  BY <1>1, <1>2, <1>4 DEF IInv

\* While t pushes no other thread does.
LEMMA Alone ==
  ASSUME LockInv, NEW t \in Pusher, pushing[t] # "idle"
  PROVE  \A u \in Pusher : u # t => pushing[u] = "idle"
BY DEF LockInv

\* What the push of t is at decides Moving and the first slot that counts.
LEMMA AtMove ==
  ASSUME NEW t \in Pusher, \A u \in Pusher : u # t => pushing[u] = "idle"
  PROVE  /\ Moving <=> pushing[t] \in {"moved", "resized"}
         /\ First = IF pushing[t] = "write" THEN begin + 1
                    ELSE IF pushing[t] \in {"moved", "resized"} THEN 0 ELSE begin
         /\ OnlyUnwritten <=> end = begin + 1 /\ pushing[t] = "write"
BY DEF Moving, First, OnlyUnwritten

LEMMA LockStep ==
  ASSUME IInv, NEW t \in Pusher, ReceiveStep(t)
  PROVE  IInv'
<1> USE DEF ReceiveStep, Receive, PushLock, takerVars
<1>1. \A u \in Pusher : pushing[u] = "idle"
  BY ConstantsAssumption DEF IInv, LockInv
<1>2. \A u \in Pusher : u # t => pushing'[u] = "idle"
  BY <1>1 DEF IInv, ListType
<1>3. pushing'[t] = "prepend"
  BY DEF IInv, ListType
<1>4. ~Moving /\ First = begin /\ ~Moving' /\ First' = begin
  BY <1>1, <1>2, <1>3 DEF Moving, First
<1>5. ListType'
  BY ConstantsAssumption DEF IInv, ListType
<1>6. LockInv'
  BY <1>2, <1>3 DEF IInv, ListType, LockInv
<1>7. Taking' = Taking
  BY DEF Taking
<1>8. ListInv'
  BY <1>2, <1>3, <1>4, <1>7 DEF IInv, ListInv, IndexInv, TakeInv
<1> QED
  BY <1>5, <1>6, <1>8 DEF IInv

LEMMA TestedStep ==
  ASSUME IInv, NEW t \in Pusher, ~raced, PushTest(t)
  PROVE  IInv' /\ First' = First
<1> USE DEF PushTest, takerVars
<1>1. pushing[t] = "prepend" /\ pushing'[t] = IF begin = 0 THEN "move" ELSE "slot"
  BY DEF IInv, ListType
<1>2. \A u \in Pusher : u # t => pushing[u] = "idle" /\ pushing'[u] = "idle"
  BY <1>1, Alone DEF IInv, ListType
<1>3. ~Moving /\ ~Moving' /\ First = begin /\ First' = begin
  BY <1>1, <1>2 DEF Moving, First
<1>4. ListType'
  BY DEF IInv, ListType
<1>5. LockInv'
  BY <1>1, <1>2 DEF IInv, LockInv
<1>6. begin # 0 => begin > 0
  BY DEF IInv, ListType
<1>7. IndexInv'
  BY <1>1, <1>2, <1>3, <1>6 DEF IInv, ListInv, IndexInv
<1>8. TakeInv'
  BY <1>3 DEF IInv, ListInv, TakeInv, Taking
<1> QED
  BY <1>3, <1>4, <1>5, <1>7, <1>8 DEF IInv, ListInv

LEMMA MoveStep ==
  ASSUME IInv, NEW t \in Pusher, ~raced, PushMove(t)
  PROVE  IInv'
<1> USE DEF PushMove, takerVars
<1>1. pushing[t] = "move" /\ pushing'[t] = "moved"
  BY DEF IInv, ListType
<1>2. \A u \in Pusher : u # t => pushing[u] = "idle" /\ pushing'[u] = "idle"
  BY <1>1, Alone DEF IInv, ListType
<1>3. Moving' /\ begin' = Room /\ end' = end /\ end <= Room
  BY <1>1 DEF Moving
<1>4. ListType'
  <2>1. array' \in [Index -> Entry]
    <3>1. \A i \in Index : i - Room \in 0..(end - 1) => i - Room \in Index
      BY ConstantsAssumption DEF IInv, ListType, Index
    <3>2. array \in [Index -> Entry]
      BY DEF IInv, ListType
    <3> QED
      BY <3>1, <3>2
  <2>2. begin' \in Nat
    BY ConstantsAssumption
  <2>3. raced' \in BOOLEAN
    <3>1. Taking \in BOOLEAN
      BY DEF Taking
    <3> QED
      BY <3>1
  <2>4. pushing' \in [Pusher -> {"idle", "prepend", "move", "moved", "resized", "slot", "write"}]
    BY DEF IInv, ListType
  <2> QED
    BY <2>1, <2>2, <2>4, <2>3 DEF IInv, ListType
<1>5. LockInv'
  BY <1>1, <1>2 DEF IInv, LockInv
<1>6. ASSUME NEW i \in 0..(end - 1) PROVE array'[i + Room] = array'[i]
  <2>1. i \in Index /\ i + Room \in Index /\ i < Room
    BY ConstantsAssumption, <1>3 DEF IInv, ListType, Index
  <2>2. array'[i + Room] = array[i]
    <3>1. (i + Room) - Room = i
      BY <2>1, ConstantsAssumption
    <3> QED
      BY <2>1, <3>1
  <2>3. array'[i] = array[i]
    <3>1. i - Room \notin 0..(end - 1)
      BY <2>1, ConstantsAssumption DEF Index
    <3> QED
      BY <2>1, <3>1
  <2> QED
    BY <2>2, <2>3
<1>7. ~raced' => ~Taking'
  BY DEF Taking
<1>8. Room <= 2 * Room /\ end' <= 2 * Room
  BY <1>3, ConstantsAssumption DEF IInv, ListType
<1>9. IndexInv'
  BY <1>1, <1>2, <1>3, <1>6, <1>8, ConstantsAssumption DEF IndexInv
<1>10. ListInv'
  BY <1>7, <1>9 DEF ListInv, TakeInv, Taking
<1> QED
  BY <1>4, <1>5, <1>10 DEF IInv

LEMMA ReadEndStep ==
  ASSUME IInv, NEW t \in Pusher, ~raced, PushReadEnd(t)
  PROVE  IInv'
<1> USE DEF PushReadEnd, takerVars
<1>1. pushing[t] = "moved" /\ pushing'[t] = "resized"
  BY DEF IInv, ListType
<1>2. \A u \in Pusher : u # t => pushing[u] = "idle" /\ pushing'[u] = "idle"
  BY <1>1, Alone DEF IInv, ListType
<1>3. Moving /\ Moving'
  BY <1>1 DEF Moving
<1>4. ListType'
  BY DEF IInv, ListType
<1>5. LockInv'
  BY <1>1, <1>2 DEF IInv, LockInv
<1>6. IndexInv'
  BY <1>1, <1>2, <1>3 DEF IInv, ListInv, IndexInv
<1>7. ~Taking'
  BY <1>3 DEF IInv, ListInv, TakeInv, Taking
<1>8. ListInv'
  BY <1>6, <1>7 DEF ListInv, TakeInv, Taking
<1> QED
  BY <1>4, <1>5, <1>8 DEF IInv

LEMMA WriteEndStep ==
  ASSUME IInv, NEW t \in Pusher, ~raced, PushWriteEnd(t)
  PROVE  /\ IInv'
         /\ begin = Room /\ end' = end + Room /\ ~Taking
<1> USE DEF PushWriteEnd, takerVars
<1>1. pushing[t] = "resized" /\ pushing'[t] = "slot"
  BY DEF IInv, ListType
<1>2. \A u \in Pusher : u # t => pushing[u] = "idle" /\ pushing'[u] = "idle"
  BY <1>1, Alone DEF IInv, ListType
<1>3. Moving /\ ~Moving'
  BY <1>1, <1>2 DEF Moving
<1>4. begin = Room /\ end <= Room /\ end' = end + Room
  BY <1>1, <1>3, ConstantsAssumption DEF IInv, ListInv, IndexInv, ListType
<1>5. ListType'
  BY <1>4, ConstantsAssumption DEF IInv, ListType
<1>6. LockInv'
  BY <1>1, <1>2 DEF IInv, LockInv
<1>7. begin' <= end' /\ end' <= 2 * Room /\ begin' > 0
  BY <1>4, ConstantsAssumption DEF IInv, ListType
<1>8. IndexInv'
  BY <1>1, <1>2, <1>3, <1>7 DEF IndexInv
<1>9. ~Taking /\ ~Taking'
  BY <1>3 DEF IInv, ListInv, TakeInv, Taking
<1>10. ListInv'
  BY <1>8, <1>9 DEF ListInv, TakeInv, Taking
<1> QED
  BY <1>4, <1>5, <1>6, <1>9, <1>10 DEF IInv

LEMMA SlotStep ==
  ASSUME IInv, NEW t \in Pusher, ~raced, PushSlot(t)
  PROVE  IInv' /\ First' = First /\ end' = end /\ array' = array
<1> USE DEF PushSlot, takerVars
<1>1. pushing[t] = "slot" /\ pushing'[t] = "write"
  BY DEF IInv, ListType
<1>2. \A u \in Pusher : u # t => pushing[u] = "idle" /\ pushing'[u] = "idle"
  BY <1>1, Alone DEF IInv, ListType
<1>3. ~Moving /\ ~Moving' /\ begin <= end /\ begin > 0
  BY <1>1, <1>2 DEF Moving, IInv, ListInv, IndexInv
<1>4. begin' \in Nat /\ begin' + 1 = begin
  BY <1>3 DEF IInv, ListType
<1>5. First = begin /\ First' = begin
  BY <1>1, <1>2, <1>3, <1>4 DEF First
<1>6. ListType'
  <2>1. raced' \in BOOLEAN
    BY DEF IInv, ListType
  <2>2. pushing' \in [Pusher -> {"idle", "prepend", "move", "moved", "resized", "slot", "write"}]
    BY DEF IInv, ListType
  <2> QED
    BY <1>4, <2>1, <2>2 DEF IInv, ListType
<1>7. LockInv'
  BY <1>1, <1>2 DEF IInv, LockInv
<1>8. begin' + 1 <= end' /\ begin' <= end' /\ end' <= 2 * Room
  BY <1>3, <1>4, ConstantsAssumption DEF IInv, ListType, ListInv, IndexInv
<1>9. IndexInv'
  BY <1>1, <1>2, <1>3, <1>8 DEF IndexInv
<1>10. ~raced' => TakeInv'
  BY <1>3, <1>5 DEF IInv, ListInv, TakeInv, Taking
<1> QED
  BY <1>5, <1>6, <1>7, <1>9, <1>10 DEF IInv, ListInv

LEMMA WriteStep ==
  ASSUME IInv, NEW t \in Pusher, ~raced, PushWrite(t)
  PROVE  /\ IInv'
         /\ First = begin + 1 /\ First' = begin /\ begin < end /\ end' = end
         /\ begin \in Index /\ <<t, sent[t]>> \in Command
<1> USE DEF PushWrite, takerVars
<1>1. pushing[t] = "write" /\ pushing'[t] = "idle"
  BY DEF IInv, ListType
<1>2. \A u \in Pusher : u # t => pushing[u] = "idle" /\ pushing'[u] = "idle"
  BY <1>1, Alone DEF IInv, ListType
<1>3. ~Moving /\ ~Moving'
  BY <1>1, <1>2 DEF Moving
<1>4. begin + 1 <= end /\ end <= 2 * Room /\ begin < end /\ begin \in Index
  BY <1>1, ConstantsAssumption DEF IInv, ListType, ListInv, IndexInv, Index
<1>5. First = begin + 1 /\ First' = begin
  BY <1>1, <1>2, <1>3 DEF First
<1>6. sent[t] \in 1..MaxSent
  BY <1>1, ConstantsAssumption DEF IInv, ListType, LockInv
<1>7. <<t, sent[t]>> \in Command
  BY <1>6 DEF Command
<1>8. ListType'
  BY <1>7 DEF IInv, ListType, Entry
<1>9. LockInv'
  BY <1>2, <1>1 DEF LockInv
<1>10. IndexInv'
  BY <1>1, <1>2, <1>3, <1>4 DEF IInv, ListInv, IndexInv
<1>11. ASSUME taking \in {"pop", "popped"} PROVE packet = array'[end - 1]
  <2>1. end - 1 # begin
    <3>1. begin + 1 < end /\ begin \in Nat /\ end \in Nat
      BY <1>5, <1>11 DEF IInv, ListType, ListInv, TakeInv, Taking
    <3> QED
      BY <3>1
  <2> QED
    BY <2>1, <1>4, <1>11 DEF IInv, ListType, ListInv, TakeInv, Index
<1>12. Taking => First' < end
  BY <1>4, <1>5
<1>13. TakeInv'
  BY <1>3, <1>5, <1>11, <1>12 DEF IInv, ListInv, TakeInv, Taking
<1> QED
  BY <1>4, <1>5, <1>7, <1>8, <1>9, <1>10, <1>13 DEF IInv, ListInv

\* The taker leaves the pushers' side of the list alone.
LEMMA PusherSideKept ==
  ASSUME UNCHANGED <<begin, pusherVars>>
  PROVE  Moving' = Moving /\ First' = First
BY DEF pusherVars, Moving, First

LEMMA TestStep ==
  ASSUME IInv, ~raced, TakeTest
  PROVE  IInv' /\ First' = First
<1> USE DEF TakeTest, pusherVars
<1>1. Moving' = Moving /\ First' = First
  BY PusherSideKept
<1>2. Moving \in BOOLEAN /\ OnlyUnwritten \in BOOLEAN /\ raced \in BOOLEAN
  BY DEF Moving, OnlyUnwritten, IInv, ListType
<1>3. ListType'
  BY <1>2 DEF IInv, ListType
<1>4. LockInv'
  BY DEF IInv, LockInv
<1>5. IndexInv'
  BY <1>1 DEF IInv, ListInv, IndexInv
<1>6. ~raced' => ~Moving /\ First < end
  <2> SUFFICES ASSUME ~raced' PROVE ~Moving /\ First < end
    OBVIOUS
  <2>1. ~Moving /\ ~OnlyUnwritten
    BY <1>2
  <2>2. begin < end
    BY <2>1 DEF IInv, ListInv, IndexInv, ListType
  <2>3. (\E t \in Pusher : pushing[t] = "write") => begin + 1 < end
    BY <2>1, <2>2 DEF OnlyUnwritten, IInv, ListInv, IndexInv, ListType
  <2> QED
    BY <2>1, <2>2, <2>3 DEF First
<1>7. ListInv'
  BY <1>1, <1>5, <1>6 DEF ListInv, TakeInv, Taking
<1> QED
  BY <1>1, <1>3, <1>4, <1>7 DEF IInv

\* What a take that has not met a push finds last is a packet of the list.
LEMMA LastSlot ==
  ASSUME IInv, ~raced, Taking
  PROVE  end - 1 \in Index /\ First \in Nat /\ First < end /\ ~Moving
<1>1. ~Moving /\ First < end /\ end <= 2 * Room
  BY DEF IInv, ListInv, TakeInv, IndexInv
<1>2. First \in Nat
  BY DEF First, IInv, ListType
<1> QED
  BY <1>1, <1>2, ConstantsAssumption DEF IInv, ListType, Index

LEMMA BackStep ==
  ASSUME IInv, ~raced, TakeBack
  PROVE  IInv' /\ First' = First
<1> USE DEF TakeBack, pusherVars
<1>1. Moving' = Moving /\ First' = First
  BY PusherSideKept
<1>2. end - 1 \in Index /\ First < end /\ ~Moving
  BY LastSlot DEF Taking
<1>3. ListType'
  BY <1>2 DEF IInv, ListType
<1>4. LockInv'
  BY DEF IInv, LockInv
<1>5. IndexInv'
  BY <1>1 DEF IInv, ListInv, IndexInv
<1>6. ListInv'
  BY <1>1, <1>2, <1>5 DEF ListInv, TakeInv, Taking
<1> QED
  BY <1>1, <1>3, <1>4, <1>6 DEF IInv

LEMMA PopReadStep ==
  ASSUME IInv, ~raced, TakePopRead
  PROVE  IInv' /\ First' = First
<1> USE DEF TakePopRead, pusherVars
<1>1. Moving' = Moving /\ First' = First
  BY PusherSideKept
<1>2. First < end /\ ~Moving /\ packet = array[end - 1]
  BY LastSlot DEF Taking, IInv, ListInv, TakeInv
<1>3. ListType'
  BY DEF IInv, ListType
<1>4. LockInv'
  BY DEF IInv, LockInv
<1>5. IndexInv'
  BY <1>1 DEF IInv, ListInv, IndexInv
<1>6. ListInv'
  BY <1>1, <1>2, <1>5 DEF ListInv, TakeInv, Taking
<1> QED
  BY <1>1, <1>3, <1>4, <1>6 DEF IInv

\* What a pop that has met no push leaves: the list without its last, be it the only one.
Popped ==
    \/ First' = First /\ end' = end - 1
    \/ First + 1 = end /\ First' = end /\ end' = end

LEMMA PopWriteStep ==
  ASSUME IInv, ~raced, TakePopWrite
  PROVE  /\ IInv' /\ (~raced' => Popped)
         /\ First \in Nat /\ First < end /\ packet = array[end - 1]
<1> USE DEF pusherVars
<1>1. /\ First \in Nat /\ First < end /\ ~Moving /\ packet = array[end - 1]
      /\ seenBegin = begin /\ seenEnd = end /\ taking = "popped" /\ taking' = "deal"
      /\ UNCHANGED <<array, pusherVars, packet, seenBegin, seenEnd, dealt>>
  BY LastSlot DEF Taking, IInv, ListInv, TakeInv, TakePopWrite
<1>2. begin \in Nat /\ end \in Nat /\ begin <= end /\ end <= 2 * Room
  BY <1>1 DEF IInv, ListType, ListInv, IndexInv
<1>3. ~Moving' /\ (\A t \in Pusher : pushing[t] # "resized") /\ pushing' = pushing
  BY <1>1 DEF Moving
<1>4. CASE end - begin = 1
  <2>1. /\ begin' = begin + 1 /\ end' = end
        /\ raced' = (raced \/ \E t \in Pusher : pushing[t] \in {"move", "slot"})
    BY <1>1, <1>4 DEF TakePopWrite
  <2>2. \A t \in Pusher : pushing[t] # "write"
    BY <1>1, <1>2, <1>4 DEF First
  <2>3. First = begin /\ First' = begin'
    BY <1>1, <1>3, <2>2 DEF First
  <2>4. Popped
    BY <1>2, <1>4, <2>1, <2>3 DEF Popped
  <2>5. ListType'
    <3>1. begin' \in Nat /\ raced' \in BOOLEAN
      BY <1>2, <2>1
    <3> QED
      BY <1>1, <2>1, <3>1 DEF IInv, ListType
  <2>6. IndexInv' \/ raced'
    <3> SUFFICES ASSUME ~raced' PROVE IndexInv'
      OBVIOUS
    <3>1. \A t \in Pusher : pushing[t] \notin {"move", "slot"}
      BY <2>1
    <3>2. end' <= 2 * Room /\ begin' <= end'
      BY <1>2, <1>4, <2>1
    <3> QED
      BY <1>3, <2>2, <3>1, <3>2 DEF IndexInv
  <2>7. LockInv'
    BY <1>1 DEF IInv, LockInv
  <2>8. ListInv'
    BY <1>1, <2>6 DEF ListInv, TakeInv, Taking
  <2> QED
    BY <1>1, <2>4, <2>5, <2>7, <2>8 DEF IInv
<1>5. CASE end - begin # 1
  <2>1. /\ end' = end - 1 /\ begin' = begin
        /\ raced' = (raced \/ \E t \in Pusher : pushing[t] = "move")
    BY <1>1, <1>5 DEF TakePopWrite
  <2>2. First' = First
    BY <1>1, <2>1, PusherSideKept
  <2>3. end' \in Nat /\ First <= end' /\ end' <= 2 * Room
    <3>1. First \in Nat /\ First < end /\ Room \in Nat
      BY <1>1, ConstantsAssumption
    <3> QED
      BY <1>2, <2>1, <3>1
  <2>4. begin <= end' /\ \A t \in Pusher : pushing[t] = "write" => begin + 1 <= end'
    <3>1. ~ (\E t \in Pusher : pushing[t] = "write") => begin <= end'
      BY <1>1, <2>3 DEF First
    <3>2. (\E t \in Pusher : pushing[t] = "write") => begin + 1 <= end'
      BY <2>3 DEF First
    <3> QED
      BY <1>2, <2>3, <3>1, <3>2
  <2>5. ListType'
    <3>1. raced' \in BOOLEAN
      BY <2>1
    <3> QED
      BY <1>1, <2>1, <2>3, <3>1 DEF IInv, ListType
  <2>6. LockInv'
    BY <1>1 DEF IInv, LockInv
  <2>7. IndexInv'
    BY <1>1, <1>3, <2>1, <2>3, <2>4 DEF IInv, ListInv, IndexInv
  <2>8. ListInv'
    BY <1>1, <2>7 DEF ListInv, TakeInv, Taking
  <2> QED
    BY <1>1, <2>1, <2>2, <2>5, <2>6, <2>8 DEF IInv, Popped
<1> QED
  BY <1>4, <1>5

LEMMA DealStep ==
  ASSUME IInv, ~raced, TakeDeal
  PROVE  IInv' /\ First' = First
<1> USE DEF TakeDeal, pusherVars
<1>1. Moving' = Moving /\ First' = First
  BY PusherSideKept
<1>2. dealt' \in Seq(Entry)
  BY DEF IInv, ListType
<1>3. ListType'
  BY <1>2 DEF IInv, ListType
<1>4. LockInv'
  BY DEF IInv, LockInv
<1>5. IndexInv'
  BY <1>1 DEF IInv, ListInv, IndexInv
<1>6. ListInv'
  BY <1>5 DEF ListInv, TakeInv, Taking
<1> QED
  BY <1>1, <1>3, <1>4, <1>6 DEF IInv

\* The MQTT client's own steps, and stuttering, leave the list alone.
LEMMA Elsewhere ==
  ASSUME IInv, UNCHANGED listVars
  PROVE  IInv' /\ First' = First /\ Waiting' = Waiting
<1> USE DEF listVars
<1>1. Moving' = Moving /\ First' = First
  BY DEF Moving, First
<1>2. ListType' /\ LockInv'
  BY DEF IInv, ListType, LockInv
<1>3. Taking' = Taking
  BY DEF Taking
<1>4. IndexInv' = IndexInv /\ TakeInv' = TakeInv
  BY <1>1, <1>3 DEF IndexInv, TakeInv
<1>5. ListInv'
  BY <1>4 DEF IInv, ListInv
<1>6. Waiting' = Waiting
  BY <1>1 DEF Waiting, InHand, Listed
<1> QED
  BY <1>1, <1>2, <1>5, <1>6 DEF IInv

LEMMA NextInv == IInv /\ [Next]_vars => IInv'
<1> SUFFICES ASSUME IInv, [Next]_vars PROVE IInv'
  OBVIOUS
<1>1. ASSUME NEW t \in Pusher, ReceiveStep(t) PROVE IInv'
  BY <1>1, LockStep
<1>2. ASSUME NEW t \in Pusher, PushStep(t) PROVE IInv'
  BY <1>2, TestedStep, MoveStep, ReadEndStep, WriteEndStep, SlotStep, WriteStep DEF PushStep, Push
<1>3. CASE TakeStep
  BY <1>3, TestStep, BackStep, PopReadStep, PopWriteStep, DealStep DEF TakeStep, Take
<1>4. CASE MqttStep \/ KeepAliveStep \/ (Broker /\ UNCHANGED listVars)
  BY <1>4, Elsewhere DEF MqttStep, KeepAliveStep
<1>5. CASE UNCHANGED vars
  BY <1>5, Elsewhere DEF vars
<1> QED
  BY <1>1, <1>2, <1>3, <1>4, <1>5 DEF Next

-----------------------------------------------------------------------------
(* Refinement: each step pushes, takes, breaks or leaves the queue as it is. *)

LEMMA ListedInEntries ==
  ASSUME IInv, ~raced
  PROVE  /\ First \in Nat /\ First <= end
         /\ \A i \in First..(end - 1) : array[i] \in Entry
         /\ Listed \in Seq(Entry)
<1>1. First \in Nat
  BY DEF First, IInv, ListType
<1>2. First <= end
  BY DEF First, IInv, ListType, ListInv, IndexInv
<1>3. \A i \in First..(end - 1) : array[i] \in Entry
  <2>1. \A i \in First..(end - 1) : i \in Index
    BY <1>1, ConstantsAssumption DEF IInv, ListType, ListInv, IndexInv, Index
  <2> QED
    BY <2>1 DEF IInv, ListType
<1>4. Listed \in Seq(Entry)
  <2>1. end \in Nat
    BY DEF IInv, ListType
  <2> QED
    BY <1>1, <1>2, <1>3, <2>1, DownIsSeq DEF Listed
<1> QED
  BY <1>1, <1>2, <1>3, <1>4

\* As long as the slots that count keep their packets the list is the same.
LEMMA ListedSame ==
  ASSUME IInv, ~raced, NEW k \in Nat, First' = First + k, end' = end + k,
         \A i \in First..(end - 1) : array'[i + k] = array[i]
  PROVE  Listed' = Listed
<1>1. First \in Nat /\ end \in Nat
  BY ListedInEntries DEF IInv, ListType
<1>2. Down(array', First + k, end + k) = Down(array, First, end)
  BY <1>1, DownSame
<1> QED
  BY <1>2 DEF Listed

\* A step that changes neither the slots that count nor what the taker holds.
LEMMA Silent ==
  ASSUME IInv, ~raced, ~raced', First' = First, end' = end,
         \A i \in First..(end - 1) : array'[i] = array[i],
         InHand' = InHand
  PROVE  Waiting' = Waiting
<1>1. Listed' = Listed
  <2>1. First' = First + 0 /\ end' = end + 0
    BY ListedInEntries DEF IInv, ListType
  <2>2. \A i \in First..(end - 1) : array'[i + 0] = array[i]
    BY ListedInEntries DEF IInv, ListType
  <2> QED
    BY <2>1, <2>2, ListedSame
<1> QED
  BY <1>1 DEF Waiting

QueueNext == Queue!Next \/ UNCHANGED <<Waiting, dealt, raced>>

LEMMA RefinePush ==
  ASSUME IInv, NEW t \in Pusher, PushStep(t)
  PROVE  QueueNext
<1>0. ~raced
  BY DEF PushStep
<1> USE <1>0 DEF PushStep, takerVars
<1>1. CASE PushMove(t)
  <2> USE <1>1 DEF PushMove
  <2>1. CASE raced'
    BY <2>1 DEF QueueNext, Queue!Next, Queue!Break
  <2>2. CASE ~raced'
    <3>1. pushing[t] = "move" /\ pushing'[t] = "moved" /\ begin = 0
      BY DEF IInv, ListType, ListInv, IndexInv
    <3>2. \A u \in Pusher : u # t => pushing[u] = "idle" /\ pushing'[u] = "idle"
      BY <3>1, Alone DEF IInv, ListType
    <3>3. First = 0 /\ First' = 0
      BY <3>1, <3>2 DEF First, Moving
    <3>4. ASSUME NEW i \in 0..(end - 1) PROVE array'[i] = array[i]
      <4>1. i \in Index /\ i - Room \notin 0..(end - 1)
        BY ConstantsAssumption DEF IInv, ListType, Index
      <4> QED
        BY <4>1
    <3>5. Waiting' = Waiting
      BY <2>2, <3>3, <3>4, Silent DEF InHand
    <3>6. raced' = raced
      BY <2>2, MoveStep DEF IInv, ListType
    <3> QED
      BY <3>5, <3>6 DEF QueueNext
  <2> QED
    BY <2>1, <2>2
<1>2. CASE PushReadEnd(t)
  <2> USE <1>2 DEF PushReadEnd
  <2>1. pushing[t] = "moved" /\ pushing'[t] = "resized"
    BY DEF IInv, ListType
  <2>2. \A u \in Pusher : u # t => pushing[u] = "idle" /\ pushing'[u] = "idle"
    BY <2>1, Alone DEF IInv, ListType
  <2>3. First' = First
    BY <2>1, <2>2 DEF First, Moving
  <2>4. Waiting' = Waiting
    BY <2>3, Silent DEF InHand
  <2> QED
    BY <2>4 DEF QueueNext
<1>3. CASE PushWriteEnd(t)
  <2> USE <1>3 DEF PushWriteEnd
  <2>1. pushing[t] = "resized" /\ pushing'[t] = "slot"
    BY DEF IInv, ListType
  <2>2. \A u \in Pusher : u # t => pushing[u] = "idle" /\ pushing'[u] = "idle"
    BY <2>1, Alone DEF IInv, ListType
  <2>3. Moving /\ ~Moving' /\ begin = Room /\ end' = end + Room
    BY <2>1, <2>2, WriteEndStep DEF Moving
  <2>4. First = 0 /\ First' = 0 + Room
    BY <2>1, <2>2, <2>3, ConstantsAssumption DEF First
  <2>5. \A i \in First..(end - 1) : array'[i + Room] = array[i]
    BY <2>3, <2>4 DEF IInv, ListInv, IndexInv
  <2>6. Listed' = Listed
    BY <2>3, <2>4, <2>5, ListedSame, ConstantsAssumption
  <2>7. Waiting' = Waiting
    BY <2>6 DEF Waiting, InHand
  <2> QED
    BY <2>7 DEF QueueNext
<1>4. CASE PushSlot(t)
  <2> USE <1>4 DEF PushSlot
  <2>1. CASE raced'
    BY <2>1 DEF QueueNext, Queue!Next, Queue!Break
  <2>2. CASE ~raced'
    <3>1. Waiting' = Waiting
      BY <2>2, SlotStep, Silent DEF InHand
    <3>2. raced' = raced
      BY <2>2, SlotStep DEF IInv, ListType
    <3> QED
      BY <3>1, <3>2 DEF QueueNext
  <2> QED
    BY <2>1, <2>2
<1>5. CASE PushWrite(t)
  <2> USE <1>5 DEF PushWrite
  <2>0. PICK c : c = <<t, sent[t]>>
    OBVIOUS
  <2>1. First = begin + 1 /\ First' = begin /\ begin < end /\ end' = end /\ begin \in Index /\ c \in Command
    BY <2>0, WriteStep
  <2>2. begin \in Nat /\ end \in Nat /\ c \in Entry
    BY <2>1 DEF IInv, ListType, Entry
  <2>3. array'[begin] = c
    BY <2>0, <2>1 DEF IInv, ListType
  <2>4. \A i \in (begin + 1)..(end - 1) : array[i] \in Entry /\ array'[i] = array[i]
    BY <2>1, <2>2, ListedInEntries DEF IInv, ListType
  <2>5. Down(array', begin, end) = Append(Down(array, begin + 1, end), c)
    <3>1. \A i \in (begin + 1)..(end - 1) : array[i] \in Entry
      BY <2>4
    <3>2. \A i \in (begin + 1)..(end - 1) : array'[i] = array[i]
      BY <2>4
    <3>3. Pushed(array', array, begin, end, c)
      BY <2>1, <2>2, <2>3, <3>1, <3>2, DownAppend
    <3> QED
      BY <3>3 DEF Pushed
  <2>6. Listed' = Append(Listed, c)
    BY <2>1, <2>5 DEF Listed
  <2>7. Listed \in Seq(Entry) /\ InHand \in Seq(Entry) /\ InHand' = InHand
    BY ListedInEntries DEF InHand, IInv, ListType
  <2>8. InHand \o Append(Listed, c) = Append(InHand \o Listed, c)
    BY <2>2, <2>7, ConcatAssociative, AppendIsConcat, ConcatProperties
  <2>9. Waiting' = Append(Waiting, c)
    BY <2>6, <2>7, <2>8 DEF Waiting
  <2> QED
    BY <2>1, <2>9 DEF QueueNext, Queue!Next, Queue!Push
<1>6. CASE PushTest(t)
  <2> USE <1>6 DEF PushTest
  <2>1. Waiting' = Waiting
    BY TestedStep, Silent DEF InHand
  <2> QED
    BY <2>1 DEF QueueNext
<1> QED
  BY <1>1, <1>2, <1>3, <1>4, <1>5, <1>6 DEF Push

LEMMA RefineTake ==
  ASSUME IInv, TakeStep
  PROVE  QueueNext
<1>0. ~raced
  BY DEF TakeStep
<1> USE <1>0 DEF TakeStep
<1>1. CASE TakeTest
  <2>1. CASE raced'
    BY <2>1 DEF QueueNext, Queue!Next, Queue!Break
  <2>2. CASE ~raced'
    <3>1. First' = First /\ InHand' = InHand
      BY <1>1, TestStep DEF TakeTest, InHand
    <3>2. Waiting' = Waiting
      BY <1>1, <2>2, <3>1, Silent DEF TakeTest
    <3>3. raced' = raced
      BY <1>1, <2>2, TestStep DEF IInv, ListType
    <3> QED
      BY <1>1, <3>2, <3>3 DEF QueueNext, TakeTest
  <2> QED
    BY <2>1, <2>2
<1>2. CASE TakeBack
  <2>1. First' = First /\ InHand' = InHand
    BY <1>2, BackStep DEF TakeBack, InHand
  <2>2. Waiting' = Waiting
    BY <1>2, <2>1, Silent DEF TakeBack
  <2> QED
    BY <1>2, <2>2 DEF QueueNext, TakeBack
<1>3. CASE TakePopRead
  <2>1. First' = First /\ InHand' = InHand
    BY <1>3, PopReadStep DEF TakePopRead, InHand
  <2>2. Waiting' = Waiting
    BY <1>3, <2>1, Silent DEF TakePopRead
  <2> QED
    BY <1>3, <2>2 DEF QueueNext, TakePopRead
<1>4. CASE TakePopWrite
  <2>1. /\ First \in Nat /\ First < end /\ packet = array[end - 1] /\ (~raced' => Popped)
        /\ IInv' /\ taking' = "deal" /\ taking = "popped" /\ UNCHANGED <<array, packet, dealt>>
    BY <1>4, PopWriteStep DEF TakePopWrite
  <2>2. CASE raced'
    BY <2>2 DEF QueueNext, Queue!Next, Queue!Break
  <2>3. CASE ~raced'
    <3>1. \A i \in First..(end - 1) : array[i] \in Entry
      BY ListedInEntries
    <3>2. end \in Nat
      BY DEF IInv, ListType
    <3>3. Down(array, First, end) = <<packet>> \o Down(array, First, end - 1)
      BY <2>1, <3>1, <3>2, DownPop
    <3>4. Listed' = Down(array, First, end - 1)
      <4>1. CASE First' = First /\ end' = end - 1
        BY <2>1, <4>1 DEF Listed
      <4>2. CASE First + 1 = end /\ First' = end /\ end' = end
        <5>1. Down(array, First, end - 1) = <<>>
          <6>1. end - 1 = First
            BY <2>1, <3>2, <4>2
          <6> QED
            BY <2>1, <6>1, DownEmpty
        <5>2. Down(array, end, end) = <<>>
          BY <3>2, DownEmpty
        <5> QED
          BY <2>1, <4>2, <5>1, <5>2 DEF Listed
      <4> QED
        BY <2>1, <2>3, <4>1, <4>2 DEF Popped
    <3>5. Listed = <<packet>> \o Listed'
      BY <3>3, <3>4 DEF Listed
    <3>6. InHand = <<>> /\ InHand' = <<packet>>
      BY <2>1 DEF InHand
    <3>7. <<>> \o Listed = Listed
      BY ListedInEntries, ConcatEmptySeq
    <3>8. Waiting' = Waiting
      BY <2>3, <3>5, <3>6, <3>7 DEF Waiting
    <3>9. raced' = raced
      BY <2>1, <2>3 DEF IInv, ListType
    <3> QED
      BY <2>1, <3>8, <3>9 DEF QueueNext
  <2> QED
    BY <2>2, <2>3
<1>5. CASE TakeDeal
  <2>1. First' = First /\ array' = array /\ end' = end
    BY <1>5, DealStep DEF TakeDeal
  <2>2. Listed' = Listed /\ Listed \in Seq(Entry)
    BY <2>1, ListedInEntries DEF Listed
  <2>3. InHand = <<packet>> /\ InHand' = <<>> /\ packet \in Entry
    BY <1>5 DEF InHand, TakeDeal, IInv, ListType
  <2>4. Waiting = <<packet>> \o Listed /\ Waiting' = Listed
    <3>1. <<>> \o Listed = Listed
      BY <2>2, ConcatEmptySeq
    <3> QED
      BY <1>5, <2>2, <2>3, <3>1 DEF Waiting, TakeDeal
  <2> DEFINE s == Listed  q == <<packet>> \o s
  <2>5. q # <<>> /\ Head(q) = packet /\ Tail(q) = s
    <3> HIDE DEF s
    <3>1. s \in Seq(Entry) /\ <<packet>> \in Seq(Entry)
      BY <2>2, <2>3 DEF s
    <3> QED
      BY <2>3, <3>1
  <2>6. dealt' = Append(dealt, packet) /\ raced' = raced
    BY <1>5 DEF TakeDeal
  <2> QED
    BY <2>4, <2>5, <2>6 DEF QueueNext, Queue!Next, Queue!Take
<1> QED
  BY <1>1, <1>2, <1>3, <1>4, <1>5 DEF Take

LEMMA RefineNext ==
  ASSUME IInv, [Next]_vars
  PROVE  QueueNext
<1>1. ASSUME NEW t \in Pusher, ReceiveStep(t) PROVE QueueNext
  <2> USE <1>1 DEF ReceiveStep, Receive, PushLock, takerVars
  <2>1. \A u \in Pusher : pushing[u] = "idle"
    BY ConstantsAssumption DEF IInv, LockInv
  <2>2. \A u \in Pusher : pushing'[u] \in {"idle", "prepend"}
    BY <2>1 DEF IInv, ListType
  <2>3. First' = First
    BY <2>1, <2>2 DEF First, Moving
  <2>4. Waiting' = Waiting
    BY <2>3, Silent DEF InHand
  <2> QED
    BY <2>4 DEF QueueNext
<1>2. ASSUME NEW t \in Pusher, PushStep(t) PROVE QueueNext
  BY <1>2, RefinePush
<1>3. CASE TakeStep
  BY <1>3, RefineTake
<1>4. CASE MqttStep \/ KeepAliveStep \/ (Broker /\ UNCHANGED listVars)
  <2>1. UNCHANGED listVars
    BY <1>4 DEF MqttStep, KeepAliveStep
  <2> QED
    BY <2>1, Elsewhere DEF QueueNext, listVars
<1>5. CASE UNCHANGED vars
  <2>1. UNCHANGED listVars
    BY <1>5 DEF vars
  <2> QED
    BY <2>1, Elsewhere DEF QueueNext, listVars
<1> QED
  BY <1>1, <1>2, <1>3, <1>4, <1>5 DEF Next

LEMMA SubscribeTyped ==
  ASSUME MqttType, Subscribe
  PROVE  MqttType'
<1>1. CASE SubscribeFails
  BY <1>1 DEF SubscribeFails, MqttType, faultVars
<1>2. CASE SubscribeRefused
  <2>1. refusals' \in 0..MaxRefusals
    BY <1>2, BoundsAssumption DEF SubscribeRefused, MqttType
  <2>2. refusedAgain' \in BOOLEAN
    BY <1>2 DEF SubscribeRefused, MqttType
  <2> QED
    BY <1>2, <2>1, <2>2 DEF SubscribeRefused, MqttType
<1>3. CASE SubscribeDone
  BY <1>3 DEF SubscribeDone, MqttType, faultVars
<1> QED
  BY <1>1, <1>2, <1>3 DEF Subscribe

LEMMA BrokerTyped ==
  ASSUME MqttType, Broker
  PROVE  MqttType'
<1>1. CASE BrokerLost
  <2>1. losses' \in 0..MaxLosses
    BY <1>1, BoundsAssumption DEF BrokerLost, MqttType
  <2>2. session' \in BOOLEAN
    BY <1>1 DEF BrokerLost, MqttType
  <2>3. subscribed' \in BOOLEAN
    BY <1>1, <2>2 DEF BrokerLost, MqttType
  <2> QED
    BY <1>1, <2>1, <2>2, <2>3 DEF BrokerLost, MqttType
<1>2. CASE BrokerBack
  BY <1>2 DEF BrokerBack, MqttType
<1>3. CASE SessionDropped
  <2>1. losses' \in 0..MaxLosses
    BY <1>3, BoundsAssumption DEF SessionDropped, MqttType
  <2> QED
    BY <1>3, <2>1 DEF SessionDropped, MqttType
<1> QED
  BY <1>1, <1>2, <1>3 DEF Broker

LEMMA MqttTyped == MqttType /\ [Next]_vars => MqttType'
<1> SUFFICES ASSUME MqttType, [Next]_vars PROVE MqttType'
  OBVIOUS
<1>1. CASE UNCHANGED mqttVars
  BY <1>1 DEF mqttVars, MqttType
<1>2. CASE MqttStep
  <2>1. ASSUME NEW next \in {"subscribe", "resubscribe"}, Connect(next) PROVE MqttType'
    BY <2>1 DEF Connect, MqttType, faultVars
  <2>2. CASE MqttCheck
    BY <2>2 DEF MqttCheck, MqttType, faultVars
  <2> QED
    BY <1>2, <2>1, <2>2, SubscribeTyped
    DEF MqttStep, MqttRun, MqttFirst, MqttFirstSubscribe, MqttReconnect, MqttResubscribe
<1>3. CASE KeepAliveStep
  BY <1>3 DEF KeepAliveStep, KeepAlive, MqttType, faultVars
<1>4. CASE Broker
  BY <1>4, BrokerTyped
<1>5. ASSUME NEW t \in Pusher, ReceiveStep(t) \/ PushStep(t) PROVE UNCHANGED mqttVars
  BY <1>5 DEF ReceiveStep, PushStep
<1>6. TakeStep \/ UNCHANGED vars => UNCHANGED mqttVars
  BY DEF TakeStep, vars
<1> QED
  BY <1>1, <1>2, <1>3, <1>4, <1>5, <1>6 DEF Next

\* Every variable of the list and of the MQTT client has its type throughout.
THEOREM TypeCorrect == Spec => []TypeOK
<1>1. MqttInit => MqttType
  <2> SUFFICES ASSUME MqttInit PROVE MqttType
    OBVIOUS
  <2>1. losses \in 0..MaxLosses /\ refusals \in 0..MaxRefusals
    BY BoundsAssumption DEF MqttInit
  <2>2. broker \in BOOLEAN
    BY DEF MqttInit
  <2> QED
    BY <2>1, <2>2 DEF MqttInit, MqttType
<1>2. IInv /\ MqttType => TypeOK
  BY DEF IInv, TypeOK
<1> QED
  BY <1>1, <1>2, InitInv, NextInv, MqttTyped, PTL DEF Spec, Init

\* The list implements the queue until a take has met a push: nothing is lost, dealt with twice,
\* invented or out of order, for any number of commands and any room in the array.
THEOREM ListImplementsQueue == Spec => ListIsFifo
<1>1. ListInit => Queue!Init
  <2> SUFFICES ASSUME ListInit PROVE Queue!Init
    OBVIOUS
  <2>1. ~Moving /\ First = 0 /\ end = 0
    BY DEF ListInit, Moving, First
  <2>2. Listed = <<>>
    BY <2>1 DEF Listed, Down
  <2>3. Waiting = <<>>
    BY <2>2 DEF Waiting, InHand, ListInit
  <2> QED
    BY <2>3 DEF ListInit, Queue!Init
<1>2. IInv /\ [Next]_vars => [Queue!Next]_(Queue!fifoVars)
  BY RefineNext DEF QueueNext, Queue!fifoVars
<1> QED
  BY <1>1, <1>2, InitInv, NextInv, PTL DEF Spec, Init, ListIsFifo, Queue!Spec

-----------------------------------------------------------------------------
(* LossIsNoticed is inductive as it stands.                                 *)

LEMMA Noticed == LossIsNoticed /\ [Next]_vars => LossIsNoticed'
<1> SUFFICES ASSUME LossIsNoticed, [Next]_vars PROVE LossIsNoticed'
  OBVIOUS
<1>1. CASE UNCHANGED mqttVars
  BY <1>1 DEF mqttVars, LossIsNoticed
<1>2. CASE MqttStep
  <2>1. CASE Subscribe
    <3>1. CASE SubscribeFails
      BY <3>1 DEF SubscribeFails, LossIsNoticed
    <3>2. CASE SubscribeRefused
      <4>1. status' = status /\ refusedAgain' = (refusedAgain \/ status)
        BY <3>2 DEF SubscribeRefused
      <4> QED
        BY <4>1, Zenon DEF LossIsNoticed
    <3>3. CASE SubscribeDone
      BY <3>3 DEF SubscribeDone, LossIsNoticed
    <3> QED
      BY <2>1, <3>1, <3>2, <3>3 DEF Subscribe
  <2>2. CASE MqttFirst
    <3>1. ~status'
      BY <2>2 DEF MqttFirst, Connect
    <3> QED
      BY <3>1 DEF LossIsNoticed
  <2>3. CASE MqttCheck
    BY <2>3 DEF MqttCheck, LossIsNoticed
  <2>4. CASE MqttReconnect
    <3>1. connected' = broker /\ at' = (IF broker THEN "resubscribe" ELSE "top")
      BY <2>4 DEF MqttReconnect, Connect
    <3>2. broker => at' # "top"
      BY <3>1
    <3>3. ~broker => ~connected'
      BY <3>1, Zenon
    <3> QED
      BY <3>2, <3>3 DEF LossIsNoticed
  <2> QED
    BY <1>2, <2>1, <2>2, <2>3, <2>4 DEF MqttStep, MqttRun, MqttFirstSubscribe, MqttResubscribe
<1>3. CASE KeepAliveStep
  BY <1>3 DEF KeepAliveStep, KeepAlive, LossIsNoticed
<1>4. CASE Broker
  <2>1. CASE BrokerLost
    <3>1. (session' = session \/ session' = FALSE) /\ subscribed' = (subscribed /\ session')
          /\ UNCHANGED <<at, status, connected, refusedAgain>>
      BY <2>1 DEF BrokerLost
    <3>2. CASE session' = session
      BY <3>1, <3>2, Zenon DEF LossIsNoticed
    <3>3. CASE session' = FALSE
      BY <3>3, Zenon DEF LossIsNoticed
    <3> QED
      BY <3>1, <3>2, <3>3, Zenon
  <2>2. CASE BrokerBack
    BY <2>2 DEF BrokerBack, LossIsNoticed
  <2>3. CASE SessionDropped
    BY <2>3 DEF SessionDropped, LossIsNoticed
  <2> QED
    BY <1>4, <2>1, <2>2, <2>3 DEF Broker
<1>5. ASSUME NEW t \in Pusher, ReceiveStep(t) \/ PushStep(t) PROVE LossIsNoticed'
  BY <1>1, <1>5 DEF ReceiveStep, PushStep
<1>6. TakeStep \/ UNCHANGED vars => UNCHANGED mqttVars
  BY DEF TakeStep, vars
<1> QED
  BY <1>1, <1>2, <1>3, <1>4, <1>5, <1>6 DEF Next

\* For any losses and refusals a lost subscription is noticed, unless a subscription has been refused after a
\* reconnection (mqttmodule.cpp:89-116).
THEOREM LossesNoticed == Spec => []LossIsNoticed
<1>1. Init => LossIsNoticed
  BY DEF Init, MqttInit, LossIsNoticed
<1> QED
  BY <1>1, Noticed, PTL DEF Spec
=============================================================================
