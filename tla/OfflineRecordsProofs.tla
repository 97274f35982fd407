------------------------ MODULE OfflineRecordsProofs ------------------------
(* Proofs about OfflineRecords. *)
EXTENDS OfflineRecords, TLAPS

\* What the steps of the two channels need of sequences.
LEMMA AppendSeq ==
    ASSUME NEW S, NEW s \in Seq(S), NEW x \in S
    PROVE  /\ Append(s, x) \in Seq(S)
           /\ Len(Append(s, x)) = Len(s) + 1
           /\ \A i \in 1..Len(s) : Append(s, x)[i] = s[i]
           /\ Append(s, x)[Len(s) + 1] = x
  OBVIOUS

LEMMA TailSeq ==
    ASSUME NEW S, NEW s \in Seq(S), s # <<>>
    PROVE  /\ Head(s) \in S
           /\ Len(s) \in Nat /\ 1 \in 1..Len(s)
           /\ Head(s) = s[1]
           /\ Tail(s) \in Seq(S)
           /\ Len(Tail(s)) = Len(s) - 1
           /\ \A i \in 1..Len(Tail(s)) : i + 1 \in 1..Len(s) /\ Tail(s)[i] = s[i + 1]
  OBVIOUS

\* Whoever is at work on a passage has a passage of the model, and so has the upload under way.
LEMMA SendType ==
    ASSUME wire \in Seq(Upload), NEW i \in Ids, NEW p \in Passages, Send(i, p)
    PROVE  wire' \in Seq(Upload)
<1>1. [id |-> i, passage |-> p] \in Upload
  BY DEF Upload
<1> QED
  BY <1>1, AppendSeq DEF Send

LEMMA InitType == Init => TypeOK
<1> SUFFICES ASSUME Init PROVE TypeOK
  OBVIOUS
<1> USE DEF Init
<1>1. stamp \in [Passages -> Ids] /\ offline \in [Ids -> Some]
  BY DEF Ids, Some
<1>2. pc \in [Threads -> {"idle", "emit", "insert"}] /\ cur \in [Threads -> Some]
  BY DEF Some
<1>3. wire \in Seq(Upload) /\ acks \in Seq(Ids)
  OBVIOUS
<1>4. restarts \in 0..MaxRestarts
  BY ConstantsAssumption
<1> QED
  BY <1>1, <1>2, <1>3, <1>4 DEF TypeOK, Some

LEMMA GrantType ==
    ASSUME TypeOK, NEW t \in Threads, NEW p \in Passages, NEW i \in Ids, Grant(t, p, i),
           m_offlineFlag' \in BOOLEAN
    PROVE  TypeOK'
<1> USE DEF Grant, passUnchanged, offVars, TypeOK, Some
<1>1. stamp' \in [Passages -> Ids] /\ begun' \subseteq Passages
  OBVIOUS
<1>2. pc' \in [Threads -> {"idle", "emit", "insert"}] /\ cur' \in [Threads -> Some]
  OBVIOUS
<1>3. \A s \in Threads : pc'[s] # "idle" => cur'[s] \in Passages
  OBVIOUS
<1> QED
  BY <1>1, <1>2, <1>3

LEMMA PassType ==
    ASSUME TypeOK,
           \/ \E p \in Passages : FacePass(p) \/ CardPass(p) \/ RemotePass(p)
           \/ FaceSkipped
           \/ \E t \in Threads : Record(t)
    PROVE  TypeOK'
<1>a. now \in Ids /\ 0 \in Ids /\ {"face", "main", "deal"} = Threads
  BY DEF TypeOK, Ids, Threads
<1>1. ASSUME NEW p \in Passages, FacePass(p) \/ CardPass(p) \/ RemotePass(p) PROVE TypeOK'
  BY <1>1, <1>a, GrantType DEF FacePass, CardPass, RemotePass, TypeOK
<1>2. CASE FaceSkipped
  BY <1>2, <1>a DEF FaceSkipped, passUnchanged, offVars, TypeOK, Some
<1>3. ASSUME NEW t \in Threads, EmitRecord(t) PROVE TypeOK'
  <2>1. cur[t] \in Passages /\ stamp[cur[t]] \in Ids
    BY <1>3 DEF EmitRecord, TypeOK
  <2>2. wire' \in Seq(Upload)
    BY <1>3, <2>1, SendType DEF EmitRecord, TypeOK
  <2>3. pc' = [pc EXCEPT ![t] = "insert"] /\ pc[t] # "idle" /\ cur' = cur
    BY <1>3 DEF EmitRecord
  <2>4. pc' \in [Threads -> {"idle", "emit", "insert"}]
        /\ \A s \in Threads : pc'[s] # "idle" => cur'[s] \in Passages
    BY <2>3 DEF TypeOK
  <2> QED
    BY <1>3, <2>2, <2>4 DEF EmitRecord, passUnchanged, offVars, TypeOK
<1>4. ASSUME NEW t \in Threads, InsertRecord(t) PROVE TypeOK'
  <2>1. cur[t] \in Passages /\ stamp[cur[t]] \in Ids
    BY <1>4 DEF InsertRecord, TypeOK
  <2>2. offline' \in [Ids -> Some] /\ done' \subseteq Passages
    BY <1>4, <2>1 DEF InsertRecord, TypeOK, Some
  <2>3. pc' = [pc EXCEPT ![t] = "idle"] /\ cur' = [cur EXCEPT ![t] = None]
    BY <1>4 DEF InsertRecord
  <2>4. /\ pc' \in [Threads -> {"idle", "emit", "insert"}]
        /\ cur' \in [Threads -> Some]
        /\ \A s \in Threads : pc'[s] # "idle" => cur'[s] \in Passages
    BY <2>3 DEF TypeOK, Some
  <2> QED
    BY <1>4, <2>2, <2>4 DEF InsertRecord, passUnchanged, offVars, TypeOK
<1> QED
  BY <1>1, <1>2, <1>3, <1>4 DEF Record

LEMMA OtherType ==
    ASSUME TypeOK,
           \/ UploadStored \/ parseUploadData \/ Off
           \/ Clock \/ FlagsChange \/ ClearOfflineData \/ Restart
    PROVE  TypeOK'
<1> USE DEF backUnchanged, offUnchanged, recVars, netVars, offVars, flagVars
<1>1. CASE UploadStored
  <2>1. /\ wire' \in Seq(Upload)
        /\ Head(wire) \in Upload
    BY <1>1, TailSeq DEF UploadStored, TypeOK
  <2>2. Head(wire).id \in Ids /\ Head(wire).passage \in Passages
    BY <2>1 DEF Upload
  <2>3. stored' \subseteq Passages
    BY <1>1, <2>2 DEF UploadStored, TypeOK
  <2>4. acks' = acks \/ acks' = Append(acks, Head(wire).id)
    BY <1>1 DEF UploadStored
  <2>5. acks \in Seq(Ids)
    BY DEF TypeOK
  <2>6. Append(acks, Head(wire).id) \in Seq(Ids)
    BY <2>2, <2>5, AppendSeq
  <2>7. acks' \in Seq(Ids)
    BY <2>4, <2>5, <2>6
  <2> QED
    BY <1>1, <2>1, <2>3, <2>7 DEF UploadStored, TypeOK
<1>2. CASE parseUploadData
  <2>1. acks' \in Seq(Ids)
    BY <1>2, TailSeq DEF parseUploadData, TypeOK
  <2>2. offline' \in [Ids -> Some]
    BY <1>2 DEF parseUploadData, TypeOK, Some
  <2> QED
    BY <1>2, <2>1, <2>2 DEF parseUploadData, TypeOK
<1>3. CASE OffBegin
  BY <1>3 DEF OffBegin, TypeOK
<1>4. CASE OffEnd
  BY <1>4 DEF OffEnd, TypeOK
<1>5. CASE OffSelect
  BY <1>5 DEF OffSelect, TypeOK, Some
<1>6. CASE OffUpload
  <2>1. wire' \in Seq(Upload)
    BY <1>6, SendType DEF OffUpload, TypeOK
  <2> QED
    BY <1>6, <2>1 DEF OffUpload, TypeOK, Some
<1>7. CASE Clock
  BY <1>7 DEF Clock, TypeOK
<1>8. CASE FlagsChange
  BY <1>8 DEF FlagsChange, TypeOK
<1>9. CASE ClearOfflineData
  BY <1>9 DEF ClearOfflineData, TypeOK, Some
<1>10. CASE Restart
  <2>1. restarts' \in 0..MaxRestarts
    BY <1>10, ConstantsAssumption DEF Restart, TypeOK
  <2>2. pc' \in [Threads -> {"idle", "emit", "insert"}] /\ cur' \in [Threads -> Some]
    BY <1>10 DEF Restart, Some
  <2>3. \A t \in Threads : pc'[t] = "idle"
    BY <1>10 DEF Restart
  <2>4. wire' \in Seq(Upload) /\ acks' \in Seq(Ids)
    BY <1>10 DEF Restart
  <2> QED
    BY <1>10, <2>1, <2>2, <2>3, <2>4 DEF Restart, TypeOK, Some
<1> QED
  BY <1>1, <1>2, <1>3, <1>4, <1>5, <1>6, <1>7, <1>8, <1>9, <1>10 DEF Off

\* Threads, table, channels and flags have their types throughout.
THEOREM TypeCorrect == Spec => []TypeOK
<1>1. Init => TypeOK
  BY InitType
<1>2. TypeOK /\ [Next]_vars => TypeOK'
  <2> SUFFICES ASSUME TypeOK, [Next]_vars PROVE TypeOK'
    OBVIOUS
  <2>1. CASE UNCHANGED vars
    BY <2>1 DEF vars, recVars, netVars, offVars, flagVars, TypeOK
  <2> QED
    BY <2>1, PassType, OtherType DEF Next
<1> QED
  BY <1>1, <1>2, PTL DEF Spec

-----------------------------------------------------------------------------
(* What is confirmed is stored.                                            *)

LEMMA InitKept == Init => KeptInv /\ SecondKept
  BY DEF Init, KeptInv, SecondKept

\* A new upload names a passage that has taken place, by its id.
LEMMA SendKept ==
    ASSUME TypeOK, KeptInv, NEW p \in begun, Send(stamp[p], p)
    PROVE  \A k \in 1..Len(wire') :
               wire'[k].passage \in begun /\ wire'[k].id = stamp[wire'[k].passage]
<1>1. CASE UNCHANGED wire
  BY <1>1 DEF KeptInv
<1>2. CASE wire' = Append(wire, [id |-> stamp[p], passage |-> p])
  <2> DEFINE m == [id |-> stamp[p], passage |-> p]
  <2>1. m \in Upload
    BY DEF TypeOK, Upload
  <2>2. /\ Len(wire') = Len(wire) + 1
        /\ \A k \in 1..Len(wire) : wire'[k] = wire[k]
        /\ wire'[Len(wire) + 1] = m
    BY <1>2, <2>1, AppendSeq DEF TypeOK
  <2>3. Len(wire) \in Nat
    BY DEF TypeOK
  <2> QED
    BY <2>2, <2>3 DEF KeptInv
<1> QED
  BY <1>1, <1>2 DEF Send

\* A new passage gets its id before anything names it.
LEMMA GrantKept ==
    ASSUME TypeOK, KeptInv, SecondKept, NEW t \in Threads, NEW p \in Passages, NEW i \in Ids,
           Grant(t, p, i)
    PROVE  KeptInv' /\ SecondKept'
<1> USE DEF Grant, passUnchanged, offVars
<1>1. /\ begun' = begun \cup {p}
      /\ \A q \in begun : stamp'[q] = stamp[q]
  BY DEF TypeOK
<1>2. /\ pc' = [pc EXCEPT ![t] = "emit"]
      /\ cur' = [cur EXCEPT ![t] = p]
  OBVIOUS
<1>3. \A s \in Threads : pc'[s] # "idle" => cur'[s] \in begun'
  BY <1>1, <1>2 DEF TypeOK, KeptInv
<1>4. \A k \in 1..Len(acks) : \E q \in stored : stamp'[q] = acks[k]
  BY <1>1 DEF KeptInv
<1>5. \A k \in 1..Len(wire) :
          wire[k].passage \in begun' /\ wire[k].id = stamp'[wire[k].passage]
  BY <1>1 DEF KeptInv
<1>6. KeptInv'
  BY <1>1, <1>3, <1>4, <1>5 DEF KeptInv
<1>7. SecondKept'
  BY <1>1 DEF SecondKept, KeptInv
<1> QED
  BY <1>6, <1>7

LEMMA PassKept ==
    ASSUME TypeOK, KeptInv, SecondKept,
           \/ \E p \in Passages : FacePass(p) \/ CardPass(p) \/ RemotePass(p)
           \/ FaceSkipped
           \/ \E t \in Threads : Record(t)
    PROVE  KeptInv' /\ SecondKept'
<1>a. now \in Ids /\ 0 \in Ids /\ {"face", "main", "deal"} = Threads
  BY DEF TypeOK, Ids, Threads
<1>1. ASSUME NEW p \in Passages, FacePass(p) \/ CardPass(p) \/ RemotePass(p)
      PROVE  KeptInv' /\ SecondKept'
  BY <1>1, <1>a, GrantKept DEF FacePass, CardPass, RemotePass
<1>2. CASE FaceSkipped
  BY <1>2, <1>a DEF FaceSkipped, passUnchanged, offVars, TypeOK, KeptInv, SecondKept
<1>3. ASSUME NEW t \in Threads, EmitRecord(t) PROVE KeptInv' /\ SecondKept'
  <2>1. cur[t] \in begun
    BY <1>3 DEF EmitRecord, KeptInv
  <2>2. UNCHANGED wire \/ Send(stamp[cur[t]], cur[t])
    BY <1>3 DEF EmitRecord
  <2>3. \A k \in 1..Len(wire') :
            wire'[k].passage \in begun /\ wire'[k].id = stamp[wire'[k].passage]
    BY <2>1, <2>2, SendKept DEF KeptInv
  <2>4. \A s \in Threads : pc'[s] # "idle" => cur'[s] \in begun
    BY <1>3, <2>1 DEF EmitRecord, KeptInv, TypeOK
  <2> QED
    BY <1>3, <2>3, <2>4 DEF EmitRecord, passUnchanged, offVars, KeptInv, SecondKept
<1>4. ASSUME NEW t \in Threads, InsertRecord(t) PROVE KeptInv' /\ SecondKept'
  <2> DEFINE i == stamp[cur[t]]
  <2>1. cur[t] \in begun /\ cur[t] \in Passages /\ cur[t] # None /\ i \in Ids
    BY <1>4, ConstantsAssumption DEF InsertRecord, KeptInv, TypeOK
  <2>2. /\ offline' = [offline EXCEPT ![i] = IF @ = None THEN cur[t] ELSE @]
        /\ done' = done \cup {cur[t]}
        /\ pc' = [pc EXCEPT ![t] = "idle"]
        /\ cur' = [cur EXCEPT ![t] = None]
        /\ UNCHANGED <<stamp, begun, wire, stored, acks, offPc, offPassage, cleared>>
    BY <1>4 DEF InsertRecord, passUnchanged, offVars
  <2>3. \A j \in Ids : /\ offline[j] # None => offline'[j] = offline[j]
                       /\ offline'[j] # None => offline'[j] \in begun
    BY <2>1, <2>2 DEF TypeOK, KeptInv
  <2>4. offline'[i] # None
    BY <2>1, <2>2 DEF TypeOK
  <2>5. \A s \in Threads : pc'[s] # "idle" => cur'[s] \in begun
    BY <2>2 DEF TypeOK, KeptInv
  <2>6. KeptInv'
    BY <2>1, <2>2, <2>3, <2>5 DEF KeptInv
  <2>7. SecondKept'
    BY <2>1, <2>2, <2>3, <2>4 DEF SecondKept, TypeOK
  <2> QED
    BY <2>6, <2>7
<1> QED
  BY <1>1, <1>2, <1>3, <1>4 DEF Record

\* The back end stores before it confirms.
LEMMA StoredKept ==
    ASSUME TypeOK, KeptInv, SecondKept, UploadStored
    PROVE  KeptInv' /\ SecondKept'
<1> DEFINE m == Head(wire)
<1>1. /\ wire' = Tail(wire)
      /\ stored' = stored \cup {m.passage}
      /\ acks' = acks \/ acks' = Append(acks, m.id)
      /\ UNCHANGED <<stamp, pc, cur, begun, done, offline, offPc, offPassage, cleared>>
  BY DEF UploadStored, backUnchanged, recVars, offVars
<1>2. /\ m \in Upload /\ m = wire[1] /\ 1 \in 1..Len(wire)
      /\ \A k \in 1..Len(wire') : k + 1 \in 1..Len(wire) /\ wire'[k] = wire[k + 1]
  BY <1>1, TailSeq DEF UploadStored, TypeOK
<1>3. m.passage \in begun /\ m.id = stamp[m.passage] /\ m.id \in Ids
  BY <1>2 DEF KeptInv, Upload
<1>4. \A k \in 1..Len(acks') : \E q \in stored' : stamp[q] = acks'[k]
  <2>1. CASE acks' = acks
    BY <1>1, <2>1 DEF KeptInv
  <2>2. CASE acks' = Append(acks, m.id)
    <3>1. /\ Len(acks') = Len(acks) + 1 /\ Len(acks) \in Nat
          /\ \A k \in 1..Len(acks) : acks'[k] = acks[k]
          /\ acks'[Len(acks) + 1] = m.id
      BY <1>3, <2>2, AppendSeq DEF TypeOK
    <3>2. \A k \in 1..Len(acks) : \E q \in stored' : stamp[q] = acks'[k]
      BY <1>1, <3>1 DEF KeptInv
    <3>3. \E q \in stored' : stamp[q] = acks'[Len(acks) + 1]
      BY <1>1, <1>3, <3>1
    <3> QED
      BY <3>1, <3>2, <3>3
  <2> QED
    BY <1>1, <2>1, <2>2
<1>5. \A k \in 1..Len(wire') : wire'[k].passage \in begun /\ wire'[k].id = stamp[wire'[k].passage]
  BY <1>2 DEF KeptInv
<1>6. KeptInv'
  BY <1>1, <1>3, <1>4, <1>5 DEF KeptInv
<1>7. SecondKept'
  BY <1>1 DEF SecondKept
<1> QED
  BY <1>6, <1>7

\* A confirmed id leaves the table, and a passage of that id is stored.
LEMMA AckKept ==
    ASSUME TypeOK, KeptInv, SecondKept, parseUploadData
    PROVE  KeptInv' /\ SecondKept'
<1>1. /\ acks' = Tail(acks)
      /\ offline' = [offline EXCEPT ![Head(acks)] = None]
      /\ UNCHANGED <<stamp, pc, cur, begun, done, wire, stored, offPc, offPassage, cleared>>
  BY DEF parseUploadData, backUnchanged, recVars, offVars
<1>2. /\ Head(acks) = acks[1] /\ 1 \in 1..Len(acks)
      /\ \A k \in 1..Len(acks') : k + 1 \in 1..Len(acks) /\ acks'[k] = acks[k + 1]
  BY <1>1, TailSeq DEF parseUploadData, TypeOK
<1>3. \E q \in stored : stamp[q] = Head(acks)
  BY <1>2 DEF KeptInv
<1>4. \A j \in Ids : /\ j # Head(acks) => offline'[j] = offline[j]
                     /\ offline'[j] # None => offline'[j] = offline[j]
  BY <1>1 DEF TypeOK
<1>5. KeptInv'
  BY <1>1, <1>2, <1>4 DEF KeptInv
<1>6. SecondKept'
  <2> SUFFICES ASSUME NEW p \in done, ~cleared
               PROVE  offline'[stamp[p]] # None \/ \E q \in stored : stamp[q] = stamp[p]
    BY <1>1 DEF SecondKept
  <2>1. stamp[p] \in Ids
    BY DEF TypeOK
  <2> QED
    BY <1>3, <1>4, <2>1 DEF SecondKept
<1> QED
  BY <1>5, <1>6

LEMMA OffKept ==
    ASSUME TypeOK, KeptInv, SecondKept, Off
    PROVE  KeptInv' /\ SecondKept'
<1> USE DEF offUnchanged, recVars, flagVars
<1>1. CASE OffBegin
  BY <1>1 DEF OffBegin, KeptInv, SecondKept
<1>2. CASE OffEnd
  BY <1>2 DEF OffEnd, KeptInv, SecondKept
<1>3. CASE OffSelect
  <2>1. offPc' = "upload" => offPassage' \in begun
    BY <1>3 DEF OffSelect, KeptInv, TypeOK
  <2> QED
    BY <1>3, <2>1 DEF OffSelect, KeptInv, SecondKept
<1>4. CASE OffUpload
  <2>1. \A k \in 1..Len(wire') :
            wire'[k].passage \in begun /\ wire'[k].id = stamp[wire'[k].passage]
    BY <1>4, SendKept DEF OffUpload, KeptInv
  <2> QED
    BY <1>4, <2>1 DEF OffUpload, KeptInv, SecondKept
<1> QED
  BY <1>1, <1>2, <1>3, <1>4 DEF Off

LEMMA OtherKept ==
    ASSUME TypeOK, KeptInv, SecondKept, Clock \/ FlagsChange \/ ClearOfflineData \/ Restart
    PROVE  KeptInv' /\ SecondKept'
<1> USE DEF recVars, netVars, offVars, flagVars
<1>1. CASE Clock
  BY <1>1 DEF Clock, KeptInv, SecondKept
<1>2. CASE FlagsChange
  BY <1>2 DEF FlagsChange, KeptInv, SecondKept
<1>3. CASE ClearOfflineData
  BY <1>3 DEF ClearOfflineData, KeptInv, SecondKept
<1>4. CASE Restart
  <2>1. \A t \in Threads : pc'[t] = "idle"
    BY <1>4 DEF Restart
  <2>2. Len(wire') = 0 /\ Len(acks') = 0 /\ offPc' = "top"
    BY <1>4 DEF Restart
  <2> QED
    BY <1>4, <2>1, <2>2 DEF Restart, KeptInv, SecondKept
<1> QED
  BY <1>1, <1>2, <1>3, <1>4

\* Whatever is lost, repeated, refused or interrupted: a passage once recorded is in the table or
\* at the back end, it or another of its id, unless the back end has had the table emptied.
THEOREM RecordsKept == Spec => []SecondKept
<1>1. Init => KeptInv /\ SecondKept
  BY InitKept
<1>2. TypeOK /\ KeptInv /\ SecondKept /\ [Next]_vars => (KeptInv /\ SecondKept)'
  <2> SUFFICES ASSUME TypeOK, KeptInv, SecondKept, [Next]_vars PROVE KeptInv' /\ SecondKept'
    OBVIOUS
  <2>1. CASE UNCHANGED vars
    BY <2>1 DEF vars, recVars, netVars, offVars, flagVars, KeptInv, SecondKept
  <2> QED
    BY <2>1, PassKept, StoredKept, AckKept, OffKept, OtherKept DEF Next
<1> QED
  BY <1>1, <1>2, TypeCorrect, PTL DEF Spec

=============================================================================
