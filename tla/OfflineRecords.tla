--------------------------- MODULE OfflineRecords ---------------------------
(***************************************************************************)
(* The records of who passed the door: written to the table offline by the *)
(* thread that granted the passage, uploaded at once when the network is   *)
(* up and again by OfflineRecord::run for as long as they are in the       *)
(* table, which they leave when the back end confirms their id (TcpClient, *)
(* protocol 1).                                                            *)
(*                                                                         *)
(* A record's id is the second it was made in, or 0 for a face when        *)
(* pictures are not uploaded, so that two passages may share an id.  The   *)
(* pictures, files named after the id, are left out: no step reads them to *)
(* decide anything.                                                        *)
(***************************************************************************)
EXTENDS Naturals, Sequences

CONSTANTS
    Passages,      \* the passages that may take place
    None,          \* no passage
    Seconds,       \* values of the wall clock
    MaxFlight,     \* bound: uploads on their way
    MaxRestarts    \* bound: crashes of the process

ASSUME ConstantsAssumption ==
    /\ None \notin Passages
    /\ Seconds \subseteq Nat \ {0}
    /\ Seconds # {}
    /\ MaxFlight \in Nat
    /\ MaxRestarts \in Nat

VARIABLES
    now,           \* the second of the wall clock
    stamp,         \* the id each passage was given
    pc, cur,       \* per thread: where it is, and the passage it is recording
    begun,         \* passages that have taken place
    done,          \* those recorded
    offline,       \* table offline: the passage in the row of each id
    wire,          \* uploads on their way to the back end
    stored,        \* passages the back end has stored
    acks,          \* ids the back end has confirmed
    offPc, todo, offPassage,    \* OfflineRecord::run
    m_netStatus, m_sync, m_offlineFlag,
    cleared,       \* the back end has had the table emptied
    restarts

recVars  == <<stamp, pc, cur, begun, done>>
netVars  == <<wire, stored, acks>>
offVars  == <<offPc, todo, offPassage>>
flagVars == <<m_netStatus, m_sync, m_offlineFlag>>
vars == <<now, recVars, offline, netVars, offVars, flagVars, cleared, restarts>>

Threads == {"face", "main", "deal"}
Ids     == Seconds \cup {0}
Some    == Passages \cup {None}
Upload  == [id : Ids, passage : Passages]

TypeOK ==
    /\ now \in Seconds
    /\ stamp \in [Passages -> Ids]
    /\ pc \in [Threads -> {"idle", "emit", "insert"}]
    /\ cur \in [Threads -> Some]
    /\ \A t \in Threads : pc[t] # "idle" => cur[t] \in Passages
    /\ begun \subseteq Passages
    /\ done \subseteq Passages
    /\ offline \in [Ids -> Some]
    /\ wire \in Seq(Upload)
    /\ stored \subseteq Passages
    /\ acks \in Seq(Ids)
    /\ offPc \in {"top", "loop", "upload"}
    /\ todo \subseteq Ids
    /\ offPassage \in Some
    /\ offPc = "upload" => offPassage \in Passages
    /\ m_netStatus \in BOOLEAN
    /\ m_sync \in BOOLEAN
    /\ m_offlineFlag \in BOOLEAN
    /\ cleared \in BOOLEAN
    /\ restarts \in 0..MaxRestarts

Init ==
    /\ now \in Seconds
    /\ stamp = [p \in Passages |-> 0]
    /\ pc = [t \in Threads |-> "idle"]
    /\ cur = [t \in Threads |-> None]
    /\ begun = {} /\ done = {}
    /\ offline = [i \in Ids |-> None]
    /\ wire = <<>> /\ stored = {} /\ acks = <<>>
    /\ offPc = "top" /\ todo = {} /\ offPassage = None
    /\ m_netStatus = FALSE /\ m_sync = FALSE /\ m_offlineFlag = FALSE
    /\ cleared = FALSE /\ restarts = 0

-----------------------------------------------------------------------------
(* A passage: the face thread, Main for a card, Deal for an OpenDoor       *)

\* An upload reaches the back end, or it is lost on the way or refused.
Send(i, p) ==
    \/ UNCHANGED wire
    \/ Len(wire) < MaxFlight /\ wire' = Append(wire, [id |-> i, passage |-> p])

passUnchanged ==
    UNCHANGED <<now, stored, acks, offVars, m_netStatus, m_sync, cleared, restarts>>

\* The thread t, which is free, grants p passage and gives its record the id i.
Grant(t, p, i) ==
    /\ pc[t] = "idle"
    /\ p \notin begun
    /\ begun' = begun \cup {p}
    /\ pc' = [pc EXCEPT ![t] = "emit"]
    /\ cur' = [cur EXCEPT ![t] = p]
    /\ stamp' = [stamp EXCEPT ![p] = i]
    /\ passUnchanged
    /\ UNCHANGED <<done, offline, wire>>

\* A face with or without a picture: a recognised one ends the quiet time, a stranger's does not.
FacePass(p) ==
    /\ \E i \in {now, 0} : Grant("face", p, i)
    /\ m_offlineFlag' \in {FALSE, m_offlineFlag}

\* While Main handles a card the passage of a face may go unrecorded (m_cardWork).
FaceSkipped ==
    /\ pc["face"] = "emit"
    /\ pc["main"] # "idle"
    /\ pc' = [pc EXCEPT !["face"] = "idle"]
    /\ cur' = [cur EXCEPT !["face"] = None]
    /\ passUnchanged
    /\ UNCHANGED <<stamp, begun, done, offline, wire, m_offlineFlag>>

CardPass(p) ==
    /\ Grant("main", p, now)
    /\ UNCHANGED m_offlineFlag

RemotePass(p) ==
    /\ Grant("deal", p, now)
    /\ m_offlineFlag' = FALSE

\* The record is uploaded at once if the network is up, by Deal in any case.
EmitRecord(t) ==
    /\ pc[t] = "emit"
    /\ pc' = [pc EXCEPT ![t] = "insert"]
    /\ IF m_netStatus \/ t = "deal" THEN Send(stamp[cur[t]], cur[t]) ELSE UNCHANGED wire
    /\ passUnchanged
    /\ UNCHANGED <<stamp, cur, begun, done, offline, m_offlineFlag>>

\* Mutant: a record uploaded at once is not kept.
InsertOnlyOffline(t) ==
    LET i == stamp[cur[t]] IN
    /\ pc[t] = "insert"
    /\ pc' = [pc EXCEPT ![t] = "idle"]
    /\ cur' = [cur EXCEPT ![t] = None]
    /\ done' = done \cup {cur[t]}
    /\ offline' = [offline EXCEPT ![i] = IF @ = None /\ ~m_netStatus THEN cur[t] ELSE @]
    /\ passUnchanged
    /\ UNCHANGED <<stamp, begun, wire, m_offlineFlag>>

\* sqlInsertOffline: the insert of an id that is in the table fails.
InsertRecord(t) ==
    LET i == stamp[cur[t]] IN
    /\ pc[t] = "insert"
    /\ pc' = [pc EXCEPT ![t] = "idle"]
    /\ cur' = [cur EXCEPT ![t] = None]
    /\ done' = done \cup {cur[t]}
    /\ offline' = [offline EXCEPT ![i] = IF @ = None THEN cur[t] ELSE @]
    /\ passUnchanged
    /\ UNCHANGED <<stamp, begun, wire, m_offlineFlag>>

-----------------------------------------------------------------------------
(* The back end and TcpClient                                              *)

backUnchanged ==
    UNCHANGED <<now, recVars, offVars, flagVars, cleared, restarts>>

\* The back end stores an upload and confirms its id; the confirmation may be lost.
UploadStored ==
    /\ wire # <<>>
    /\ wire' = Tail(wire)
    /\ stored' = stored \cup {Head(wire).passage}
    /\ \/ Len(acks) < MaxFlight /\ acks' = Append(acks, Head(wire).id)
       \/ UNCHANGED acks
    /\ backUnchanged
    /\ UNCHANGED offline

\* parseUploadData of result 200
parseUploadData ==
    /\ acks # <<>>
    /\ acks' = Tail(acks)
    /\ offline' = [offline EXCEPT ![Head(acks)] = None]
    /\ backUnchanged
    /\ UNCHANGED <<wire, stored>>

-----------------------------------------------------------------------------
(* OfflineRecord::run                                                      *)

Quiet == m_netStatus /\ ~m_sync /\ m_offlineFlag

offUnchanged ==
    UNCHANGED <<now, recVars, offline, stored, acks, flagVars, cleared, restarts>>

\* sqlSelectAllOffLine
OffBegin ==
    /\ offPc = "top"
    /\ Quiet
    /\ offPc' = "loop"
    /\ todo' = {i \in Ids : offline[i] # None}
    /\ offUnchanged
    /\ UNCHANGED <<wire, offPassage>>

\* Mutant: the list ends before its last id.
OffEndEarly ==
    /\ offPc = "loop"
    /\ (\A i, j \in todo : i = j) \/ ~Quiet
    /\ offPc' = "top"
    /\ todo' = {}
    /\ offUnchanged
    /\ UNCHANGED <<wire, offPassage>>

\* The list is at its end, or the terminal is busy again.
OffEnd ==
    /\ offPc = "loop"
    /\ todo = {} \/ ~Quiet
    /\ offPc' = "top"
    /\ todo' = {}
    /\ offUnchanged
    /\ UNCHANGED <<wire, offPassage>>

\* The next id, and its row unless it has gone.
OffSelect ==
    /\ offPc = "loop"
    /\ Quiet
    /\ \E i \in todo :
         /\ todo' = todo \ {i}
         /\ \/ /\ offline[i] = None
               /\ UNCHANGED <<offPc, offPassage>>
            \/ /\ offline[i] # None
               /\ offPc' = "upload"
               /\ offPassage' = offline[i]
    /\ offUnchanged
    /\ UNCHANGED wire

OffUpload ==
    /\ offPc = "upload"
    /\ offPc' = "loop"
    /\ Send(stamp[offPassage], offPassage)
    /\ offPassage' = None
    /\ offUnchanged
    /\ UNCHANGED todo

-----------------------------------------------------------------------------
(* The rest of the terminal                                                *)

\* The clock runs, and may be set back (getNtp).
Clock ==
    /\ now' \in Seconds
    /\ UNCHANGED <<recVars, offline, netVars, offVars, flagVars, cleared, restarts>>

\* The connection, a synchronisation, or FaceManager::run after 50 frames without a face.
FlagsChange ==
    /\ \/ m_netStatus' = ~m_netStatus /\ UNCHANGED <<m_sync, m_offlineFlag>>
       \/ m_sync' = ~m_sync /\ UNCHANGED <<m_netStatus, m_offlineFlag>>
       \/ m_offlineFlag' = TRUE /\ UNCHANGED <<m_netStatus, m_sync>>
    /\ UNCHANGED <<now, recVars, offline, netVars, offVars, cleared, restarts>>

\* A command of the back end: Deal empties the table.
ClearOfflineData ==
    /\ pc["deal"] = "idle"
    /\ ~cleared
    /\ cleared' = TRUE
    /\ offline' = [i \in Ids |-> None]
    /\ UNCHANGED <<now, recVars, netVars, offVars, flagVars, restarts>>

\* The process dies and starts again: the table is all there is left.
Restart ==
    /\ restarts < MaxRestarts
    /\ restarts' = restarts + 1
    /\ pc' = [t \in Threads |-> "idle"]
    /\ cur' = [t \in Threads |-> None]
    /\ wire' = <<>>
    /\ acks' = <<>>
    /\ offPc' = "top" /\ todo' = {} /\ offPassage' = None
    /\ m_netStatus' = FALSE /\ m_sync' = FALSE /\ m_offlineFlag' = FALSE
    /\ UNCHANGED <<now, stamp, begun, done, offline, stored, cleared>>

-----------------------------------------------------------------------------
Record(t) == EmitRecord(t) \/ InsertRecord(t)
Off       == OffBegin \/ OffEnd \/ OffSelect \/ OffUpload

Next ==
    \/ \E p \in Passages : FacePass(p) \/ CardPass(p) \/ RemotePass(p)
    \/ FaceSkipped \/ \E t \in Threads : Record(t)
    \/ UploadStored \/ parseUploadData
    \/ Off
    \/ Clock \/ FlagsChange \/ ClearOfflineData \/ Restart

Spec == Init /\ [][Next]_vars

\* The kernel schedules OfflineRecord; nothing else is asked of anybody.
FairSpec == Spec /\ WF_vars(Off)

-----------------------------------------------------------------------------
(* Properties                                                              *)

\* A passage once recorded is in the table or at the back end, it or another of its id, in spite
\* of lost uploads and confirmations, of crashes and of a clock set back: a passage can be lost
\* only to one of the same second, or to a command of the back end.
SecondKept ==
    \A p \in done :
        \/ cleared
        \/ offline[stamp[p]] # None
        \/ \E q \in stored : stamp[q] = stamp[p]

\* What makes SecondKept inductive: uploads, rows and the threads name passages that have taken
\* place, and every confirmed id is that of a passage the back end has stored.
KeptInv ==
    /\ stored \subseteq begun
    /\ \A t \in Threads : pc[t] # "idle" => cur[t] \in begun
    /\ \A i \in Ids : offline[i] # None => offline[i] \in begun
    /\ offPc = "upload" => offPassage \in begun
    /\ \A k \in 1..Len(wire) :
           wire[k].passage \in begun /\ wire[k].id = stamp[wire[k].passage]
    /\ \A k \in 1..Len(acks) : \E q \in stored : stamp[q] = acks[k]
    /\ done \subseteq begun

\* A row is uploaded, and again after that, until it has gone, unless the network fails or
\* somebody comes to the door: an upload that is refused does not hold up the others.
EveryRowIsTried ==
    \A p \in Passages :
        offline[stamp[p]] = p /\ Quiet
            ~> offline[stamp[p]] # p \/ offPassage = p \/ ~Quiet

=============================================================================
