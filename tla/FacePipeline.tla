---------------------------- MODULE FacePipeline ----------------------------
(***************************************************************************)
(* The hand-over of faces from the camera thread (FaceManager::run) to the *)
(* thread that decides about them (FaceIdentify::run): a vector of faces,  *)
(* a picture, two flags and the semaphore m_usedSpace of FaceInterface,    *)
(* of which only the semaphore is made to be shared.                       *)
(*                                                                         *)
(* A face is the track the algorithm has given it and what it says of it   *)
(* in this frame.  Sounds, display and the wait for a temperature, which   *)
(* ends by itself, are the time a decision takes; opening the door and     *)
(* recording the passage are DoorRelay and OfflineRecords.  Frames without *)
(* a face change nothing here; while m_sync is set, by the threads of      *)
(* UserSync and for however long, frames are not looked at.  An operation  *)
(* on the vector is one step.                                              *)
(***************************************************************************)
EXTENDS Naturals, Sequences

CONSTANTS
    Tracks,     \* persons in front of the camera, as the algorithm tells them apart
    NoTrack,    \* nobody
    MaxAhead    \* bound: faces handed over and not yet taken

ASSUME FaceAssumption ==
    /\ NoTrack \notin Tracks
    /\ MaxAhead \in Nat \ {0}

VARIABLES
    front,                          \* who stands nearest to the camera
    syncing,                        \* DataShare::m_sync
    camPc, seen,                    \* FaceManager::run: where it is, the face of the frame
    m_trackId, m_success, m_iStop,
    faceExpired,                    \* m_identifyWaitTime has passed since a face was handed over
    m_faceHandle,
    m_bgrImage,                     \* whose picture it is
    m_usedSpace,
    idPc, face, egPass,             \* FaceIdentify::run
    \* history
    handed,                         \* the face handed over last
    pictured,                       \* the algorithm gave a picture with it
    late                            \* a decision has outlasted m_identifyWaitTime

flagVars == <<m_success, m_iStop>>
camVars  == <<camPc, seen, m_trackId>>
idVars   == <<idPc, face, egPass>>
faceVars == <<front, syncing, camVars, flagVars, faceExpired, m_faceHandle, m_bgrImage, m_usedSpace, idVars,
          handed, pictured, late>>

Somebody == Tracks \cup {NoTrack}

\* recStatus (with score and pose): recognised, no registered person's, not yet known.
Statuses == {"success", "stranger", "other"}
Face     == [track : Tracks, recStatus : Statuses]

FaceTypeOK ==
    /\ front \in Somebody /\ syncing \in BOOLEAN
    /\ camPc \in {"frame", "hold", "free", "test", "append", "release"}
    /\ seen \in [track : Somebody, recStatus : Statuses]
    /\ camPc # "frame" => seen.track \in Tracks
    /\ m_trackId \in Somebody
    /\ m_success \in BOOLEAN
    /\ m_iStop \in BOOLEAN
    /\ faceExpired \in BOOLEAN
    /\ m_faceHandle \in Seq(Face)
    /\ m_bgrImage \in Somebody
    /\ m_usedSpace \in 0..MaxAhead
    /\ idPc \in {"wait", "status", "record", "clear", "stop"}
    /\ face \in Somebody
    /\ egPass \in BOOLEAN
    /\ handed \in [track : Somebody, recStatus : Statuses]
    /\ pictured \in BOOLEAN
    /\ late \in BOOLEAN

Nothing == [track |-> NoTrack, recStatus |-> "other"]

FaceInit ==
    /\ front = NoTrack /\ syncing = FALSE
    /\ camPc = "frame" /\ seen = Nothing /\ m_trackId = NoTrack
    /\ m_success = FALSE /\ m_iStop = TRUE
    /\ faceExpired = TRUE
    /\ m_faceHandle = <<>> /\ m_bgrImage = NoTrack /\ m_usedSpace = 0
    /\ idPc = "wait" /\ face = NoTrack /\ egPass = FALSE
    /\ handed = Nothing /\ pictured = FALSE /\ late = FALSE

-----------------------------------------------------------------------------
(* FaceManager::run with a face in the frame                               *)

camUnchanged == UNCHANGED <<front, syncing, idVars, late>>

\* Mutant: a person whose time is over is not let through again.
CamTrackKeepsOut ==
    /\ camPc = "frame"
    /\ ~syncing /\ front # NoTrack
    /\ \E s \in Statuses : seen' = [track |-> front, recStatus |-> s]
    /\ m_trackId' = front
    /\ camPc' = IF front = m_trackId /\ m_success THEN "hold" ELSE "test"
    /\ camUnchanged
    /\ UNCHANGED <<flagVars, faceExpired, m_faceHandle, m_bgrImage, m_usedSpace, handed, pictured>>

\* Mutant: a track seen before waits, decided on or not.
CamTrackWaits ==
    /\ camPc = "frame"
    /\ ~syncing /\ front # NoTrack
    /\ \E s \in Statuses : seen' = [track |-> front, recStatus |-> s]
    /\ m_trackId' = front
    /\ camPc' = IF front # m_trackId THEN "test" ELSE IF faceExpired THEN "free" ELSE "hold"
    /\ camUnchanged
    /\ UNCHANGED <<flagVars, faceExpired, m_faceHandle, m_bgrImage, m_usedSpace, handed, pictured>>

\* A track seen before waits if it has been decided on, and is let through when its time is over.
CamTrack ==
    /\ camPc = "frame"
    /\ ~syncing /\ front # NoTrack
    /\ \E s \in Statuses : seen' = [track |-> front, recStatus |-> s]
    /\ m_trackId' = front
    /\ camPc' = IF front # m_trackId THEN "test"
                ELSE IF faceExpired THEN "free"
                ELSE IF m_success THEN "hold" ELSE "test"
    /\ camUnchanged
    /\ UNCHANGED <<flagVars, faceExpired, m_faceHandle, m_bgrImage, m_usedSpace, handed, pictured>>

CamStop ==
    /\ camPc \in {"hold", "free"}
    /\ camPc' = "test"
    /\ m_iStop' = (camPc = "free")
    /\ camUnchanged
    /\ UNCHANGED <<seen, m_trackId, m_success, faceExpired, m_faceHandle, m_bgrImage, m_usedSpace,
                   handed, pictured>>

CamTest ==
    /\ camPc = "test"
    /\ \/ /\ ~m_iStop
          /\ camPc' = "frame"
          /\ seen' = Nothing
          /\ UNCHANGED <<m_success, faceExpired>>
       \/ /\ m_iStop
          /\ camPc' = "append"
          /\ m_success' = FALSE
          /\ faceExpired' = FALSE
          /\ UNCHANGED seen
    /\ camUnchanged
    /\ UNCHANGED <<m_trackId, m_iStop, m_faceHandle, m_bgrImage, m_usedSpace, handed, pictured>>

\* Mutant: the flag is not cleared.
CamAppendForgetful ==
    /\ camPc = "append"
    /\ camPc' = "release"
    /\ m_faceHandle' = Append(m_faceHandle, seen)
    /\ handed' = seen
    /\ camUnchanged
    /\ UNCHANGED <<flagVars, seen, m_trackId, faceExpired, m_bgrImage, m_usedSpace, pictured>>

CamAppend ==
    /\ camPc = "append"
    /\ camPc' = "release"
    /\ m_iStop' = FALSE
    /\ m_faceHandle' = Append(m_faceHandle, seen)
    /\ handed' = seen
    /\ camUnchanged
    /\ UNCHANGED <<seen, m_trackId, m_success, faceExpired, m_bgrImage, m_usedSpace, pictured>>

\* The picture, if the algorithm has given one, then the semaphore.
CamRelease ==
    /\ camPc = "release"
    /\ m_usedSpace < MaxAhead
    /\ camPc' = "frame"
    /\ seen' = Nothing
    /\ pictured' \in BOOLEAN
    /\ m_bgrImage' = IF pictured' THEN seen.track ELSE m_bgrImage
    /\ m_usedSpace' = m_usedSpace + 1
    /\ camUnchanged
    /\ UNCHANGED <<m_trackId, flagVars, faceExpired, m_faceHandle, handed>>

-----------------------------------------------------------------------------
(* FaceIdentify::run                                                       *)

idUnchanged ==
    UNCHANGED <<front, syncing, camVars, faceExpired, m_bgrImage, handed, pictured, late>>

\* m_faceHandle[0], which is anything if the vector is empty.
First == IF m_faceHandle = <<>> THEN Face ELSE {Head(m_faceHandle)}

IdTake ==
    /\ idPc = "wait"
    /\ m_usedSpace > 0
    /\ m_usedSpace' = m_usedSpace - 1
    /\ idPc' = "status"
    /\ \E f \in First : face' = f.track
    /\ idUnchanged
    /\ UNCHANGED <<flagVars, m_faceHandle, egPass>>

\* The vector is read again for the status; who is not known yet gets no decision.
IdStatus ==
    /\ idPc = "status"
    /\ \E f \in First :
         \/ /\ f.recStatus = "other"
            /\ idPc' = "clear"
            /\ egPass' = FALSE
            /\ UNCHANGED m_success
         \/ /\ f.recStatus # "other"
            /\ idPc' = "record"
            /\ egPass' = (f.recStatus = "success")
            /\ m_success' = TRUE
    /\ idUnchanged
    /\ UNCHANGED <<m_iStop, m_faceHandle, m_usedSpace, face>>

\* The door is opened if it is to be, the picture saved, the passage recorded.
IdRecord ==
    /\ idPc = "record"
    /\ idPc' = "clear"
    /\ idUnchanged
    /\ UNCHANGED <<flagVars, m_faceHandle, m_usedSpace, face, egPass>>

\* Mutant: the vector is not emptied.
IdClearForgotten ==
    /\ idPc = "clear"
    /\ idPc' = "stop"
    /\ idUnchanged
    /\ UNCHANGED <<flagVars, m_faceHandle, m_usedSpace, face, egPass>>

IdClear ==
    /\ idPc = "clear"
    /\ idPc' = "stop"
    /\ m_faceHandle' = <<>>
    /\ idUnchanged
    /\ UNCHANGED <<flagVars, m_usedSpace, face, egPass>>

IdStop ==
    /\ idPc = "stop"
    /\ idPc' = "wait"
    /\ m_iStop' = TRUE
    /\ face' = NoTrack
    /\ egPass' = FALSE
    /\ idUnchanged
    /\ UNCHANGED <<m_success, m_faceHandle, m_usedSpace>>

-----------------------------------------------------------------------------
(* Persons and time                                                        *)

restUnchanged ==
    UNCHANGED <<camVars, flagVars, m_faceHandle, m_bgrImage, m_usedSpace, idVars, handed, pictured>>

\* Somebody comes, goes, or steps in front of another.
Move ==
    /\ front' \in Somebody \ {front}
    /\ restUnchanged
    /\ UNCHANGED <<syncing, faceExpired, late>>

\* Other threads set and clear the flag, and so does run() itself without a network.
FaceSync ==
    /\ syncing' = ~syncing
    /\ restUnchanged
    /\ UNCHANGED <<front, faceExpired, late>>

\* A face is on its way to a decision, or in one.
Deciding == camPc \in {"append", "release"} \/ m_usedSpace > 0 \/ idPc # "wait"

FaceTimeout ==
    /\ ~faceExpired
    /\ faceExpired' = TRUE
    /\ late' = (late \/ Deciding)
    /\ restUnchanged
    /\ UNCHANGED <<front, syncing>>

-----------------------------------------------------------------------------
Cam == CamTrack \/ CamStop \/ CamTest \/ CamAppend \/ CamRelease
Id  == IdTake \/ IdStatus \/ IdRecord \/ IdClear \/ IdStop

FaceNext == Cam \/ Id \/ Move \/ FaceSync \/ FaceTimeout

FaceSpec == FaceInit /\ [][FaceNext]_faceVars

\* Both threads are scheduled, the camera delivers frames and time passes; nobody promises that m_sync is cleared.
FaceFairSpec == FaceSpec /\ WF_faceVars(Cam) /\ WF_faceVars(Id) /\ WF_faceVars(FaceTimeout)

-----------------------------------------------------------------------------
(* Properties                                                              *)

\* A decision concerns the one face that was handed over for it: id, verdict and picture, read at
\* different times from shared variables, are all that face's, unless a decision has taken longer
\* than m_identifyWaitTime, or the algorithm gave no picture.
DecisionIsOwn ==
    idPc = "record" =>
        \/ late
        \/ /\ face = handed.track
           /\ egPass <=> handed.recStatus = "success"
           /\ pictured => m_bgrImage = face

\* The camera thread is held off only while a face is on its way to a decision, or after a decision about the person who
\* has stayed: flags of two threads, set in any order, never leave both of them waiting (facemanager.cpp:281-312).
HeldForAFace == ~m_iStop => Deciding \/ m_success

\* Where a hand-over is, as Turnstile counts: from the vector being filled to the flag being set again.
Stage ==
    IF late THEN "broken"
    ELSE IF idPc = "record" THEN "decided"
    ELSE IF idPc \in {"clear", "stop"} THEN "done"
    ELSE IF idPc = "status" \/ m_usedSpace > 0 \/ camPc = "release" THEN "offered"
    ELSE "free"

Offered == IF Stage \in {"broken", "free"} THEN Nothing ELSE handed
Verdict == IF Stage = "decided"
           THEN [track |-> face, recStatus |-> IF egPass THEN "success" ELSE "stranger"]
           ELSE Nothing

\* The two threads with their two flags and their semaphore are a turnstile: whoever is handed over is
\* decided on once, by what was handed over, before anybody else is, and nobody is twice, unless a
\* decision has taken longer than m_identifyWaitTime (facemanager.cpp:281-349, faceidentify.cpp:84-350).
Turn == INSTANCE Turnstile WITH
    Undecided <- {f \in Face : f.recStatus = "other"},
    stage <- Stage, offer <- Offered, decision <- Verdict
OneAfterTheOther == Turn!Spec

\* Whoever stays in front of the camera is looked at by FaceIdentify, whatever has become of those before, unless a
\* synchronisation begins or is under way (run skips every frame, facemanager.cpp:198-211), or a decision has taken
\* longer than m_identifyWaitTime.
FaceIsSeen == \A t \in Tracks : front = t ~> (idPc # "wait" /\ face = t) \/ front # t \/ syncing \/ late

-----------------------------------------------------------------------------
(* What makes the safety property inductive                                *)

\* One face at a time: the camera thread lets one through only when the one before has gone.
OneFace == m_faceHandle = <<handed>>

HandOver ==
    /\ Deciding /\ camPc # "append" => ~m_iStop /\ ~faceExpired
    /\ camPc = "append" => ~faceExpired
    /\ camPc = "free" => ~Deciding
    /\ camPc # "release" /\ m_usedSpace = 0 /\ idPc = "wait" => m_faceHandle = <<>>
    /\ camPc \in {"append", "release"} => m_usedSpace = 0 /\ idPc = "wait"
    /\ camPc = "release" => OneFace /\ handed = seen
    /\ m_usedSpace > 0 => m_usedSpace = 1 /\ idPc = "wait" /\ OneFace
    /\ idPc \in {"status", "record", "clear"} => OneFace
    /\ idPc = "stop" => m_faceHandle = <<>>
    /\ m_usedSpace > 0 /\ pictured => m_bgrImage = handed.track
    /\ idPc = "status" => face = handed.track
    /\ idPc \in {"status", "record"} /\ pictured => m_bgrImage = handed.track

DecisionInv == late \/ (HandOver /\ DecisionIsOwn)

=============================================================================
