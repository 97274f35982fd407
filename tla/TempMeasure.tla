---------------------------- MODULE TempMeasure ----------------------------
(***************************************************************************)
(* The temperature of a person: FaceIdentify::run asks for a measurement   *)
(* in every round (signal startTemp), and waits for it, 2.5 s at most, in  *)
(* the rounds that recognise the face; TempManager starts one unless one   *)
(* is under way, reads the sensor when its time is up, and hands the       *)
(* result over with three assignments to members of FaceIdentify           *)
(* (setTempResult) that no lock protects. TempManager's thread may be late *)
(* for any length of time: its other slots poll the sensor's serial line   *)
(* until it answers.                                                       *)
(*                                                                         *)
(* A measurement is the number of the round that was under way, or had     *)
(* been the last, when the sensor was read; time passes in half seconds.   *)
(***************************************************************************)
EXTENDS Integers

CONSTANTS MaxRounds,    \* bound: rounds of FaceIdentify
          Counts,       \* half seconds to a reading: {3}, or {1} when m_loose is set
          WaitCount,    \* half seconds of the wait (5)
          MaxSets       \* bound: times the wall clock is set back

ASSUME TempAssumption ==
    /\ MaxRounds \in Nat /\ WaitCount \in Nat /\ MaxSets \in Nat
    /\ Counts \subseteq Nat \ {0} /\ \E c \in Counts : \A d \in Counts : d <= c

Longest == CHOOSE c \in Counts : \A d \in Counts : d <= c
Nobody == 0             \* no reading: "" or "0.0"
Failed == -2

VARIABLES
    \* FaceIdentify's thread
    step, round, tempCount, tempVal, tempResult,
    recorded,                               \* the temperature in the record of the last round
    \* shared with TempManager's
    m_tempFlag, m_tempVal, m_tempResult,
    \* TempManager's
    asked,                                  \* calls of startTemp in its queue
    m_startTemp,
    remaining,                              \* until m_endTimerMs, 0 if it has passed
    handing, reading,                       \* setTempResult: the next assignment, and what it hands over
    \* history
    sets,
    quiet,      \* the round waits, and began with no measurement asked for, under way or left over
    orderly     \* no wait given up, no round without a wait, no assignment during a take, no clock set

id == <<step, round, tempCount, tempVal, tempResult, recorded>>
shared == <<m_tempFlag, m_tempVal, m_tempResult>>
temp == <<asked, m_startTemp, remaining, handing, reading>>
tempVars == <<id, shared, temp, sets, quiet, orderly>>

Taking == {"reset", "val", "result", "record"}
----------------------------------------------------------------------------
TempInit ==
    /\ step = "idle" /\ round = 0 /\ tempCount = 0
    /\ tempVal = Nobody /\ tempResult = Failed /\ recorded = Nobody
    /\ m_tempFlag = FALSE /\ m_tempVal = Nobody /\ m_tempResult = Failed
    /\ asked = 0 /\ m_startTemp = FALSE /\ remaining = 0 /\ handing = "no" /\ reading = Nobody
    /\ sets = 0 /\ quiet = TRUE /\ orderly = TRUE
----------------------------------------------------------------------------
(***************************************************************************)
(* FaceIdentify::run.                                                      *)
(***************************************************************************)
\* A round begins. It waits for the temperature if it recognises the face.
BeginRound ==
    /\ step = "idle" /\ round < MaxRounds
    /\ round' = round + 1 /\ asked' = asked + 1
    /\ \/ /\ step' = "wait" /\ tempCount' = 0
          /\ quiet' = (asked = 0 /\ ~m_startTemp /\ remaining = 0 /\ handing = "no" /\ ~m_tempFlag)
          /\ UNCHANGED orderly
       \/ /\ quiet' = FALSE /\ orderly' = FALSE
          /\ UNCHANGED <<step, tempCount>>
    /\ UNCHANGED <<tempVal, tempResult, recorded, shared, m_startTemp, remaining, handing, reading, sets>>

SeeFlag ==
    /\ step = "wait" /\ m_tempFlag
    /\ step' = "reset"
    /\ orderly' = (orderly /\ handing = "no")
    /\ quiet' = (quiet /\ handing = "no")
    /\ UNCHANGED <<round, tempCount, tempVal, tempResult, recorded, shared, temp, sets>>

\* Mutant of GiveUp: the wait has no end
GiveUpNever == FALSE /\ UNCHANGED tempVars

\* The count of the polls is over. m_tempVal keeps the value of an earlier measurement.
GiveUp ==
    /\ step = "wait" /\ ~m_tempFlag /\ tempCount = WaitCount
    /\ m_tempResult' = Failed
    /\ step' = "reset"
    /\ orderly' = FALSE
    /\ UNCHANGED <<round, tempCount, tempVal, tempResult, recorded, m_tempFlag, m_tempVal, temp, sets, quiet>>

\* Mutant of ResetFlag: the flag stays
KeepFlag ==
    /\ step = "reset" /\ step' = "val"
    /\ UNCHANGED <<round, tempCount, tempVal, tempResult, recorded, shared, temp, sets, quiet, orderly>>

ResetFlag ==
    /\ step = "reset" /\ step' = "val"
    /\ m_tempFlag' = FALSE
    /\ UNCHANGED <<round, tempCount, tempVal, tempResult, recorded, m_tempVal, m_tempResult, temp, sets, quiet, orderly>>

TakeVal ==
    /\ step = "val" /\ step' = "result"
    /\ tempVal' = m_tempVal
    /\ UNCHANGED <<round, tempCount, tempResult, recorded, shared, temp, sets, quiet, orderly>>

TakeResult ==
    /\ step = "result" /\ step' = "record"
    /\ tempResult' = m_tempResult
    /\ UNCHANGED <<round, tempCount, tempVal, recorded, shared, temp, sets, quiet, orderly>>

\* The round ends with a record that reads the member again.
Record ==
    /\ step = "record" /\ step' = "idle"
    /\ recorded' = m_tempVal
    /\ UNCHANGED <<round, tempCount, tempVal, tempResult, shared, temp, sets, quiet, orderly>>
----------------------------------------------------------------------------
(***************************************************************************)
(* TempManager.                                                            *)
(***************************************************************************)
\* startTemp: a call that comes before the time of the last has passed is ignored
StartTemp ==
    /\ asked > 0 /\ handing = "no"
    /\ asked' = asked - 1
    /\ \/ /\ remaining = 0
          /\ remaining' \in Counts /\ m_startTemp' = TRUE
       \/ /\ remaining > 0
          /\ UNCHANGED <<remaining, m_startTemp>>
    /\ UNCHANGED <<id, shared, handing, reading, sets, quiet, orderly>>

\* timeckeck, every 200 ms: getTemperature, which may find nothing, and the call of setTempResult
TimeCheck ==
    /\ m_startTemp /\ remaining = 0 /\ handing = "no"
    /\ reading' \in {round, Nobody}
    /\ handing' = "flag"
    /\ UNCHANGED <<id, shared, asked, m_startTemp, remaining, sets, quiet, orderly>>

\* setTempResult: m_tempFlag first, then m_tempVal, then m_tempResult
SetTempResult ==
    /\ \/ /\ handing = "flag" /\ handing' = "val"
          /\ m_tempFlag' = TRUE
          /\ UNCHANGED <<m_tempVal, m_tempResult, m_startTemp>>
       \/ /\ handing = "val" /\ handing' = "result"
          /\ m_tempVal' = reading
          /\ UNCHANGED <<m_tempFlag, m_tempResult, m_startTemp>>
       \/ /\ handing = "result" /\ handing' = "no"
          /\ m_tempResult' = IF reading = Nobody THEN Failed ELSE reading
          /\ m_startTemp' = FALSE
          /\ UNCHANGED <<m_tempFlag, m_tempVal>>
    /\ orderly' = (orderly /\ step \notin Taking)
    /\ quiet' = (quiet /\ step \notin Taking)
    /\ UNCHANGED <<id, asked, remaining, reading, sets>>
----------------------------------------------------------------------------
\* Half a second passes.
HalfSecond ==
    /\ remaining > 0 \/ (step = "wait" /\ tempCount < WaitCount)
    /\ remaining' = IF remaining > 0 THEN remaining - 1 ELSE 0
    /\ tempCount' = IF step = "wait" /\ tempCount < WaitCount THEN tempCount + 1 ELSE tempCount
    /\ UNCHANGED <<step, round, tempVal, tempResult, recorded, shared, asked, m_startTemp, handing, reading,
                   sets, quiet, orderly>>

\* NetManager sets the clock, which m_endTimerMs is compared with; set back by hours it is as if it stood still.
SetClock ==
    /\ sets < MaxSets /\ sets' = sets + 1
    /\ remaining' \in {0, WaitCount + Longest}
    /\ orderly' = FALSE
    /\ UNCHANGED <<id, shared, asked, m_startTemp, handing, reading, quiet>>

FaceIdentify == BeginRound \/ SeeFlag \/ GiveUp \/ ResetFlag \/ TakeVal \/ TakeResult \/ Record
TempManager == StartTemp \/ TimeCheck \/ SetTempResult
TempNext == FaceIdentify \/ TempManager \/ HalfSecond \/ SetClock

(***************************************************************************)
(* Time passes and the face thread, once in a round, runs on; nothing is   *)
(* taken for granted of TempManager.                                       *)
(***************************************************************************)
Fairness == WF_tempVars(HalfSecond) /\ WF_tempVars(FaceIdentify)

TempSpec == TempInit /\ [][TempNext]_tempVars /\ Fairness
----------------------------------------------------------------------------
NumbersOK ==
    /\ round \in 0..MaxRounds /\ tempCount \in 0..WaitCount
    /\ tempVal \in 0..MaxRounds /\ recorded \in 0..MaxRounds
    /\ m_tempVal \in 0..MaxRounds /\ reading \in 0..MaxRounds
    /\ tempResult \in (1..MaxRounds) \union {Failed} /\ m_tempResult \in (1..MaxRounds) \union {Failed}
    /\ asked \in 0..round /\ remaining \in 0..(WaitCount + Longest) /\ sets \in 0..MaxSets

FlagsOK ==
    /\ step \in {"idle", "wait"} \union Taking /\ handing \in {"no", "flag", "val", "result"}
    /\ m_tempFlag \in BOOLEAN /\ m_startTemp \in BOOLEAN /\ quiet \in BOOLEAN /\ orderly \in BOOLEAN

TempTypeOK == NumbersOK /\ FlagsOK

\* A temperature that a round goes by, and records, was measured in that round, or the measurement has failed: if the
\* round began when none was under way or left over, or if every round before it waited for its own to the end
\* (faceidentify.cpp:203-227, 331; tempmanager.cpp:255-301). No other round can count on it.
TempIsOwn ==
    (step = "idle" /\ round > 0 /\ (quiet \/ orderly) /\ tempResult # Failed)
        => (tempVal = round /\ tempResult = round /\ recorded = round)

\* A round ends whatever becomes of TempManager, the sensor and the clock (faceidentify.cpp:206-221).
RoundEnds == (step = "wait") ~> (step = "idle")
=============================================================================
