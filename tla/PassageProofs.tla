---------------------------- MODULE PassageProofs ----------------------------
(***************************************************************************)
(* Proofs about the three components a person's passage goes through, for  *)
(* any persons, rounds, threads and times:                                 *)
(*                                                                         *)
(*  - TempMeasure: a temperature is that of its round;                     *)
(*  - DoorRelay: the relay follows m_doorStatus and stays on for its time; *)
(*  - FacePipeline: a decision is about the face that was handed over.     *)
(*                                                                         *)
(* Each part has the specification and the invariants of its component,    *)
(* and rests on that component's assumption only.                          *)
(***************************************************************************)
EXTENDS FacePipeline, TempMeasure, DoorRelay, SequenceTheorems, TLAPS

(***************************************************************************)
(* TempMeasure: TempIsOwn. The inductive invariant follows the one         *)
(* measurement a quiet round has asked for.                                *)
(***************************************************************************)
Own(v) == v \in {round, Nobody}
ResultOf(v) == IF v = Nobody THEN Failed ELSE v

\* Where the measurement of a quiet round is while the round waits: asked for; counted down, or not accepted
\* because the clock was set; being handed over; handed over.
Asked == asked = 1 /\ ~m_startTemp /\ handing = "no" /\ ~m_tempFlag
Counted == asked = 0 /\ handing = "no" /\ ~m_tempFlag
HandingFlag == asked = 0 /\ m_startTemp /\ handing = "flag" /\ ~m_tempFlag /\ Own(reading)
HandingVal == asked = 0 /\ m_startTemp /\ handing = "val" /\ m_tempFlag /\ Own(reading)
HandingResult == asked = 0 /\ m_startTemp /\ handing = "result" /\ m_tempFlag /\ Own(reading) /\ m_tempVal = reading
Handed == /\ asked = 0 /\ ~m_startTemp /\ handing = "no" /\ m_tempFlag
          /\ Own(m_tempVal) /\ m_tempResult = ResultOf(m_tempVal)
Measuring == Asked \/ Counted \/ HandingFlag \/ HandingVal \/ HandingResult \/ Handed

\* A quiet round takes its own measurement or one that has failed.
Taken ==
    /\ m_tempResult = Failed \/ (m_tempVal = round /\ m_tempResult = round)
    /\ step \in {"result", "record"} => tempVal = m_tempVal
    /\ step = "record" => tempResult = m_tempResult

Ended == tempResult = Failed \/ (tempVal = round /\ tempResult = round /\ recorded = round)

Still == asked = 0 /\ ~m_startTemp /\ remaining = 0 /\ handing = "no"

OrderlyIsQuiet == orderly => quiet
OrderlyIsStill == orderly /\ step # "wait" => Still /\ (step # "reset" => ~m_tempFlag)
OrderlyWaits == orderly /\ step = "wait" => (remaining = 0 \/ (m_startTemp /\ handing = "no" /\ ~m_tempFlag))
QuietMeasures == quiet /\ step = "wait" => Measuring
QuietTakes == quiet /\ step \in Taking => Taken
QuietEnds == quiet /\ step = "idle" /\ round > 0 => Ended

TempInv ==
    /\ TempTypeOK
    /\ OrderlyIsQuiet /\ OrderlyIsStill /\ OrderlyWaits
    /\ QuietMeasures /\ QuietTakes /\ QuietEnds

LEMMA LongestIsNat == Longest \in Counts /\ Longest \in Nat /\ \A c \in Counts : c \in 1..Longest
<1>1. Longest \in Counts /\ \A d \in Counts : d <= Longest
  BY TempAssumption, Zenon DEF Longest
<1> QED
  BY <1>1, TempAssumption

\* The variables keep their types.
LEMMA TempTypeStarts == TempInit => TempTypeOK
<1> SUFFICES ASSUME TempInit PROVE TempTypeOK
  OBVIOUS
<1>1. WaitCount + Longest \in Nat
  BY TempAssumption, LongestIsNat
<1>2. NumbersOK
  BY <1>1, TempAssumption DEF TempInit, NumbersOK, Nobody, Failed
<1>3. FlagsOK
  BY DEF TempInit, FlagsOK, Taking
<1> QED
  BY <1>2, <1>3 DEF TempTypeOK

LEMMA TempTypeStays == TempTypeOK /\ [TempNext]_tempVars => TempTypeOK'
<1> SUFFICES ASSUME TempTypeOK, [TempNext]_tempVars PROVE TempTypeOK'
  OBVIOUS
<1>0. WaitCount + Longest \in Nat /\ \A c \in Counts : c \in 1..(WaitCount + Longest)
  BY TempAssumption, LongestIsNat
<1> USE DEF TempTypeOK
<1>1. CASE BeginRound
  <2>1. NumbersOK'
    BY <1>1, <1>0, TempAssumption DEF BeginRound, NumbersOK, shared
  <2>2. FlagsOK'
    BY <1>1 DEF BeginRound, FlagsOK, shared
  <2> QED
    BY <2>1, <2>2
<1>2. CASE SeeFlag
  <2>1. NumbersOK'
    BY <1>2, <1>0, TempAssumption DEF SeeFlag, NumbersOK, shared, temp
  <2>2. FlagsOK'
    BY <1>2 DEF SeeFlag, FlagsOK, Taking, shared, temp
  <2> QED
    BY <2>1, <2>2
<1>3. CASE GiveUp
  <2>1. NumbersOK'
    BY <1>3, <1>0, TempAssumption DEF GiveUp, NumbersOK, temp
  <2>2. FlagsOK'
    BY <1>3 DEF GiveUp, FlagsOK, Taking, temp
  <2> QED
    BY <2>1, <2>2
<1>4. CASE ResetFlag
  <2>1. NumbersOK'
    BY <1>4, <1>0, TempAssumption DEF ResetFlag, NumbersOK, temp
  <2>2. FlagsOK'
    BY <1>4 DEF ResetFlag, FlagsOK, Taking, temp
  <2> QED
    BY <2>1, <2>2
<1>5. CASE TakeVal
  <2>1. NumbersOK'
    BY <1>5, <1>0, TempAssumption DEF TakeVal, NumbersOK, shared, temp
  <2>2. FlagsOK'
    BY <1>5 DEF TakeVal, FlagsOK, Taking, shared, temp
  <2> QED
    BY <2>1, <2>2
<1>6. CASE TakeResult
  <2>1. NumbersOK'
    BY <1>6, <1>0, TempAssumption DEF TakeResult, NumbersOK, shared, temp
  <2>2. FlagsOK'
    BY <1>6 DEF TakeResult, FlagsOK, Taking, shared, temp
  <2> QED
    BY <2>1, <2>2
<1>7. CASE Record
  <2>1. NumbersOK'
    BY <1>7, <1>0, TempAssumption DEF Record, NumbersOK, shared, temp
  <2>2. FlagsOK'
    BY <1>7 DEF Record, FlagsOK, shared, temp
  <2> QED
    BY <2>1, <2>2
<1>8. CASE StartTemp
  <2>1. NumbersOK'
    <3>1. remaining' \in Counts \/ remaining' = remaining
      BY <1>8 DEF StartTemp
    <3>2. remaining' \in 0..(WaitCount + Longest)
      BY <3>1, <1>0 DEF NumbersOK
    <3>3. asked' \in 0..round
      BY <1>8 DEF StartTemp, NumbersOK
    <3> QED
      BY <1>8, <3>2, <3>3 DEF StartTemp, NumbersOK, id, shared
  <2>2. FlagsOK'
    BY <1>8 DEF StartTemp, FlagsOK, id, shared
  <2> QED
    BY <2>1, <2>2
<1>9. CASE TimeCheck
  <2>1. NumbersOK'
    BY <1>9, <1>0, TempAssumption DEF TimeCheck, NumbersOK, Nobody, id, shared
  <2>2. FlagsOK'
    BY <1>9 DEF TimeCheck, FlagsOK, id, shared
  <2> QED
    BY <2>1, <2>2
<1>10. CASE SetTempResult
  <2>1. NumbersOK'
    BY <1>10, <1>0, TempAssumption DEF SetTempResult, NumbersOK, Nobody, id
  <2>2. FlagsOK'
    BY <1>10 DEF SetTempResult, FlagsOK, id
  <2> QED
    BY <2>1, <2>2
<1>11. CASE HalfSecond
  <2>1. NumbersOK'
    BY <1>11, <1>0, TempAssumption DEF HalfSecond, NumbersOK, shared
  <2>2. FlagsOK'
    BY <1>11 DEF HalfSecond, FlagsOK, shared
  <2> QED
    BY <2>1, <2>2
<1>12. CASE SetClock
  <2>1. NumbersOK'
    BY <1>12, <1>0, TempAssumption DEF SetClock, NumbersOK, id, shared
  <2>2. FlagsOK'
    BY <1>12 DEF SetClock, FlagsOK, id, shared
  <2> QED
    BY <2>1, <2>2
<1>20. CASE UNCHANGED tempVars
  BY <1>20 DEF tempVars, id, shared, temp, NumbersOK, FlagsOK
<1> QED
  BY <1>1, <1>2, <1>3, <1>4, <1>5, <1>6, <1>7, <1>8, <1>9, <1>10, <1>11, <1>12, <1>20 DEF TempNext, FaceIdentify, TempManager

THEOREM TempTypeCorrect == TempSpec => []TempTypeOK
BY TempTypeStarts, TempTypeStays, PTL DEF TempSpec
LEMMA TempInvStarts == TempInit => TempInv
<1> SUFFICES ASSUME TempInit PROVE TempInv
  OBVIOUS
<1>1. TempTypeOK
  BY TempTypeStarts
<1>2. OrderlyIsQuiet /\ OrderlyIsStill /\ OrderlyWaits
  BY DEF TempInit, OrderlyIsQuiet, OrderlyIsStill, OrderlyWaits, Still
<1>3. QuietMeasures /\ QuietTakes /\ QuietEnds
  BY DEF TempInit, QuietMeasures, QuietTakes, QuietEnds, Taking
<1> QED
  BY <1>1, <1>2, <1>3 DEF TempInv

LEMMA TempInvStays == TempInv /\ [TempNext]_tempVars => TempInv'
<1> SUFFICES ASSUME TempInv, [TempNext]_tempVars PROVE TempInv'
  OBVIOUS
<1>0. TempTypeOK /\ TempTypeOK'
  BY TempTypeStays DEF TempInv
<1>a. NumbersOK /\ FlagsOK
  BY <1>0 DEF TempTypeOK
<1>1. CASE BeginRound
  <2>1. OrderlyIsQuiet'
    BY <1>1, <1>a DEF BeginRound, TempInv, OrderlyIsQuiet, OrderlyIsStill, Still
  <2>2. OrderlyIsStill'
    BY <1>1, <1>a DEF BeginRound, OrderlyIsStill
  <2>3. OrderlyWaits'
    BY <1>1, <1>a DEF BeginRound, TempInv, OrderlyWaits, OrderlyIsStill, Still
  <2>4. QuietMeasures'
    <3>1. step = "idle" /\ m_startTemp' = m_startTemp /\ handing' = handing /\ m_tempFlag' = m_tempFlag
      BY <1>1 DEF BeginRound, shared
    <3>2. quiet' /\ step' = "wait" => asked = 0 /\ ~m_startTemp /\ handing = "no" /\ ~m_tempFlag
      BY <1>1, Zenon DEF BeginRound
    <3>3. asked = 0 => asked' = 1
      BY <1>1 DEF BeginRound
    <3> QED
      BY <3>1, <3>2, <3>3 DEF QuietMeasures, Measuring, Asked
  <2>5. QuietTakes'
    BY <1>1, <1>a DEF BeginRound, Taking, QuietTakes
  <2>6. QuietEnds'
    BY <1>1, <1>a DEF BeginRound, QuietEnds
  <2> QED
    BY <1>0, <2>1, <2>2, <2>3, <2>4, <2>5, <2>6 DEF TempInv
<1>2. CASE SeeFlag
  <2>1. OrderlyIsQuiet'
    <3>1. orderly' = (orderly /\ handing = "no") /\ quiet' = (quiet /\ handing = "no")
      BY <1>2 DEF SeeFlag
    <3>2. orderly => quiet
      BY DEF TempInv, OrderlyIsQuiet
    <3> QED
      BY <3>1, <3>2, Zenon DEF OrderlyIsQuiet
  <2>2. OrderlyIsStill'
    BY <1>2, <1>a DEF SeeFlag, TempInv, OrderlyIsStill, OrderlyWaits, OrderlyIsQuiet, QuietMeasures, Still, Measuring, Asked, Counted, HandingFlag, HandingVal, HandingResult, Handed, temp
  <2>3. OrderlyWaits'
    BY <1>2, <1>a DEF SeeFlag, OrderlyWaits
  <2>4. QuietMeasures'
    BY <1>2, <1>a DEF SeeFlag, QuietMeasures
  <2>5. QuietTakes'
    BY <1>2, <1>a DEF SeeFlag, TempInv, QuietTakes, Taken, QuietMeasures, Measuring, Asked, Counted, HandingFlag, HandingVal, HandingResult, Handed, Own, ResultOf, shared
  <2>6. QuietEnds'
    BY <1>2, <1>a DEF SeeFlag, QuietEnds
  <2> QED
    BY <1>0, <2>1, <2>2, <2>3, <2>4, <2>5, <2>6 DEF TempInv
<1>3. CASE GiveUp
  <2>1. OrderlyIsQuiet'
    BY <1>3, <1>a DEF GiveUp, OrderlyIsQuiet
  <2>2. OrderlyIsStill'
    BY <1>3, <1>a DEF GiveUp, OrderlyIsStill
  <2>3. OrderlyWaits'
    BY <1>3, <1>a DEF GiveUp, OrderlyWaits
  <2>4. QuietMeasures'
    BY <1>3, <1>a DEF GiveUp, QuietMeasures
  <2>5. QuietTakes'
    BY <1>3, <1>a DEF GiveUp, QuietTakes, Taken
  <2>6. QuietEnds'
    BY <1>3, <1>a DEF GiveUp, QuietEnds
  <2> QED
    BY <1>0, <2>1, <2>2, <2>3, <2>4, <2>5, <2>6 DEF TempInv
<1>4. CASE ResetFlag
  <2>1. OrderlyIsQuiet'
    BY <1>4, <1>a DEF ResetFlag, TempInv, OrderlyIsQuiet
  <2>2. OrderlyIsStill'
    BY <1>4, <1>a DEF ResetFlag, TempInv, OrderlyIsStill, Still, temp
  <2>3. OrderlyWaits'
    BY <1>4, <1>a DEF ResetFlag, OrderlyWaits
  <2>4. QuietMeasures'
    BY <1>4, <1>a DEF ResetFlag, QuietMeasures
  <2>5. QuietTakes'
    BY <1>4, <1>a DEF ResetFlag, TempInv, Taking, QuietTakes, Taken
  <2>6. QuietEnds'
    BY <1>4, <1>a DEF ResetFlag, QuietEnds
  <2> QED
    BY <1>0, <2>1, <2>2, <2>3, <2>4, <2>5, <2>6 DEF TempInv
<1>5. CASE TakeVal
  <2>1. OrderlyIsQuiet'
    BY <1>5, <1>a DEF TakeVal, TempInv, OrderlyIsQuiet
  <2>2. OrderlyIsStill'
    BY <1>5, <1>a DEF TakeVal, TempInv, OrderlyIsStill, Still, shared, temp
  <2>3. OrderlyWaits'
    BY <1>5, <1>a DEF TakeVal, OrderlyWaits
  <2>4. QuietMeasures'
    BY <1>5, <1>a DEF TakeVal, QuietMeasures
  <2>5. QuietTakes'
    BY <1>5, <1>a DEF TakeVal, TempInv, Taking, QuietTakes, Taken, shared
  <2>6. QuietEnds'
    BY <1>5, <1>a DEF TakeVal, QuietEnds
  <2> QED
    BY <1>0, <2>1, <2>2, <2>3, <2>4, <2>5, <2>6 DEF TempInv
<1>6. CASE TakeResult
  <2>1. OrderlyIsQuiet'
    BY <1>6, <1>a DEF TakeResult, TempInv, OrderlyIsQuiet
  <2>2. OrderlyIsStill'
    BY <1>6, <1>a DEF TakeResult, TempInv, OrderlyIsStill, Still, shared, temp
  <2>3. OrderlyWaits'
    BY <1>6, <1>a DEF TakeResult, OrderlyWaits
  <2>4. QuietMeasures'
    BY <1>6, <1>a DEF TakeResult, QuietMeasures
  <2>5. QuietTakes'
    BY <1>6, <1>a DEF TakeResult, TempInv, Taking, QuietTakes, Taken, shared
  <2>6. QuietEnds'
    BY <1>6, <1>a DEF TakeResult, QuietEnds
  <2> QED
    BY <1>0, <2>1, <2>2, <2>3, <2>4, <2>5, <2>6 DEF TempInv
<1>7. CASE Record
  <2>1. OrderlyIsQuiet'
    BY <1>7, <1>a DEF Record, TempInv, OrderlyIsQuiet
  <2>2. OrderlyIsStill'
    BY <1>7, <1>a DEF Record, TempInv, OrderlyIsStill, Still, shared, temp
  <2>3. OrderlyWaits'
    BY <1>7, <1>a DEF Record, OrderlyWaits
  <2>4. QuietMeasures'
    BY <1>7, <1>a DEF Record, QuietMeasures
  <2>5. QuietTakes'
    BY <1>7, <1>a DEF Record, Taking, QuietTakes
  <2>6. QuietEnds'
    BY <1>7, <1>a DEF Record, TempInv, Taking, QuietEnds, Ended, QuietTakes, Taken
  <2> QED
    BY <1>0, <2>1, <2>2, <2>3, <2>4, <2>5, <2>6 DEF TempInv
<1>8. CASE StartTemp
  <2>1. OrderlyIsQuiet'
    BY <1>8, <1>a DEF StartTemp, TempInv, OrderlyIsQuiet
  <2>2. OrderlyIsStill'
    BY <1>8, <1>a DEF StartTemp, TempInv, OrderlyIsStill, Still, id
  <2>3. OrderlyWaits'
    BY <1>8, <1>a DEF StartTemp, TempInv, OrderlyWaits, OrderlyIsQuiet, QuietMeasures, Measuring, Asked, Counted, HandingFlag, HandingVal, HandingResult, Handed, id, shared
  <2>4. QuietMeasures'
    BY <1>8, <1>a DEF StartTemp, TempInv, QuietMeasures, Measuring, Asked, Counted, HandingFlag, HandingVal, HandingResult, Handed, id, shared
  <2>5. QuietTakes'
    BY <1>8, <1>a DEF StartTemp, TempInv, QuietTakes, Taken, id, shared
  <2>6. QuietEnds'
    BY <1>8, <1>a DEF StartTemp, TempInv, QuietEnds, Ended, id
  <2> QED
    BY <1>0, <2>1, <2>2, <2>3, <2>4, <2>5, <2>6 DEF TempInv
<1>9. CASE TimeCheck
  <2>1. OrderlyIsQuiet'
    BY <1>9, <1>a DEF TimeCheck, TempInv, OrderlyIsQuiet
  <2>2. OrderlyIsStill'
    BY <1>9, <1>a DEF TimeCheck, TempInv, OrderlyIsStill, Still, id
  <2>3. OrderlyWaits'
    BY <1>9, <1>a DEF TimeCheck, OrderlyWaits
  <2>4. QuietMeasures'
    BY <1>9, <1>a DEF TimeCheck, TempInv, QuietMeasures, Measuring, Asked, Counted, HandingFlag, HandingVal, HandingResult, Handed, Own, id, shared
  <2>5. QuietTakes'
    BY <1>9, <1>a DEF TimeCheck, TempInv, QuietTakes, Taken, id, shared
  <2>6. QuietEnds'
    BY <1>9, <1>a DEF TimeCheck, TempInv, QuietEnds, Ended, id
  <2> QED
    BY <1>0, <2>1, <2>2, <2>3, <2>4, <2>5, <2>6 DEF TempInv
<1>10. CASE SetTempResult
  <2>1. OrderlyIsQuiet'
    BY <1>10, <1>a DEF SetTempResult, TempInv, OrderlyIsQuiet
  <2>2. OrderlyIsStill'
    BY <1>10, <1>a DEF SetTempResult, TempInv, OrderlyIsStill, Still, id
  <2>3. OrderlyWaits'
    BY <1>10, <1>a DEF SetTempResult, TempInv, OrderlyWaits, id
  <2>4. QuietMeasures'
    BY <1>10, <1>a DEF SetTempResult, TempInv, QuietMeasures, Measuring, Asked, Counted, HandingFlag, HandingVal, HandingResult, Handed, Own, ResultOf, id
  <2>5. QuietTakes'
    BY <1>10, <1>a DEF SetTempResult, QuietTakes, id
  <2>6. QuietEnds'
    BY <1>10, <1>a DEF SetTempResult, TempInv, QuietEnds, Ended, id
  <2> QED
    BY <1>0, <2>1, <2>2, <2>3, <2>4, <2>5, <2>6 DEF TempInv
<1>11. CASE HalfSecond
  <2>1. OrderlyIsQuiet'
    BY <1>11, <1>a DEF HalfSecond, TempInv, OrderlyIsQuiet
  <2>2. OrderlyIsStill'
    BY <1>11, <1>a DEF HalfSecond, TempInv, OrderlyIsStill, Still
  <2>3. OrderlyWaits'
    BY <1>11, <1>a DEF HalfSecond, TempInv, OrderlyWaits, shared
  <2>4. QuietMeasures'
    BY <1>11, <1>a DEF HalfSecond, TempInv, QuietMeasures, Measuring, Asked, Counted, HandingFlag, HandingVal, HandingResult, Handed, Own, shared
  <2>5. QuietTakes'
    BY <1>11, <1>a DEF HalfSecond, TempInv, QuietTakes, Taken, shared
  <2>6. QuietEnds'
    BY <1>11, <1>a DEF HalfSecond, TempInv, QuietEnds, Ended
  <2> QED
    BY <1>0, <2>1, <2>2, <2>3, <2>4, <2>5, <2>6 DEF TempInv
<1>12. CASE SetClock
  <2>1. OrderlyIsQuiet'
    BY <1>12, <1>a DEF SetClock, OrderlyIsQuiet
  <2>2. OrderlyIsStill'
    BY <1>12, <1>a DEF SetClock, OrderlyIsStill
  <2>3. OrderlyWaits'
    BY <1>12, <1>a DEF SetClock, OrderlyWaits
  <2>4. QuietMeasures'
    BY <1>12, <1>a DEF SetClock, TempInv, QuietMeasures, Measuring, Asked, Counted, HandingFlag, HandingVal, HandingResult, Handed, Own, id, shared
  <2>5. QuietTakes'
    BY <1>12, <1>a DEF SetClock, TempInv, QuietTakes, Taken, id, shared
  <2>6. QuietEnds'
    BY <1>12, <1>a DEF SetClock, TempInv, QuietEnds, Ended, id
  <2> QED
    BY <1>0, <2>1, <2>2, <2>3, <2>4, <2>5, <2>6 DEF TempInv
<1>20. CASE UNCHANGED tempVars
  <2>1. OrderlyIsQuiet' /\ OrderlyIsStill' /\ OrderlyWaits'
    BY <1>20 DEF TempInv, tempVars, id, shared, temp, OrderlyIsQuiet, OrderlyIsStill, OrderlyWaits, Still
  <2>2. QuietMeasures' /\ QuietTakes' /\ QuietEnds'
    BY <1>20 DEF TempInv, tempVars, id, shared, temp, QuietMeasures, QuietTakes, QuietEnds, Taken, Ended, Measuring, Asked, Counted, HandingFlag, HandingVal, HandingResult, Handed, Own
  <2> QED
    BY <1>0, <2>1, <2>2 DEF TempInv
<1> QED
  BY <1>1, <1>2, <1>3, <1>4, <1>5, <1>6, <1>7, <1>8, <1>9, <1>10, <1>11, <1>12, <1>20 DEF TempNext, FaceIdentify, TempManager

\* A temperature a round goes by was measured in it (see TempIsOwn).
THEOREM TemperatureIsOwn == TempSpec => []TempIsOwn
<1>1. TempInv => TempIsOwn
  BY DEF TempInv, OrderlyIsQuiet, QuietEnds, Ended, TempIsOwn
<1> QED
  BY TempInvStarts, TempInvStays, <1>1, PTL DEF TempSpec

(***************************************************************************)
(* DoorRelay: RelayFollowsStatus and OpenForItsTime.                       *)
(***************************************************************************)
\* Types are kept by every step.
LEMMA DoorTypeInit == DoorInit => DoorTypeOK
<1> SUFFICES ASSUME DoorInit PROVE DoorTypeOK
  OBVIOUS
<1>1. owed \in 0..MaxLeft /\ steps \in 0..MaxSteps
  BY DoorAssumption DEF DoorInit
<1>2. pc \in [Openers -> OpenPcs] /\ frame \in FramePcs
  BY DEF DoorInit, OpenPcs, FramePcs
<1> QED
  BY <1>1, <1>2 DEF DoorInit, DoorTypeOK

LEMMA DoorTypeNext == DoorTypeOK /\ [DoorNext]_hwVars => DoorTypeOK'
<1> SUFFICES ASSUME DoorTypeOK, [DoorNext]_hwVars PROVE DoorTypeOK'
  OBVIOUS
<1> USE DEF DoorTypeOK, OpenPcs, FramePcs
<1>1. ASSUME NEW o \in Openers, OpenStep(o) PROVE DoorTypeOK'
  <2> USE DEF openUnchanged, frameVars, doorVars
  <2>1. CASE OpenCheck(o)
    BY <2>1 DEF OpenCheck, expired, Closing
  <2>2. CASE OpenStatus(o)
    BY <2>2 DEF OpenStatus
  <2>3. CASE OpenRelay(o)
    BY <2>3 DEF OpenRelay
  <2>4. CASE OpenTimer(o)
    BY <2>4, DoorAssumption DEF OpenTimer
  <2> QED
    BY <1>1, <2>1, <2>2, <2>3, <2>4 DEF OpenStep
<1>2. CASE FrameStep
  <2> USE DEF frameUnchanged, doorVars
  <2>1. CASE Frame
    BY <2>1 DEF Frame
  <2>2. CASE FrameInSync
    BY <2>2 DEF FrameInSync
  <2>3. CASE CloseCheck
    BY <2>3 DEF CloseCheck, expired, Opening
  <2>4. CASE CloseStatus
    BY <2>4 DEF CloseStatus
  <2>5. CASE CloseRelay
    BY <2>5 DEF CloseRelay
  <2> QED
    BY <1>2, <2>1, <2>2, <2>3, <2>4, <2>5 DEF FrameStep
<1>3. CASE HwRun
  BY <1>3, DoorAssumption DEF HwRun, doorVars, frameVars, Opening
<1> USE DEF otherUnchanged, doorVars, frameVars
<1>4. CASE Tick
  BY <1>4, DoorAssumption DEF Tick, Less1
<1>5. CASE ClockSet
  BY <1>5, DoorAssumption DEF ClockSet
<1>6. CASE SetDelay
  BY <1>6 DEF SetDelay
<1>7. CASE SyncChange
  BY <1>7 DEF SyncChange
<1>8. CASE UNCHANGED hwVars
  BY <1>8 DEF hwVars
<1> QED
  BY <1>1, <1>2, <1>3, <1>4, <1>5, <1>6, <1>7, <1>8 DEF DoorNext

\* Every variable of QalHardWare and of its callers has its type throughout.
THEOREM DoorTypeCorrect == DoorSpec => []DoorTypeOK
<1>1. DoorInit => DoorTypeOK
  BY DoorTypeInit
<1>2. DoorTypeOK /\ [DoorNext]_hwVars => DoorTypeOK'
  BY DoorTypeNext
<1> QED
  BY <1>1, <1>2, PTL DEF DoorSpec

-----------------------------------------------------------------------------
(* Both variables of the door go up and down together unless a closing     *)
(* overlaps an opening.                                                    *)

LEMMA InStepNext == DoorTypeOK /\ InStep /\ [DoorNext]_hwVars => InStep'
<1> SUFFICES ASSUME DoorTypeOK, InStep, [DoorNext]_hwVars, ~raced' PROVE InStep'
  BY DEF InStep
<1> USE DEF Consistent, RelayFollowsStatus, Closing, Opening
<1>1. ASSUME NEW o \in Openers, OpenStep(o) PROVE InStep'
  <2> USE DEF openUnchanged, frameVars, doorVars, DoorTypeOK, OpenPcs
  <2>1. CASE OpenCheck(o)
    BY <2>1 DEF OpenCheck, InStep
  <2>2. CASE OpenStatus(o)
    BY <2>2 DEF OpenStatus, InStep
  <2>3. CASE OpenRelay(o)
    BY <2>3 DEF OpenRelay, InStep
  <2>4. CASE OpenTimer(o)
    BY <2>4 DEF OpenTimer, InStep
  <2> QED
    BY <1>1, <2>1, <2>2, <2>3, <2>4 DEF OpenStep
<1>2. CASE FrameStep
  <2> USE DEF frameUnchanged, doorVars, DoorTypeOK, OpenPcs, FramePcs
  <2>1. CASE Frame
    BY <2>1 DEF Frame, InStep
  <2>2. CASE FrameInSync
    BY <2>2 DEF FrameInSync, InStep
  <2>3. CASE CloseCheck
    BY <2>3 DEF CloseCheck, InStep
  <2>4. CASE CloseStatus
    BY <2>4 DEF CloseStatus, InStep
  <2>5. CASE CloseRelay
    BY <2>5 DEF CloseRelay, InStep
  <2> QED
    BY <1>2, <2>1, <2>2, <2>3, <2>4, <2>5 DEF FrameStep
<1>3. CASE HwRun
  BY <1>3 DEF HwRun, doorVars, frameVars, InStep
<1>4. CASE Tick \/ ClockSet \/ SetDelay \/ SyncChange
  BY <1>4 DEF Tick, ClockSet, SetDelay, SyncChange, otherUnchanged, doorVars, frameVars, InStep
<1>5. CASE UNCHANGED hwVars
  BY <1>5 DEF hwVars, doorVars, frameVars, InStep
<1> QED
  BY <1>1, <1>2, <1>3, <1>4, <1>5 DEF DoorNext

\* The relay is where m_doorStatus says it is whenever no call is under way and no closing has
\* overlapped an opening, however many threads open at once.
THEOREM RelayInStep == DoorSpec => []RelayFollowsStatus
<1>1. DoorInit => InStep
  BY DEF DoorInit, InStep, Consistent, RelayFollowsStatus, Closing, Opening
<1>2. DoorTypeOK /\ InStep /\ [DoorNext]_hwVars => InStep'
  BY InStepNext
<1>3. InStep => RelayFollowsStatus
  BY DEF InStep, RelayFollowsStatus
<1> QED
  BY <1>1, <1>2, <1>3, DoorTypeCorrect, PTL DEF DoorSpec

-----------------------------------------------------------------------------
(* The timer covers what the door owes.                                    *)

LEMMA TimerRightNext == DoorTypeOK /\ InStep /\ TimerRight /\ [DoorNext]_hwVars => TimerRight'
<1> SUFFICES ASSUME DoorTypeOK, InStep, TimerRight, [DoorNext]_hwVars, ~raced', ~stepped'
             PROVE  TimerKept'
  BY DEF TimerRight
<1>a. left \in Nat /\ owed \in Nat /\ \A d \in Delays : d \in Nat
  BY DoorAssumption DEF DoorTypeOK
<1> USE DEF Closing
<1>1. ASSUME NEW o \in Openers, OpenStep(o) PROVE TimerKept'
  <2>0. ~raced /\ ~stepped
    BY <1>1 DEF DoorTypeOK, OpenStep, OpenCheck, OpenStatus, OpenRelay, OpenTimer, openUnchanged
  <2>1. TimerKept /\ Consistent
    BY <2>0 DEF TimerRight, InStep
  <2> USE <1>a, <2>1 DEF openUnchanged, frameVars, doorVars, TimerKept
  <2>2. CASE OpenCheck(o)
    BY <2>2 DEF OpenCheck
  <2>3. CASE OpenStatus(o)
    BY <2>3 DEF OpenStatus
  <2>4. CASE OpenRelay(o)
    BY <2>4 DEF OpenRelay
  <2>5. CASE OpenTimer(o)
    <3>1. ~Closing /\ m_doorStatus
      BY <2>5 DEF OpenTimer, Consistent, Opening
    <3> QED
      BY <2>5, <3>1 DEF OpenTimer, DoorTypeOK
  <2> QED
    BY <1>1, <2>2, <2>3, <2>4, <2>5 DEF OpenStep
<1>2. CASE FrameStep
  <2>0. ~raced /\ ~stepped
    BY <1>2 DEF DoorTypeOK, FrameStep, Frame, FrameInSync, CloseCheck, CloseStatus, CloseRelay,
                frameUnchanged
  <2>1. TimerKept /\ Consistent
    BY <2>0 DEF TimerRight, InStep
  <2> USE <1>a, <2>1 DEF frameUnchanged, doorVars, TimerKept
  <2>2. CASE Frame
    BY <2>2 DEF Frame
  <2>3. CASE FrameInSync
    BY <2>3 DEF FrameInSync
  <2>4. CASE CloseCheck
    BY <2>4 DEF CloseCheck, expired
  <2>5. CASE CloseStatus
    BY <2>5 DEF CloseStatus
  <2>6. CASE CloseRelay
    BY <2>6 DEF CloseRelay
  <2> QED
    BY <1>2, <2>2, <2>3, <2>4, <2>5, <2>6 DEF FrameStep
<1>3. CASE HwRun
  <2>1. raced' = (raced \/ Opening \/ owed > 0) /\ stepped' = stepped /\ owed' = owed
    BY <1>3 DEF HwRun
  <2>2. ~(owed > 0)
    BY <2>1
  <2>3. ~raced /\ ~stepped /\ owed = 0
    BY <2>1, <2>2, <1>a DEF DoorTypeOK
  <2> QED
    BY <1>3, <2>3, <1>a DEF HwRun, TimerRight, TimerKept, doorVars, frameVars
<1>4. CASE Tick
  BY <1>4, <1>a DEF Tick, Less1, TimerRight, TimerKept, otherUnchanged, doorVars, frameVars
<1>5. CASE ClockSet
  <2>1. left' \in 0..MaxLeft /\ owed' = owed /\ (stepped' = (stepped \/ owed > 0))
    BY <1>5 DEF ClockSet
  <2>2. ~(owed > 0)
    BY <2>1
  <2>3. owed = 0
    BY <2>2, <1>a
  <2>4. ~raced /\ (Closing)' = Closing
    BY <1>5 DEF ClockSet, otherUnchanged, frameVars
  <2> QED
    BY <2>1, <2>3, <2>4, DoorAssumption DEF TimerKept
<1>6. CASE SetDelay \/ SyncChange
  BY <1>6, <1>a DEF SetDelay, SyncChange, TimerRight, TimerKept, otherUnchanged, doorVars, frameVars
<1>7. CASE UNCHANGED hwVars
  BY <1>7, <1>a DEF hwVars, TimerRight, TimerKept, doorVars, frameVars
<1> QED
  BY <1>1, <1>2, <1>3, <1>4, <1>5, <1>6, <1>7 DEF DoorNext

\* A step that switches the relay off finds nothing owed and nobody opening.
LEMMA RelayOff ==
  ASSUME DoorTypeOK, InStep, TimerRight, [DoorNext]_hwVars, relay, ~relay', ~raced, ~stepped
  PROVE  owed = 0 /\ ~Opening
<1>1. CloseRelay
  BY DEF DoorNext, OpenStep, OpenCheck, OpenStatus, OpenRelay, OpenTimer, openUnchanged, FrameStep,
         Frame, FrameInSync, CloseCheck, CloseStatus, frameUnchanged, HwRun, Tick, ClockSet,
         SetDelay, SyncChange, otherUnchanged, hwVars, doorVars
<1> QED
  BY <1>1 DEF CloseRelay, InStep, TimerRight, Consistent, TimerKept, Closing

\* The door stays open for its time: only an overlapping closing or a new wall clock cuts it short.
THEOREM FullOpening == DoorSpec => OpenForItsTime
<1>1. DoorInit => InStep /\ TimerRight
  <2> SUFFICES ASSUME DoorInit PROVE InStep /\ TimerRight
    OBVIOUS
  <2>1. InStep
    BY DEF DoorInit, InStep, Consistent, RelayFollowsStatus, Closing, Opening
  <2>2. TimerKept
    BY DoorAssumption DEF DoorInit, TimerKept, Closing
  <2> QED
    BY <2>1, <2>2 DEF TimerRight
<1>2. DoorTypeOK /\ InStep /\ [DoorNext]_hwVars => InStep'
  BY InStepNext
<1>3. DoorTypeOK /\ InStep /\ TimerRight /\ [DoorNext]_hwVars => TimerRight'
  BY TimerRightNext
<1>4. DoorTypeOK /\ InStep /\ TimerRight /\ [DoorNext]_hwVars
        => [relay /\ ~relay' => (owed = 0 /\ ~Opening) \/ raced \/ stepped]_hwVars
  BY RelayOff
<1> QED
  BY <1>1, <1>2, <1>3, <1>4, DoorTypeCorrect, PTL DEF DoorSpec, OpenForItsTime

(***************************************************************************)
(* FacePipeline: DecisionIsOwn.                                            *)
(***************************************************************************)
USE FaceAssumption

-----------------------------------------------------------------------------
(* Types                                                                   *)

\* What IdTake and IdStatus read is a face.
LEMMA FirstType ==
    ASSUME FaceTypeOK, NEW f \in First
    PROVE  f \in Face
<1>1. CASE m_faceHandle = <<>>
  BY <1>1 DEF First
<1>2. CASE m_faceHandle # <<>>
  <2>1. m_faceHandle \in Seq(Face)
    BY DEF FaceTypeOK
  <2>2. Head(m_faceHandle) \in Face
    BY <1>2, <2>1
  <2> QED
    BY <1>2, <2>2 DEF First
<1> QED
  BY <1>1, <1>2

LEMMA CamType ==
    ASSUME FaceTypeOK, Cam
    PROVE  FaceTypeOK'
<1> USE DEF camUnchanged, flagVars, idVars, Somebody
<1>1. CASE CamTrack
  <2>1. /\ seen' \in [track : Tracks, recStatus : Statuses]
        /\ m_trackId' \in Somebody
        /\ camPc' \in {"hold", "free", "test"}
    BY <1>1 DEF CamTrack, FaceTypeOK
  <2>2. seen' \in [track : Somebody, recStatus : Statuses] /\ seen'.track \in Tracks
    BY <2>1
  <2> QED
    BY <1>1, <2>1, <2>2 DEF CamTrack, FaceTypeOK
<1>2. CASE CamStop
  BY <1>2 DEF CamStop, FaceTypeOK
<1>3. CASE CamTest
  <2>1. Nothing \in [track : Somebody, recStatus : Statuses]
    BY DEF Nothing, Statuses
  <2>2. /\ camPc' \in {"frame", "append"}
        /\ m_success' \in BOOLEAN
        /\ faceExpired' \in BOOLEAN
    BY <1>3 DEF CamTest, FaceTypeOK
  <2>3. /\ seen' \in [track : Somebody, recStatus : Statuses]
        /\ camPc' # "frame" => seen'.track \in Tracks
    BY <1>3, <2>1 DEF CamTest, FaceTypeOK
  <2> QED
    BY <1>3, <2>2, <2>3 DEF CamTest, FaceTypeOK
<1>4. CASE CamAppend
  <2>1. seen \in Face
    BY <1>4 DEF CamAppend, FaceTypeOK, Face
  <2>2. m_faceHandle \in Seq(Face)
    BY DEF FaceTypeOK
  <2>3. m_faceHandle' \in Seq(Face)
    BY <1>4, <2>1, <2>2 DEF CamAppend
  <2>4. /\ handed' \in [track : Somebody, recStatus : Statuses]
        /\ seen'.track \in Tracks
        /\ m_iStop' \in BOOLEAN
    BY <1>4 DEF CamAppend, FaceTypeOK
  <2> QED
    BY <1>4, <2>3, <2>4 DEF CamAppend, FaceTypeOK
<1>5. CASE CamRelease
  <2>1. m_usedSpace' \in 0..MaxAhead
    BY <1>5 DEF CamRelease, FaceTypeOK
  <2>2. m_bgrImage' \in Somebody /\ pictured' \in BOOLEAN
    BY <1>5 DEF CamRelease, FaceTypeOK
  <2>3. Nothing \in [track : Somebody, recStatus : Statuses]
    BY DEF Nothing, Statuses
  <2> QED
    BY <1>5, <2>1, <2>2, <2>3 DEF CamRelease, FaceTypeOK
<1> QED
  BY <1>1, <1>2, <1>3, <1>4, <1>5 DEF Cam

LEMMA IdType ==
    ASSUME FaceTypeOK, Id
    PROVE  FaceTypeOK'
<1> USE DEF idUnchanged, camVars, flagVars, Somebody
<1>1. CASE IdTake
  <2>1. face' \in Tracks
    BY <1>1, FirstType DEF IdTake, Face
  <2>2. m_usedSpace' \in 0..MaxAhead
    BY <1>1 DEF IdTake, FaceTypeOK
  <2> QED
    BY <1>1, <2>1, <2>2 DEF IdTake, FaceTypeOK
<1>2. CASE IdStatus
  <2>1. /\ idPc' \in {"clear", "record"}
        /\ egPass' \in BOOLEAN
        /\ m_success' \in BOOLEAN
    BY <1>2 DEF IdStatus, FaceTypeOK
  <2> QED
    BY <1>2, <2>1 DEF IdStatus, FaceTypeOK
<1>3. CASE IdRecord
  BY <1>3 DEF IdRecord, FaceTypeOK
<1>4. CASE IdClear
  BY <1>4 DEF IdClear, FaceTypeOK
<1>5. CASE IdStop
  <2>1. face' \in Somebody /\ m_iStop' \in BOOLEAN /\ egPass' \in BOOLEAN
    BY <1>5 DEF IdStop
  <2>2. m_faceHandle' \in Seq(Face) /\ m_usedSpace' \in 0..MaxAhead
    BY <1>5 DEF IdStop, FaceTypeOK
  <2> QED
    BY <1>5, <2>1, <2>2 DEF IdStop, FaceTypeOK
<1> QED
  BY <1>1, <1>2, <1>3, <1>4, <1>5 DEF Id

\* Every variable has its type.
THEOREM FaceTypeCorrect == FaceSpec => []FaceTypeOK
<1>1. FaceInit => FaceTypeOK
  <2>1. Nothing \in [track : Somebody, recStatus : Statuses]
    BY DEF Nothing, Statuses, Somebody
  <2>2. <<>> \in Seq(Face) /\ 0 \in 0..MaxAhead
    OBVIOUS
  <2> QED
    BY <2>1, <2>2 DEF FaceInit, FaceTypeOK, Somebody
<1>2. FaceTypeOK /\ [FaceNext]_faceVars => FaceTypeOK'
  <2> SUFFICES ASSUME FaceTypeOK, [FaceNext]_faceVars PROVE FaceTypeOK'
    OBVIOUS
  <2>1. CASE Move
    BY <2>1 DEF Move, restUnchanged, FaceTypeOK, camVars, flagVars, idVars
  <2>2. CASE FaceTimeout
    BY <2>2 DEF FaceTimeout, restUnchanged, FaceTypeOK, camVars, flagVars, idVars
  <2>3. CASE UNCHANGED faceVars
    BY <2>3 DEF faceVars, FaceTypeOK, camVars, flagVars, idVars
  <2>4. CASE FaceSync
    <3>1. syncing' \in BOOLEAN
      BY <2>4 DEF FaceSync
    <3> QED
      BY <2>4, <3>1 DEF FaceSync, restUnchanged, FaceTypeOK, camVars, flagVars, idVars
  <2> QED
    BY <2>1, <2>2, <2>3, <2>4, CamType, IdType DEF FaceNext
<1> QED
  BY <1>1, <1>2, PTL DEF FaceSpec

-----------------------------------------------------------------------------
(* Decisions                                                               *)

\* The vector holds the one face handed over: whoever reads it gets that one.
LEMMA FirstIsHanded ==
    ASSUME OneFace, NEW f \in First
    PROVE  f = handed
BY DEF OneFace, First

LEMMA CamInv ==
    ASSUME FaceTypeOK, ~late, HandOver, DecisionIsOwn, Cam
    PROVE  HandOver' /\ DecisionIsOwn'
<1> USE DEF camUnchanged, idVars, flagVars
<1>1. CASE CamTrack
  <2>1. camPc = "frame" /\ camPc' \in {"hold", "free", "test"}
    BY <1>1 DEF CamTrack
  <2>2. camPc' = "free" => faceExpired
    BY <1>1 DEF CamTrack
  <2>3. camPc' = "free" => ~Deciding
    BY <2>1, <2>2 DEF HandOver
  <2>4. Deciding' <=> Deciding
    BY <1>1, <2>1 DEF CamTrack, Deciding
  <2>5. HandOver'
    BY <1>1, <2>1, <2>3, <2>4 DEF CamTrack, HandOver, OneFace
  <2> QED
    BY <1>1, <2>5 DEF CamTrack, DecisionIsOwn
<1>2. CASE CamStop
  <2>1. Deciding' <=> Deciding
    BY <1>2 DEF CamStop, Deciding
  <2>2. HandOver'
    BY <1>2, <2>1 DEF CamStop, HandOver, OneFace
  <2> QED
    BY <1>2, <2>2 DEF CamStop, DecisionIsOwn
<1>3. CASE CamTest
  <2>1. CASE ~m_iStop
    <3>1. Deciding' <=> Deciding
      BY <1>3, <2>1 DEF CamTest, Deciding
    <3>2. HandOver'
      BY <1>3, <2>1, <3>1 DEF CamTest, HandOver, OneFace
    <3> QED
      BY <1>3, <2>1, <3>2 DEF CamTest, DecisionIsOwn
  <2>2. CASE m_iStop
    <3>1. ~Deciding
      BY <1>3, <2>2 DEF CamTest, HandOver
    <3>2. m_usedSpace = 0 /\ idPc = "wait" /\ m_faceHandle = <<>>
      BY <1>3, <3>1 DEF CamTest, Deciding, HandOver, FaceTypeOK
    <3>3. HandOver'
      BY <1>3, <2>2, <3>2 DEF CamTest, HandOver, OneFace, Deciding
    <3> QED
      BY <1>3, <3>2, <3>3 DEF CamTest, DecisionIsOwn
  <2> QED
    BY <2>1, <2>2
<1>4. CASE CamAppend
  <2>1. m_usedSpace = 0 /\ idPc = "wait" /\ m_faceHandle = <<>> /\ ~faceExpired
    BY <1>4 DEF CamAppend, HandOver
  <2>2. m_faceHandle' = <<seen>> /\ handed' = seen
    BY <1>4, <2>1 DEF CamAppend
  <2>3. HandOver'
    BY <1>4, <2>1, <2>2 DEF CamAppend, HandOver, OneFace, Deciding
  <2> QED
    BY <1>4, <2>1, <2>3 DEF CamAppend, DecisionIsOwn
<1>5. CASE CamRelease
  <2>1. m_usedSpace = 0 /\ idPc = "wait" /\ OneFace /\ handed = seen
    BY <1>5 DEF CamRelease, HandOver
  <2>2. ~m_iStop /\ ~faceExpired
    BY <1>5 DEF CamRelease, HandOver, Deciding
  <2>3. m_usedSpace' = 1 /\ (pictured' => m_bgrImage' = handed.track)
    BY <1>5, <2>1 DEF CamRelease
  <2>4. HandOver'
    BY <1>5, <2>1, <2>2, <2>3 DEF CamRelease, HandOver, OneFace, Deciding
  <2> QED
    BY <1>5, <2>1, <2>4 DEF CamRelease, DecisionIsOwn
<1> QED
  BY <1>1, <1>2, <1>3, <1>4, <1>5 DEF Cam

LEMMA IdInv ==
    ASSUME FaceTypeOK, ~late, HandOver, DecisionIsOwn, Id
    PROVE  HandOver' /\ DecisionIsOwn'
<1> USE DEF idUnchanged, camVars, flagVars
<1>1. CASE IdTake
  <2>1. m_usedSpace = 1 /\ OneFace /\ m_usedSpace' = 0
    BY <1>1 DEF IdTake, HandOver, FaceTypeOK
  <2>2. face' = handed.track
    BY <1>1, <2>1, FirstIsHanded DEF IdTake
  <2>3. camPc \notin {"append", "release", "free"}
    BY <1>1, <2>1 DEF HandOver, Deciding
  <2>4. HandOver'
    BY <1>1, <2>1, <2>2, <2>3 DEF IdTake, HandOver, OneFace, Deciding
  <2> QED
    BY <1>1, <2>4 DEF IdTake, DecisionIsOwn
<1>2. CASE IdStatus
  <2>1. OneFace /\ face = handed.track
    BY <1>2 DEF IdStatus, HandOver
  <2>2. idPc' = "record" => (egPass' <=> handed.recStatus = "success")
    BY <1>2, <2>1, FirstIsHanded DEF IdStatus
  <2>3. idPc' \in {"clear", "record"}
    BY <1>2 DEF IdStatus
  <2>4. camPc \notin {"append", "release", "free"}
    BY <1>2 DEF IdStatus, HandOver, Deciding
  <2>5. HandOver'
    BY <1>2, <2>1, <2>3, <2>4 DEF IdStatus, HandOver, OneFace, Deciding
  <2>6. pictured => m_bgrImage = handed.track
    BY <1>2 DEF IdStatus, HandOver
  <2> QED
    BY <1>2, <2>1, <2>2, <2>5, <2>6 DEF IdStatus, DecisionIsOwn
<1>3. CASE IdRecord
  <2>1. HandOver'
    BY <1>3 DEF IdRecord, HandOver, OneFace, Deciding
  <2> QED
    BY <1>3, <2>1 DEF IdRecord, DecisionIsOwn
<1>4. CASE IdClear
  <2>1. HandOver'
    BY <1>4 DEF IdClear, HandOver, OneFace, Deciding
  <2> QED
    BY <1>4, <2>1 DEF IdClear, DecisionIsOwn
<1>5. CASE IdStop
  <2>1. m_faceHandle = <<>> /\ m_usedSpace = 0 /\ camPc \notin {"append", "release"}
    BY <1>5 DEF IdStop, HandOver, FaceTypeOK
  <2>2. HandOver'
    BY <1>5, <2>1 DEF IdStop, HandOver, OneFace, Deciding
  <2> QED
    BY <1>5, <2>2 DEF IdStop, DecisionIsOwn
<1> QED
  BY <1>1, <1>2, <1>3, <1>4, <1>5 DEF Id

LEMMA HandOverInv == FaceSpec => [](FaceTypeOK /\ DecisionInv)
<1>1. FaceInit => DecisionInv
  BY DEF FaceInit, DecisionInv, HandOver, DecisionIsOwn, Deciding
<1>2. FaceTypeOK /\ DecisionInv /\ [FaceNext]_faceVars => DecisionInv'
  <2> SUFFICES ASSUME FaceTypeOK, DecisionInv, [FaceNext]_faceVars PROVE DecisionInv'
    OBVIOUS
  <2>1. late => late'
    BY DEF FaceNext, Cam, CamTrack, CamStop, CamTest, CamAppend, CamRelease, camUnchanged,
           Id, IdTake, IdStatus, IdRecord, IdClear, IdStop, idUnchanged, Move, FaceSync, FaceTimeout, faceVars
  <2>2. CASE late
    BY <2>1, <2>2 DEF DecisionInv
  <2>3. CASE ~late /\ Cam
    BY <2>3, CamInv DEF DecisionInv
  <2>4. CASE ~late /\ Id
    BY <2>4, IdInv DEF DecisionInv
  <2>5. CASE ~late /\ (Move \/ FaceSync)
    BY <2>5 DEF DecisionInv, HandOver, DecisionIsOwn, OneFace, Deciding, Move, FaceSync, restUnchanged,
                camVars, flagVars, idVars
  <2>6. CASE ~late /\ FaceTimeout
    <3>1. CASE Deciding
      BY <2>6, <3>1 DEF FaceTimeout, DecisionInv
    <3>2. CASE ~Deciding
      <4>1. ~Deciding'
        BY <2>6, <3>2 DEF FaceTimeout, restUnchanged, Deciding, camVars, idVars
      <4>2. camPc' \notin {"append", "release"}
        BY <4>1 DEF Deciding
      <4>3. HandOver'
        BY <2>6, <4>1, <4>2 DEF FaceTimeout, restUnchanged, DecisionInv, HandOver, OneFace,
                               camVars, flagVars, idVars
      <4>4. DecisionIsOwn'
        BY <4>1 DEF Deciding, DecisionIsOwn
      <4> QED
        BY <4>3, <4>4 DEF DecisionInv
    <3> QED
      BY <3>1, <3>2
  <2>7. CASE ~late /\ UNCHANGED faceVars
    BY <2>7 DEF DecisionInv, HandOver, DecisionIsOwn, OneFace, Deciding, faceVars, camVars, flagVars,
                idVars
  <2> QED
    BY <2>2, <2>3, <2>4, <2>5, <2>6, <2>7 DEF FaceNext
<1> QED
  BY <1>1, <1>2, FaceTypeCorrect, PTL DEF FaceSpec

\* A decision concerns the one face handed over for it, for any persons, unless one has taken
\* longer than m_identifyWaitTime (FaceIdentify::run and FaceManager::run).
THEOREM DecisionsOwn == FaceSpec => []DecisionIsOwn
<1>1. DecisionInv => DecisionIsOwn
  BY DEF DecisionInv, DecisionIsOwn
<1> QED
  BY <1>1, HandOverInv, PTL

(***************************************************************************)
(* The camera thread is held off for a reason                              *)
(***************************************************************************)

\* What makes it inductive: a track is held because it has been decided on.
Held == HeldForAFace /\ (camPc = "hold" => m_success)

LEMMA HeldKept == FaceTypeOK /\ Held /\ [FaceNext]_faceVars => Held'
<1> SUFFICES ASSUME FaceTypeOK, Held, [FaceNext]_faceVars
             PROVE  Held'
  OBVIOUS
<1> USE DEF Held, HeldForAFace, Deciding
<1>1. m_usedSpace \in Nat
  BY FaceAssumption DEF FaceTypeOK
<1>2. CASE Cam
  <2> USE DEF camUnchanged, flagVars, idVars
  <2>1. CASE CamTrack
    BY <2>1 DEF CamTrack
  <2>2. CASE CamStop
    <3>1. CASE camPc = "hold"
      <4>1. m_success /\ m_success' = m_success
        BY <2>2, <3>1 DEF CamStop
      <4> QED
        BY <4>1
    <3>2. CASE camPc = "free"
      <4>1. m_iStop' = TRUE /\ camPc' = "test"
        BY <2>2, <3>2 DEF CamStop
      <4> QED
        BY <4>1
    <3> QED
      BY <2>2, <3>1, <3>2 DEF CamStop
  <2>3. CASE CamTest
    BY <2>3 DEF CamTest
  <2>4. CASE CamAppend
    BY <2>4 DEF CamAppend
  <2>5. CASE CamRelease
    BY <1>1, <2>5 DEF CamRelease
  <2> QED
    BY <1>2, <2>1, <2>2, <2>3, <2>4, <2>5 DEF Cam
<1>3. CASE Id
  <2> USE DEF idUnchanged, camVars, flagVars
  <2>1. CASE IdTake
    BY <2>1 DEF IdTake
  <2>2. CASE IdStatus
    <3>1. idPc' \in {"record", "clear"} /\ camPc' = camPc
      BY <2>2 DEF IdStatus
    <3>2. m_success' = m_success \/ m_success' = TRUE
      BY <2>2 DEF IdStatus
    <3> QED
      BY <3>1, <3>2
  <2>3. CASE IdRecord
    BY <2>3 DEF IdRecord
  <2>4. CASE IdClear
    BY <2>4 DEF IdClear
  <2>5. CASE IdStop
    BY <2>5 DEF IdStop
  <2> QED
    BY <1>3, <2>1, <2>2, <2>3, <2>4, <2>5 DEF Id
<1>4. CASE Move \/ FaceSync \/ FaceTimeout \/ UNCHANGED faceVars
  <2>1. UNCHANGED <<camPc, m_success, m_iStop, m_usedSpace, idPc>>
    BY <1>4 DEF Move, FaceSync, FaceTimeout, restUnchanged, faceVars, camVars, flagVars, idVars
  <2> QED
    BY <2>1
<1> QED
  BY <1>2, <1>3, <1>4 DEF FaceNext

\* Two threads set and clear the flag in any order, and however slow a decision is, the camera thread
\* is held off only while one is on its way or has been taken about the person who stays
\* (facemanager.cpp:281-312, faceidentify.cpp:346).
THEOREM HeldForAReason == FaceSpec => []HeldForAFace
<1>1. FaceInit => Held
  BY DEF FaceInit, Held, HeldForAFace
<1>2. Held => HeldForAFace
  BY DEF Held
<1> QED
  BY <1>1, <1>2, FaceTypeCorrect, HeldKept, PTL DEF FaceSpec

(***************************************************************************)
(* The hand-over is a turnstile                                            *)
(***************************************************************************)
HandedOver == FaceTypeOK /\ DecisionInv

TurnSame == UNCHANGED <<Stage, Offered, Verdict>>
TurnNext == Turn!Next \/ TurnSame

\* Where a hand-over is, if none has been late.
LEMMA StageIs ==
    ASSUME ~late
    PROVE  /\ idPc = "record" => Stage = "decided"
           /\ idPc \in {"clear", "stop"} => Stage = "done"
           /\ idPc \notin {"record", "clear", "stop"} =>
                 /\ idPc = "status" \/ m_usedSpace > 0 \/ camPc = "release" => Stage = "offered"
                 /\ ~(idPc = "status" \/ m_usedSpace > 0 \/ camPc = "release") => Stage = "free"
BY DEF Stage

\* What a hand-over stands at depends on these alone.
LEMMA TurnKept ==
    ASSUME UNCHANGED <<late, handed, idVars, m_usedSpace>>,
           (camPc' = "release") <=> (camPc = "release")
    PROVE  TurnSame
<1>1. Stage' = Stage
  BY DEF Stage, idVars
<1>2. Offered' = Offered /\ Verdict' = Verdict
  BY <1>1 DEF Offered, Verdict, idVars
<1> QED
  BY <1>1, <1>2 DEF TurnSame

LEMMA CamTurn ==
    ASSUME FaceTypeOK, ~late, HandOver, Cam
    PROVE  TurnNext
<1> USE DEF camUnchanged
<1>1. CASE CamTrack \/ CamStop \/ CamTest
  <2>1. (camPc' = "release") <=> (camPc = "release")
    BY <1>1 DEF CamTrack, CamStop, CamTest
  <2>2. UNCHANGED <<late, handed, idVars, m_usedSpace>>
    BY <1>1 DEF CamTrack, CamStop, CamTest
  <2> QED
    BY <2>1, <2>2, TurnKept DEF TurnNext
<1>2. CASE CamAppend
  <2>1. m_usedSpace = 0 /\ idPc = "wait" /\ camPc = "append"
    BY <1>2 DEF CamAppend, HandOver
  <2>2. Stage = "free" /\ Offered = Nothing /\ Verdict = Nothing
    BY <2>1, StageIs DEF Offered, Verdict
  <2>3. ~late' /\ idPc' = "wait" /\ camPc' = "release" /\ handed' = seen
    BY <1>2, <2>1 DEF CamAppend, idVars
  <2>4. Stage' = "offered"
    BY <2>3 DEF Stage
  <2>5. Offered' = seen /\ Verdict' = Nothing
    BY <2>3, <2>4 DEF Offered, Verdict, Nothing
  <2>6. seen \in Face
    BY <2>1 DEF FaceTypeOK, Face
  <2> QED
    BY <2>2, <2>4, <2>5, <2>6 DEF TurnNext, Turn!Next, Turn!Offer
<1>3. CASE CamRelease
  <2>1. m_usedSpace = 0 /\ idPc = "wait" /\ camPc = "release"
    BY <1>3 DEF CamRelease, HandOver
  <2>2. ~late' /\ idPc' = "wait" /\ m_usedSpace' = 1 /\ handed' = handed
    BY <1>3, <2>1 DEF CamRelease, idVars
  <2>3. Stage = "offered"
    BY <2>1, StageIs
  <2>4. Stage' = "offered"
    BY <2>2 DEF Stage
  <2>5. Offered' = Offered /\ Verdict' = Verdict
    BY <2>2, <2>3, <2>4 DEF Offered, Verdict, Nothing
  <2> QED
    BY <2>3, <2>4, <2>5 DEF TurnNext, TurnSame
<1> QED
  BY <1>1, <1>2, <1>3 DEF Cam

LEMMA IdTurn ==
    ASSUME FaceTypeOK, ~late, HandOver, Id
    PROVE  TurnNext
<1> USE DEF idUnchanged, camVars
<1>1. ~late' /\ handed' = handed /\ camPc' = camPc
  BY DEF Id, IdTake, IdStatus, IdRecord, IdClear, IdStop
<1>2. CASE IdTake
  <2>1. idPc = "wait" /\ m_usedSpace > 0 /\ idPc' = "status"
    BY <1>2 DEF IdTake
  <2>2. Stage = "offered" /\ Stage' = "offered"
    BY <1>1, <2>1 DEF Stage
  <2>3. Offered' = Offered /\ Verdict' = Verdict
    BY <1>1, <2>2 DEF Offered, Verdict, Nothing
  <2> QED
    BY <2>2, <2>3 DEF TurnNext, TurnSame
<1>3. CASE IdStatus
  <2>1. idPc = "status" /\ OneFace /\ face = handed.track /\ face' = face
    BY <1>3 DEF IdStatus, HandOver
  <2>2. Stage = "offered" /\ Offered = handed /\ Verdict = Nothing
    BY <2>1, StageIs DEF Offered, Verdict
  <2>3. PICK f \in First : \/ /\ f.recStatus = "other" /\ idPc' = "clear"
                           \/ /\ f.recStatus # "other" /\ idPc' = "record"
                              /\ egPass' = (f.recStatus = "success")
    BY <1>3 DEF IdStatus
  <2>4. f = handed
    BY <2>1, FirstIsHanded
  <2>5. handed \in Face
    BY <2>1 DEF OneFace, FaceTypeOK
  <2>6. CASE f.recStatus = "other"
    <3>1. idPc' = "clear"
      BY <2>3, <2>6
    <3>2. Stage' = "done"
      BY <1>1, <3>1 DEF Stage
    <3>3. Offered' = Offered /\ Verdict' = Verdict
      BY <1>1, <2>2, <3>2 DEF Offered, Verdict, Nothing
    <3>4. Offered \in {x \in Face : x.recStatus = "other"}
      BY <2>2, <2>4, <2>5, <2>6
    <3> QED
      BY <2>2, <3>2, <3>3, <3>4 DEF TurnNext, Turn!Next, Turn!PassOver
  <2>7. CASE f.recStatus # "other"
    <3>1. idPc' = "record" /\ egPass' = (f.recStatus = "success")
      BY <2>3, <2>7
    <3>2. Stage' = "decided"
      BY <1>1, <3>1 DEF Stage
    <3>3. Offered' = Offered
      BY <1>1, <2>2, <3>2 DEF Offered
    <3>4. f.recStatus \in {"success", "stranger"} /\ f = [track |-> f.track, recStatus |-> f.recStatus]
      BY <2>4, <2>5, <2>7 DEF Face, Statuses
    <3>5. (IF egPass' THEN "success" ELSE "stranger") = f.recStatus
      BY <3>1, <3>4, Zenon
    <3>6. Verdict' = handed
      BY <2>1, <2>4, <3>2, <3>4, <3>5 DEF Verdict
    <3>7. Offered \notin {x \in Face : x.recStatus = "other"}
      BY <2>2, <2>4, <2>7
    <3> QED
      BY <2>2, <3>2, <3>3, <3>6, <3>7 DEF TurnNext, Turn!Next, Turn!Decide
  <2> QED
    BY <2>6, <2>7
<1>4. CASE IdRecord
  <2>1. Stage = "decided" /\ Stage' = "done"
    BY <1>1, <1>4 DEF IdRecord, Stage
  <2>2. Offered' = Offered /\ Verdict' = Nothing
    BY <1>1, <2>1 DEF Offered, Verdict, Nothing
  <2> QED
    BY <2>1, <2>2 DEF TurnNext, Turn!Next, Turn!CarryOut
<1>5. CASE IdClear
  <2>1. Stage = "done" /\ Stage' = "done"
    BY <1>1, <1>5 DEF IdClear, Stage
  <2>2. Offered' = Offered /\ Verdict' = Verdict
    BY <1>1, <2>1 DEF Offered, Verdict, Nothing
  <2> QED
    BY <2>1, <2>2 DEF TurnNext, TurnSame
<1>6. CASE IdStop
  <2>1. ~(m_usedSpace > 0) /\ camPc # "release" /\ m_usedSpace' = m_usedSpace /\ idPc' = "wait"
    BY <1>6 DEF IdStop, HandOver
  <2>2. Stage = "done" /\ Stage' = "free"
    BY <1>1, <1>6, <2>1 DEF IdStop, Stage
  <2>3. Offered' = Nothing /\ Verdict' = Verdict
    BY <2>2 DEF Offered, Verdict, Nothing
  <2> QED
    BY <2>2, <2>3 DEF TurnNext, Turn!Next, Turn!Finish
<1> QED
  BY <1>2, <1>3, <1>4, <1>5, <1>6 DEF Id

\* Whoever is handed over is decided on once, by what was handed over, before anybody else is and for any
\* persons, unless a decision has taken longer than m_identifyWaitTime (FaceManager::run and
\* FaceIdentify::run implement Turnstile).
THEOREM HandOverIsTurnstile == FaceSpec => OneAfterTheOther
<1>1. FaceInit => Turn!Init
  <2> SUFFICES ASSUME FaceInit PROVE Turn!Init
    OBVIOUS
  <2>1. Stage = "free"
    BY DEF FaceInit, Stage
  <2> QED
    BY <2>1 DEF Offered, Verdict, Turn!Init
<1>2. HandedOver /\ [FaceNext]_faceVars => [Turn!Next]_(Turn!turnVars)
  <2> SUFFICES ASSUME HandedOver, [FaceNext]_faceVars PROVE TurnNext
    BY DEF TurnNext, TurnSame, Turn!turnVars
  <2>1. CASE late
    <3>1. late'
      BY <2>1 DEF FaceNext, Cam, CamTrack, CamStop, CamTest, CamAppend, CamRelease, camUnchanged,
             Id, IdTake, IdStatus, IdRecord, IdClear, IdStop, idUnchanged, Move, FaceSync, FaceTimeout, faceVars
    <3>2. Stage' = "broken" /\ Offered' = Nothing /\ Verdict' = Nothing
      BY <3>1 DEF Stage, Offered, Verdict, Nothing
    <3> QED
      BY <3>2 DEF TurnNext, Turn!Next, Turn!Break
  <2>2. CASE ~late /\ Cam
    BY <2>2, CamTurn DEF HandedOver, DecisionInv
  <2>3. CASE ~late /\ Id
    BY <2>3, IdTurn DEF HandedOver, DecisionInv
  <2>4. CASE ~late /\ (Move \/ FaceSync \/ UNCHANGED faceVars)
    <3>1. UNCHANGED <<late, handed, idVars, m_usedSpace, camPc>>
      BY <2>4 DEF Move, FaceSync, restUnchanged, camVars, faceVars
    <3> QED
      BY <3>1, TurnKept DEF TurnNext
  <2>5. CASE ~late /\ FaceTimeout
    <3>1. CASE late'
      <4>1. Stage' = "broken" /\ Offered' = Nothing /\ Verdict' = Nothing
        BY <3>1 DEF Stage, Offered, Verdict, Nothing
      <4> QED
        BY <4>1 DEF TurnNext, Turn!Next, Turn!Break
    <3>2. CASE ~late'
      <4>1. UNCHANGED <<handed, idVars, m_usedSpace, camPc>>
        BY <2>5 DEF FaceTimeout, restUnchanged, camVars
      <4>2. Stage' = Stage
        BY <2>5, <3>2, <4>1 DEF Stage, idVars
      <4>3. Offered' = Offered /\ Verdict' = Verdict
        BY <4>1, <4>2 DEF Offered, Verdict, Nothing, idVars
      <4> QED
        BY <4>2, <4>3 DEF TurnNext, TurnSame
    <3> QED
      BY <3>1, <3>2
  <2> QED
    BY <2>1, <2>2, <2>3, <2>4, <2>5 DEF FaceNext
<1> QED
  BY <1>1, <1>2, HandOverInv, PTL DEF FaceSpec, HandedOver, OneAfterTheOther, Turn!Spec
=============================================================================
