----------------------------- MODULE DoorRelay -----------------------------
(***************************************************************************)
(* The relay of the door (QalHardWare) and the threads that drive it       *)
(* without a lock: whoever grants passage calls checkOpenDoor -            *)
(* FaceIdentify::run for a face, Main for a card, ServerDataDeal::run for  *)
(* a command of the back end - and FaceManager::run calls checkCloseDoor   *)
(* once per frame, or once when it finds a synchronisation under way.      *)
(*                                                                         *)
(* m_endTimerMs is compared with the wall clock only, so the variable left *)
(* is the time from the wall clock to m_endTimerMs, 0 once it has passed.  *)
(***************************************************************************)
EXTENDS Naturals

CONSTANTS
    Openers,    \* the threads that grant passage
    Delays,     \* values of m_doorDelayTime, in ticks of the model's clock
    MaxLeft,    \* bound: what an uninitialised timer or a clock set back leaves to wait
    MaxSteps    \* bound: times the wall clock is set

ASSUME DoorAssumption ==
    /\ MaxLeft \in Nat
    /\ MaxSteps \in Nat
    /\ Delays # {}
    /\ Delays \subseteq 0..MaxLeft

VARIABLES
    relay,           \* the relay is on
    m_doorStatus,
    left,            \* m_endTimerMs less the wall clock
    started,         \* QalHardWare::run has set m_endTimerMs
    m_doorDelayTime,
    pc,              \* where each opener is in checkOpenDoor
    frame,           \* where FaceManager::run is
    status,          \* its local: this synchronisation has been seen
    m_sync,
    steps,           \* times the wall clock has been set
    \* history
    owed,            \* time the relay still has to stay on for the last opening
    raced,           \* checkCloseDoor or run() overlapped an opening
    stepped          \* the wall clock was set during an opening

doorVars  == <<relay, m_doorStatus>>
frameVars == <<frame, status>>
hwVars == <<doorVars, left, started, m_doorDelayTime, pc, frameVars, m_sync, steps,
          owed, raced, stepped>>

OpenPcs  == {"idle", "status", "relay", "timer"}
FramePcs == {"top", "sync", "frame", "status", "relay"}

DoorTypeOK ==
    /\ relay \in BOOLEAN
    /\ m_doorStatus \in BOOLEAN
    /\ left \in 0..MaxLeft
    /\ started \in BOOLEAN
    /\ m_doorDelayTime \in Delays
    /\ pc \in [Openers -> OpenPcs]
    /\ frame \in FramePcs
    /\ status \in BOOLEAN
    /\ m_sync \in BOOLEAN
    /\ steps \in 0..MaxSteps
    /\ owed \in 0..MaxLeft
    /\ raced \in BOOLEAN
    /\ stepped \in BOOLEAN

\* m_endTimerMs holds anything until the thread of QalHardWare runs.
DoorInit ==
    /\ relay = FALSE
    /\ m_doorStatus = FALSE
    /\ left \in 0..MaxLeft
    /\ started = FALSE
    /\ m_doorDelayTime \in Delays
    /\ pc = [o \in Openers |-> "idle"]
    /\ frame = "top"
    /\ status = FALSE
    /\ m_sync = FALSE
    /\ steps = 0
    /\ owed = 0
    /\ raced = FALSE
    /\ stepped = FALSE

expired == left = 0

Opening == \E o \in Openers : pc[o] # "idle"
Closing == frame \in {"status", "relay"}

-----------------------------------------------------------------------------
(* checkOpenDoor in the thread o                                           *)

openUnchanged ==
    UNCHANGED <<started, m_doorDelayTime, frameVars, m_sync, steps, stepped>>

\* Nothing happens while the time of an earlier opening runs.
OpenCheck(o) ==
    /\ pc[o] = "idle"
    /\ expired
    /\ pc' = [pc EXCEPT ![o] = "status"]
    /\ raced' = (raced \/ Closing)
    /\ openUnchanged
    /\ UNCHANGED <<doorVars, left, owed>>

OpenStatus(o) ==
    /\ pc[o] = "status"
    /\ pc' = [pc EXCEPT ![o] = "relay"]
    /\ m_doorStatus' = TRUE
    /\ openUnchanged
    /\ UNCHANGED <<relay, left, owed, raced>>

OpenRelay(o) ==
    /\ pc[o] = "relay"
    /\ pc' = [pc EXCEPT ![o] = "timer"]
    /\ relay' = TRUE
    /\ openUnchanged
    /\ UNCHANGED <<m_doorStatus, left, owed, raced>>

\* Mutant: the timer of the opening is not set.
OpenTimerMissing(o) ==
    /\ pc[o] = "timer"
    /\ pc' = [pc EXCEPT ![o] = "idle"]
    /\ owed' = m_doorDelayTime
    /\ openUnchanged
    /\ UNCHANGED <<doorVars, left, raced>>

\* countdown_ms(m_doorDelayTime * 1000)
OpenTimer(o) ==
    /\ pc[o] = "timer"
    /\ pc' = [pc EXCEPT ![o] = "idle"]
    /\ left' = m_doorDelayTime
    /\ owed' = m_doorDelayTime
    /\ openUnchanged
    /\ UNCHANGED <<doorVars, raced>>

-----------------------------------------------------------------------------
(* FaceManager::run, as far as the door goes                               *)

frameUnchanged ==
    UNCHANGED <<left, started, m_doorDelayTime, pc, m_sync, steps, owed, stepped>>

\* Mutant: the door is not looked at.
FrameUnchecked ==
    /\ frame = "top"
    /\ ~m_sync
    /\ status' = FALSE
    /\ frameUnchanged
    /\ UNCHANGED <<doorVars, frame, raced>>

\* A frame has come from the camera; without one the thread sleeps and tries again.
Frame ==
    /\ frame = "top"
    /\ ~m_sync
    /\ frame' = "frame"
    /\ status' = FALSE
    /\ frameUnchanged
    /\ UNCHANGED <<doorVars, raced>>

\* The door is looked at when a synchronisation is first seen, and not again until it is over.
FrameInSync ==
    /\ frame = "top"
    /\ m_sync
    /\ ~status
    /\ frame' = "sync"
    /\ status' = TRUE
    /\ frameUnchanged
    /\ UNCHANGED <<doorVars, raced>>

\* checkCloseDoor reads the timer and m_doorStatus.
CloseCheck ==
    /\ frame \in {"sync", "frame"}
    /\ frame' = IF expired /\ m_doorStatus THEN "status" ELSE "top"
    /\ raced' = (raced \/ (expired /\ m_doorStatus /\ Opening))
    /\ frameUnchanged
    /\ UNCHANGED <<doorVars, status>>

CloseStatus ==
    /\ frame = "status"
    /\ frame' = "relay"
    /\ m_doorStatus' = FALSE
    /\ frameUnchanged
    /\ UNCHANGED <<relay, status, raced>>

\* Mutant: the relay stays on.
CloseRelayForgotten ==
    /\ frame = "relay"
    /\ frame' = "top"
    /\ frameUnchanged
    /\ UNCHANGED <<doorVars, status, raced>>

CloseRelay ==
    /\ frame = "relay"
    /\ frame' = "top"
    /\ relay' = FALSE
    /\ frameUnchanged
    /\ UNCHANGED <<m_doorStatus, status, raced>>

-----------------------------------------------------------------------------
(* The thread of QalHardWare, and what the rest of the terminal changes    *)

\* QalHardWare::run: countdown_ms(0).
HwRun ==
    /\ ~started
    /\ started' = TRUE
    /\ left' = 0
    /\ raced' = (raced \/ Opening \/ owed > 0)
    /\ UNCHANGED <<doorVars, m_doorDelayTime, pc, frameVars, m_sync, steps, owed, stepped>>

otherUnchanged == UNCHANGED <<doorVars, started, pc, frameVars, raced>>

Less1(n) == IF n = 0 THEN 0 ELSE n - 1

Tick ==
    /\ left > 0 \/ owed > 0
    /\ left' = Less1(left)
    /\ owed' = Less1(owed)
    /\ otherUnchanged
    /\ UNCHANGED <<m_doorDelayTime, m_sync, steps, stepped>>

\* getNtp of the network thread sets the wall clock.
ClockSet ==
    /\ steps < MaxSteps
    /\ steps' = steps + 1
    /\ left' \in 0..MaxLeft
    /\ stepped' = (stepped \/ owed > 0)
    /\ otherUnchanged
    /\ UNCHANGED <<m_doorDelayTime, m_sync, owed>>

\* A setting of the back end or of the configuration tool.
SetDelay ==
    /\ m_doorDelayTime' \in Delays
    /\ otherUnchanged
    /\ UNCHANGED <<left, m_sync, steps, owed, stepped>>

\* A synchronisation begins or ends (UserSync).
SyncChange ==
    /\ m_sync' = ~m_sync
    /\ otherUnchanged
    /\ UNCHANGED <<left, m_doorDelayTime, steps, owed, stepped>>

-----------------------------------------------------------------------------
OpenStep(o) == OpenCheck(o) \/ OpenStatus(o) \/ OpenRelay(o) \/ OpenTimer(o)
FrameStep   == Frame \/ FrameInSync \/ CloseCheck \/ CloseStatus \/ CloseRelay

DoorNext ==
    \/ \E o \in Openers : OpenStep(o)
    \/ FrameStep
    \/ HwRun \/ Tick \/ ClockSet \/ SetDelay \/ SyncChange

DoorSpec == DoorInit /\ [][DoorNext]_hwVars

\* Threads are scheduled, the camera delivers, time passes. Nobody has to come to the door, and
\* no synchronisation has to end.
DoorFairSpec ==
    /\ DoorSpec
    /\ \A o \in Openers : WF_hwVars(OpenStatus(o) \/ OpenRelay(o) \/ OpenTimer(o))
    /\ WF_hwVars(FrameStep) /\ WF_hwVars(HwRun) /\ WF_hwVars(Tick)

-----------------------------------------------------------------------------
(* Properties                                                              *)

\* When no call is under way the relay is where m_doorStatus says it is, unless a closing
\* overlapped an opening: openings by several threads at once do each other no harm.
RelayFollowsStatus == raced \/ Opening \/ Closing \/ relay = m_doorStatus

\* The relay is switched off only when no opening is under way and the time of the last one has
\* run, unless a closing overlapped an opening or the wall clock was set during one.
OpenForItsTime ==
    [][relay /\ ~relay' => (owed = 0 /\ ~Opening) \/ raced \/ stepped]_hwVars

\* A door recorded as open is closed, or opened anew, unless a synchronisation keeps
\* FaceManager::run from looking at it; setting the clock only delays that.
DoorCloses == m_doorStatus ~> ~m_doorStatus \/ Opening \/ m_sync

-----------------------------------------------------------------------------
(* What makes the safety properties inductive                              *)

\* Without an overlap both variables go up and down together, in the order of the code.
Consistent ==
    /\ \A o \in Openers : pc[o] \in {"relay", "timer"} => m_doorStatus
    /\ \A o \in Openers : pc[o] = "timer" => relay
    /\ Closing => ~Opening /\ relay /\ (m_doorStatus <=> frame = "status")

\* What is owed is what the timer still has to run, and only an open door owes anything.
TimerKept ==
    /\ owed <= left
    /\ owed > 0 => m_doorStatus
    /\ Closing => owed = 0

\* The inductive invariants.
InStep     == raced \/ (Consistent /\ RelayFollowsStatus)
TimerRight == raced \/ stepped \/ TimerKept

=============================================================================
