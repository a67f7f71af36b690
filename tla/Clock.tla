-------------------------------- MODULE Clock --------------------------------
(* utils::Clock: gives the intervals by which the game is proceeded. In real *)
(* time mode it follows the real time but never gives more than nMaxTickUs   *)
(* at once; in debug mode it gives the ticks that were asked for.            *)
EXTENDS Integers

CONSTANTS
    Autotests,      \* TRUE for the AUTOTESTS_MODE build
    MaxTick,        \* nMaxTickUs
    DefaultTick,    \* nDebugDefaultTickUs, of the autotests
    Elapses,        \* how much real time may pass between two calls
    TickLengths,    \* lengths of a debug tick that may be set
    TickCounts      \* numbers of ticks that may be asked for

ASSUME ClockAssumption ==
    /\ Autotests \in BOOLEAN /\ MaxTick \in Nat /\ DefaultTick \in Nat
    /\ Elapses \subseteq Nat /\ TickLengths \subseteq Nat /\ TickCounts \subseteq Nat

VARIABLES
    m_eState,               \* "RealTime", "Debug" or "Terminated"
    realTime,               \* real time since m_startedAt
    m_inGameTimeUs,
    m_nDeviationUs,
    m_nDebugTickUs,
    m_nDebugTicksCounter,
    nIntervalUs             \* what getNextInterval() has returned last

clockVars == <<m_eState, realTime, m_inGameTimeUs, m_nDeviationUs,
               m_nDebugTickUs, m_nDebugTicksCounter, nIntervalUs>>

\* start(): the server starts in debug mode when it is started "cold".
ClockInit ==
    /\ m_eState \in {"RealTime", "Debug"}
    /\ realTime = 0 /\ m_inGameTimeUs = 0 /\ m_nDeviationUs = 0
    /\ m_nDebugTickUs = 0 /\ m_nDebugTicksCounter = 0 /\ nIntervalUs = 0

Elapse(d) ==
    /\ realTime' = realTime + d
    /\ UNCHANGED <<m_eState, m_inGameTimeUs, m_nDeviationUs, m_nDebugTickUs,
                   m_nDebugTicksCounter, nIntervalUs>>
-----------------------------------------------------------------------------
(* getNextInterval()                                                        *)

\* Real time that has passed and is not accounted for yet: the code asserts
\* that it is not negative.
Dt == realTime - (m_inGameTimeUs + m_nDeviationUs)

\* What is given out: a slip is cut off and becomes a deviation.
RealTimeTick == IF Autotests THEN DefaultTick ELSE IF Dt > MaxTick THEN MaxTick ELSE Dt

\* The slip is not accounted for: the clock makes up for it later. (mutant: NextRealTime)
NextRealTimeNoSlip ==
    /\ m_eState = "RealTime"
    /\ nIntervalUs' = RealTimeTick
    /\ m_inGameTimeUs' = m_inGameTimeUs + RealTimeTick
    /\ m_nDeviationUs' = m_nDeviationUs + Dt
    /\ UNCHANGED <<m_eState, realTime, m_nDebugTickUs, m_nDebugTicksCounter>>
NextRealTime ==
    /\ m_eState = "RealTime"
    /\ nIntervalUs' = RealTimeTick
    /\ m_inGameTimeUs' = m_inGameTimeUs + RealTimeTick
    /\ m_nDeviationUs' = m_nDeviationUs + Dt - RealTimeTick
    /\ UNCHANGED <<m_eState, realTime, m_nDebugTickUs, m_nDebugTicksCounter>>

DebugTick == IF m_nDebugTicksCounter > 0 THEN m_nDebugTickUs ELSE 0

NextDebug ==
    /\ m_eState = "Debug"
    /\ nIntervalUs' = DebugTick
    /\ m_nDebugTicksCounter' = IF m_nDebugTicksCounter > 0 THEN m_nDebugTicksCounter - 1 ELSE 0
    /\ m_inGameTimeUs' = m_inGameTimeUs + DebugTick
    /\ m_nDeviationUs' = m_nDeviationUs + Dt - DebugTick
    /\ UNCHANGED <<m_eState, realTime, m_nDebugTickUs>>

NextTerminated ==
    /\ m_eState = "Terminated" /\ nIntervalUs' = 0
    /\ UNCHANGED <<m_eState, realTime, m_inGameTimeUs, m_nDeviationUs, m_nDebugTickUs,
                   m_nDebugTicksCounter>>

GetNextInterval == NextRealTime \/ NextDebug \/ NextTerminated
-----------------------------------------------------------------------------
IsDebugInProgress == m_eState = "Debug" /\ m_nDebugTicksCounter > 0

SwitchMode(mode) ==
    /\ m_eState' = mode
    /\ UNCHANGED <<realTime, m_inGameTimeUs, m_nDeviationUs, m_nDebugTickUs,
                   m_nDebugTicksCounter, nIntervalUs>>

CanSwitchToRealtime == m_eState = "RealTime" \/ (m_eState = "Debug" /\ m_nDebugTicksCounter = 0)
SwitchToRealtimeMode == CanSwitchToRealtime /\ SwitchMode("RealTime")
SwitchToDebugMode == m_eState # "Terminated" /\ SwitchMode("Debug")
Terminate == SwitchMode("Terminated")

SetDebugTickUs(n) ==
    /\ m_nDebugTickUs' = n
    /\ UNCHANGED <<m_eState, realTime, m_inGameTimeUs, m_nDeviationUs,
                   m_nDebugTicksCounter, nIntervalUs>>

CanProceed == m_eState = "Debug" /\ m_nDebugTicksCounter = 0
ProceedRequest(n) ==
    /\ CanProceed
    /\ m_nDebugTicksCounter' = n
    /\ UNCHANGED <<m_eState, realTime, m_inGameTimeUs, m_nDeviationUs, m_nDebugTickUs,
                   nIntervalUs>>

ClockNext ==
    \/ \E d \in Elapses : Elapse(d)
    \/ GetNextInterval
    \/ SwitchToRealtimeMode \/ SwitchToDebugMode \/ Terminate
    \/ \E n \in TickLengths : SetDebugTickUs(n)
    \/ \E n \in TickCounts : ProceedRequest(n)

ClockSpec == ClockInit /\ [][ClockNext]_clockVars
-----------------------------------------------------------------------------
ClockTypeOK ==
    /\ m_eState \in {"RealTime", "Debug", "Terminated"}
    /\ realTime \in Nat /\ m_inGameTimeUs \in Nat /\ m_nDeviationUs \in Int
    /\ m_nDebugTickUs \in Nat /\ m_nDebugTicksCounter \in Nat /\ nIntervalUs \in Nat

(* The assertion of getNextInterval(): the in-game time and the deviation   *)
(* together are never ahead of the real time, although debug ticks run      *)
(* ahead of it, slips are cut off and modes are switched in any order.      *)
(* (Clock.cpp:39)                                                           *)
NeverAhead == Dt >= 0

(* The clock keeps sane values whatever is called: getNextInterval() never  *)
(* returns a negative interval, and its assertion never fires. (Clock.cpp)  *)
ClockIsExact == ClockTypeOK /\ NeverAhead
============================================================================
