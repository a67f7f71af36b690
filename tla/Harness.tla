------------------------------- MODULE Harness -------------------------------
(* The server as its functional tests run it (AUTOTESTS_MODE): the thread of *)
(* the test and the thread of SystemManager::run meet at a barrier for two,  *)
(* so that the game goes on only inside of nextCycle(). The test controls    *)
(* the clock directly, without any lock.                                     *)
EXTENDS Clock

CONSTANTS
    Skips,          \* <<nTimeMs * 1000, nTickUs>>: the times a test skips
    GameBound       \* model bound of the in-game time

ASSUME HarnessAssumption == Skips \subseteq (Nat \X (Nat \ {0})) /\ GameBound \in Nat

VARIABLES
    test,       \* where the thread of the test is
    back,       \* where it goes on after nextCycle() and proceed()
    server,     \* where the thread of SystemManager::run is
    skip,       \* history: what skipTime() was called with, and when
    overtaken   \* history: terminate() came before the server looked at the clock

harnessVars == <<clockVars, test, back, server, skip, overtaken>>

(* SetUp() starts the thread of the server and logs the administrator in,   *)
(* which waits for the answer: proceed() is called until there is one.      *)
HarnessInit ==
    /\ ClockInit /\ m_eState = "RealTime"
    /\ test = "wait1" /\ back = "idle" /\ server = "start"
    /\ skip = [from |-> 0, time |-> 0, tick |-> 1] /\ overtaken = FALSE
-----------------------------------------------------------------------------
(* SystemManager::run, of the autotests                                     *)

Serve(from, to) == server = from /\ server' = to

\* start(lColdStart = true)
Start ==
    /\ Serve("start", "check") /\ SwitchMode("Debug")
    /\ UNCHANGED <<test, back, skip, overtaken>>

CheckTerminated ==
    /\ server = "check"
    /\ server' = IF m_eState = "Terminated" THEN "stopped" ELSE "wait1"
    /\ UNCHANGED <<clockVars, test, back, skip, overtaken>>

\* getNextInterval() and Conveyor::proceed(), between the two waits
Cycle ==
    /\ Serve("cycle", "wait2") /\ GetNextInterval
    /\ UNCHANGED <<test, back, skip, overtaken>>

\* nextCycle(): two waits
TestGoesOn == IF test = "wait1" THEN "wait2" ELSE "polled"

Meet ==
    /\ test \in {"wait1", "wait2"} /\ server \in {"wait1", "wait2"}
    /\ test' = TestGoesOn
    /\ server' = IF server = "wait1" THEN "cycle" ELSE "check"
    /\ UNCHANGED <<clockVars, back, skip, overtaken>>
-----------------------------------------------------------------------------
(* The test: FunctionalTestFixture                                          *)

NextCycle(ret) == test' = "wait1" /\ back' = ret

\* proceed(): once more, if the client has received something; or its end.
\* TearDown() calls nextCycle() itself.
PollAgain ==
    /\ test = "polled" /\ back # "join" /\ NextCycle(back)
    /\ UNCHANGED <<clockVars, server, skip, overtaken>>
Polled ==
    /\ test = "polled" /\ test' = back
    /\ UNCHANGED <<clockVars, back, server, skip, overtaken>>

\* a call of the client's modules waits for an answer and proceeds meanwhile
WaitAnswer ==
    /\ test = "idle" /\ NextCycle("idle")
    /\ UNCHANGED <<clockVars, server, skip, overtaken>>

TicksFor(time, tick) ==
    LET ticks == time \div tick IN IF ticks * tick < time THEN ticks + 1 ELSE ticks

\* skipTime(): pauseTime(), setDebugTickUs() and proceedRequest() ...
SkipTime(time, tick) ==
    /\ test = "idle" /\ m_nDebugTicksCounter = 0
    /\ m_inGameTimeUs + TicksFor(time, tick) * tick <= GameBound
    /\ m_eState' = "Debug" /\ m_nDebugTickUs' = tick
    /\ m_nDebugTicksCounter' = TicksFor(time, tick)
    /\ test' = "skipping"
    /\ skip' = [from |-> m_inGameTimeUs, time |-> time, tick |-> tick]
    /\ UNCHANGED <<realTime, m_inGameTimeUs, m_nDeviationUs, nIntervalUs, back, server, overtaken>>

\* ... and its loop
SkipMore ==
    /\ test = "skipping" /\ IsDebugInProgress /\ NextCycle("skipping")
    /\ UNCHANGED <<clockVars, server, skip, overtaken>>
Skipped ==
    /\ test = "skipping" /\ ~IsDebugInProgress /\ test' = "idle"
    /\ UNCHANGED <<clockVars, back, server, skip, overtaken>>

ResumeTime ==
    /\ test = "idle" /\ m_inGameTimeUs < GameBound /\ SwitchToRealtimeMode
    /\ UNCHANGED <<test, back, server, skip, overtaken>>
PauseTime ==
    /\ test = "idle" /\ SwitchToDebugMode
    /\ UNCHANGED <<test, back, server, skip, overtaken>>

\* The server is not let through the barrier. (mutant: TearDown)
TearDownAtOnce ==
    /\ test = "idle" /\ Terminate /\ test' = "join"
    /\ overtaken' = (server = "check")
    /\ UNCHANGED <<back, server, skip>>
TearDown ==
    /\ test = "idle" /\ Terminate /\ NextCycle("join")
    /\ overtaken' = (server = "check")
    /\ UNCHANGED <<server, skip>>

JoinMainThread ==
    /\ test = "join" /\ server = "stopped" /\ test' = "done"
    /\ UNCHANGED <<clockVars, back, server, skip, overtaken>>

HarnessNext ==
    \/ Start \/ CheckTerminated
    \/ (m_inGameTimeUs < GameBound \/ m_eState # "RealTime") /\ Cycle
    \/ Meet
    \/ PollAgain \/ Polled \/ WaitAnswer \/ SkipMore \/ Skipped
    \/ \E s \in Skips : SkipTime(s[1], s[2])
    \/ ResumeTime \/ PauseTime \/ TearDown \/ JoinMainThread
    \/ \E d \in Elapses : realTime + d <= GameBound /\ Elapse(d)
                          /\ UNCHANGED <<test, back, server, skip, overtaken>>

HarnessSpec == HarnessInit /\ [][HarnessNext]_harnessVars
-----------------------------------------------------------------------------
(* The test and the server take turns: while a cycle is made the test is    *)
(* inside of nextCycle(), so its calls of the clock and its assertions see  *)
(* no half-made cycle although nothing is locked. (SystemManager.cpp:138)   *)
TurnsAreTaken == server \in {"cycle", "wait2"} => test = "wait2"

(* When skipTime() returns, the game has gone on by at least what was asked *)
(* for and by less than a tick more, whatever mode the clock was in and     *)
(* however many cycles the client has polled.                               *)
(* (FunctionalTestFixture.cpp:158)                                          *)
SkipIsExact ==
    test = "skipping" /\ ~IsDebugInProgress =>
        (m_inGameTimeUs - skip.from) \in skip.time .. skip.time + skip.tick - 1

(* Neither thread is left waiting for the other when the test is torn down, *)
(* except in one order that TearDown() does not exclude: if the server has  *)
(* passed the barrier but not yet looked at the clock when terminate() is   *)
(* called, it stops, and nextCycle() of the test waits for ever.            *)
(* (FunctionalTestFixture.cpp:83)                                           *)
NobodyIsLeftWaiting ==
    /\ test = "wait1" /\ server = "stopped" => overtaken
    /\ test = "join" => server \notin {"wait1", "wait2"}

(* The test and the server run in lock step from SetUp() to TearDown(): they *)
(* take turns, time is skipped exactly, and neither waits in vain.           *)
LockStepHolds == TurnsAreTaken /\ SkipIsExact /\ NobodyIsLeftWaiting
=============================================================================
