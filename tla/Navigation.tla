----------------------------- MODULE Navigation -----------------------------
(* The way of a thrust from the client's autopilot to the ship: the client   *)
(* picks an engine and runs a MovingProcedure, batch by batch of game time;  *)
(* each sync asks the engine for a thrust that lasts until the next one. In  *)
(* a cycle of the conveyor NewtonEngine moves the ships first; the engines   *)
(* handle their messages and are proceeded after it. The geometry is left    *)
(* out: a ship has arrived or not, a thrust is zero or not.                  *)
EXTENDS Integers, Sequences, FiniteSetsExt

CONSTANTS
    Thrusts,    \* m_maxThrust of the ship's engines, in the order of the slots
    Sync,       \* m_nSyncIntervalUs
    Batch,      \* m_nIntervalMs of the batch, in us
    TickUs,     \* m_nTickUs of the batch
    Updates     \* every how many sync intervals the specification is asked for (10)

ASSUME NavigationAssumption ==
    /\ Thrusts \in Seq(Nat)
    /\ {Sync, Batch, TickUs, Updates} \subseteq Nat \ {0}

VARIABLES
    picked,         \* the engine the procedure has a session with, 0: none
    procedure,      \* AbstractProcedure::State
    pilot,          \* "idle", or "skipping" while skipTime() is executed
    ticksLeft,      \* debug ticks of skipTime() that are left
    sinceSync,      \* m_nTimeSinceLastSyncUs
    toUpdate,       \* m_nTimeToUpdateUs
    request,        \* change_thrust on its way: its duration, -1 for a zero thrust, 0: none
    force,          \* the engine's external force is not zero
    m_nTimeLeftUs,
    asked,          \* history: duration of the thrust handled last, and the
    handledIn,      \*   interval of the cycle in which it was handled
    acted,          \* history: for how long it has moved the ship
    expired         \* history: it was ended by Engine::proceed

engineVars == <<force, m_nTimeLeftUs, asked, handledIn, acted, expired>>
pilotVars == <<picked, procedure, pilot, ticksLeft, sinceSync, toUpdate>>
navigationVars == <<pilotVars, request, engineVars>>

NoRequest == 0
ZeroThrust == -1

\* FindMostPowerfulEngine(): nMaxThrust is compared with but never assigned, so
\* the last engine that has a thrust is taken.
FindMostPowerfulEngine ==
    Max({0} \cup {i \in 1 .. Len(Thrusts) : Thrusts[i] > 0})

NavigationInit ==
    /\ picked = 0 /\ procedure = "eInactive" /\ pilot = "idle" /\ ticksLeft = 0
    /\ sinceSync = Sync /\ toUpdate = 0 /\ request = NoRequest
    /\ force = FALSE /\ m_nTimeLeftUs = 0
    /\ asked = 0 /\ handledIn = 0 /\ acted = 0 /\ expired = FALSE
-----------------------------------------------------------------------------
(* The client                                                               *)

\* Navigation::initialize(), MakeMoveToProcedure() and RunProcedures().add():
\* without an engine there is no procedure.
MakeMoveTo ==
    /\ procedure = "eInactive" /\ FindMostPowerfulEngine # 0
    /\ picked' = FindMostPowerfulEngine
    /\ procedure' = "eActive"
    /\ UNCHANGED <<pilot, ticksLeft, sinceSync, toUpdate, request, engineVars>>

\* proceedFrontBatch(): skipTime() first
SkipBatch ==
    /\ procedure = "eActive" /\ pilot = "idle"
    /\ pilot' = "skipping"
    /\ ticksLeft' = (Batch + TickUs - 1) \div TickUs
    /\ UNCHANGED <<picked, procedure, sinceSync, toUpdate, request, engineVars>>

\* ... then MovingProcedure::proceed(Batch): it is too early,
SyncLater ==
    /\ pilot = "skipping" /\ ticksLeft = 0 /\ sinceSync + Batch < Sync
    /\ pilot' = "idle" /\ sinceSync' = sinceSync + Batch
    /\ UNCHANGED <<picked, procedure, ticksLeft, toUpdate, request, engineVars>>

\* or a request for the position, the state or the specification is not
\* answered, or the ship has arrived,
Complete(outcome) ==
    /\ pilot = "skipping" /\ ticksLeft = 0 /\ sinceSync + Batch >= Sync
    /\ pilot' = "idle" /\ procedure' = outcome /\ sinceSync' = 0
    /\ UNCHANGED <<picked, ticksLeft, toUpdate, request, engineVars>>

\* or a new thrust is sent, with what is known of the ship and of the engine.
\* If the last request is still on its way, both are handled in one cycle.
SetThrust(duration) ==
    /\ pilot = "skipping" /\ ticksLeft = 0 /\ sinceSync + Batch >= Sync
    /\ pilot' = "idle" /\ sinceSync' = 0
    /\ toUpdate' = IF toUpdate < Batch THEN Updates * Sync ELSE toUpdate - Batch
    /\ request' = duration
    /\ UNCHANGED <<picked, procedure, ticksLeft, engineVars>>

\* RunProcedures is over, and another procedure is made.
NextProcedure ==
    /\ procedure \in {"eFinished", "eFailed"} /\ pilot = "idle"
    /\ procedure' = "eInactive" /\ sinceSync' = Sync /\ toUpdate' = 0
    /\ UNCHANGED <<picked, pilot, ticksLeft, request, engineVars>>
-----------------------------------------------------------------------------
(* The server: one cycle, in the order of the logics                        *)

\* Engine::proceed(): the thrust ends when its time is over,
\* (mutant: EngineProceed) or a cycle later
EngineProceedLater(left, interval) ==
    IF left >= interval THEN [force |-> TRUE, left |-> left - interval]
                        ELSE [force |-> FALSE, left |-> 0]
EngineProceed(left, interval) ==
    IF left > interval THEN [force |-> TRUE, left |-> left - interval]
                       ELSE [force |-> FALSE, left |-> 0]

\* No message: NewtonEngine moves the ship, and the active engine is proceeded.
QuietCycle(interval) ==
    /\ LET engine == EngineProceed(m_nTimeLeftUs, interval)
       IN  IF force
           THEN /\ acted' = acted + interval
                /\ force' = engine.force /\ m_nTimeLeftUs' = engine.left
                /\ expired' = ~engine.force
           ELSE UNCHANGED <<acted, force, m_nTimeLeftUs, expired>>
    /\ UNCHANGED <<asked, handledIn, request>>

\* Engine::setThrust() with a thrust, and the engine, now active, is proceeded
\* in the same cycle.
ThrustCycle(interval) ==
    /\ request > 0 /\ request' = NoRequest
    /\ LET engine == EngineProceed(request, interval)
       IN  force' = engine.force /\ m_nTimeLeftUs' = engine.left /\ expired' = ~engine.force
    /\ asked' = request /\ handledIn' = interval /\ acted' = 0

StopCycle ==
    /\ request = ZeroThrust /\ request' = NoRequest
    /\ force' = FALSE /\ m_nTimeLeftUs' = 0 /\ expired' = FALSE
    /\ UNCHANGED <<asked, handledIn, acted>>

\* In debug mode a cycle takes a tick, or no time when no tick is asked for.
Cycle(interval) ==
    /\ IF interval = 0 THEN ticksLeft = 0 /\ UNCHANGED ticksLeft
                       ELSE ticksLeft > 0 /\ ticksLeft' = ticksLeft - 1
    /\ QuietCycle(interval) \/ ThrustCycle(interval) \/ StopCycle
    /\ UNCHANGED <<picked, procedure, pilot, sinceSync, toUpdate>>

NavigationNext ==
    \/ MakeMoveTo \/ SkipBatch \/ SyncLater \/ NextProcedure
    \/ \E outcome \in {"eFinished", "eFailed"} : Complete(outcome)
    \/ \E duration \in {Sync, ZeroThrust} : SetThrust(duration)
    \/ \E interval \in {0, TickUs} : Cycle(interval)

NavigationSpec == NavigationInit /\ [][NavigationNext]_navigationVars
-----------------------------------------------------------------------------
(* A thrust moves the ship for the time that was asked for, less the        *)
(* interval of the cycle that handled it (the engine is proceeded by that   *)
(* interval although the ship was moved before), and up to a tick more; one *)
(* that is no longer than that interval never moves the ship. Late requests *)
(* and batches that are no multiple of a tick do not add up.                *)
(* (Engine.cpp:15, NewtonEngine.cpp:18, SystemManager.cpp:226)              *)
ThrustActsAsAsked ==
    LET due == Max({0, asked - handledIn})
    IN  /\ expired => acted \in due .. due + (IF due = 0 THEN 0 ELSE TickUs - 1)
        /\ force => acted < due
=============================================================================
