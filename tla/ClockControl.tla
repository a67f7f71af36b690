---------------------------- MODULE ClockControl ----------------------------
(* administrator::ClockControl: administrators switch the modes of the clock *)
(* and ask for debug ticks. Their messages are buffered and handled once in  *)
(* a cycle of SystemManager::run; then ClockControl::proceed reports ticks   *)
(* that are done. The administrators are logged in (see Login).              *)
EXTENDS Clock, Sequences

CONSTANTS
    Admins,         \* sessions of administrators
    NoSession,      \* gInvalidSessionId
    InboxBound,     \* model bound: messages received in one cycle
    TimeBound       \* model bound: of the real and of the in-game time

ASSUME ControlAssumption == NoSession \notin Admins

VARIABLES
    cphase,             \* "interval", "handle", or "stopped" (the loop has ended)
    inbox,              \* messages of administrators, in the order received
    m_nDebugSessionId,
    due                 \* history: in-game time at which the accepted ticks are done

controlVars == <<clockVars, cphase, inbox, m_nDebugSessionId, due>>

AdminMessage ==
    [from : Admins, type : {"time_req", "mode_req", "switch_to_real_time",
                            "switch_to_debug_mode", "terminate"}]
      \cup [from : Admins, type : {"tick_duration_us"}, value : TickLengths]
      \cup [from : Admins, type : {"proceed_ticks"}, value : TickCounts]

ControlInit ==
    /\ ClockInit
    /\ cphase = "interval" /\ inbox = <<>> /\ m_nDebugSessionId = NoSession /\ due = 0

TimePasses(d) ==
    /\ cphase = "interval" /\ realTime + d <= TimeBound
    /\ Elapse(d)
    /\ UNCHANGED <<cphase, inbox, m_nDebugSessionId, due>>

Due(n) == m_inGameTimeUs + n * m_nDebugTickUs

\* Ticks are asked for only while the model's bound of the time allows them.
OnAdminMessage(m) ==
    /\ cphase = "interval" /\ Len(inbox) < InboxBound
    /\ m.type = "proceed_ticks" => Due(m.value) <= TimeBound
    /\ inbox' = Append(inbox, m)
    /\ UNCHANGED <<clockVars, cphase, m_nDebugSessionId, due>>

\* The body of the loop of SystemManager::run, up to the panel's prephare().
RunCycle ==
    /\ cphase = "interval" /\ m_eState # "Terminated" /\ cphase' = "handle"
    /\ GetNextInterval
    /\ UNCHANGED <<inbox, m_nDebugSessionId, due>>

StopRunning ==
    /\ cphase = "interval" /\ m_eState = "Terminated" /\ cphase' = "stopped"
    /\ UNCHANGED <<clockVars, inbox, m_nDebugSessionId, due>>
-----------------------------------------------------------------------------
(* handleMessage(). Replies with the time or the mode change nothing.       *)

ModeRequest(m) ==
    /\ UNCHANGED <<m_nDebugSessionId, due>>
    /\ \/ m.type \in {"time_req", "mode_req"} /\ UNCHANGED clockVars
       \/ m.type = "switch_to_real_time" /\ SwitchToRealtimeMode
       \/ m.type = "switch_to_real_time" /\ ~CanSwitchToRealtime /\ UNCHANGED clockVars
       \/ m.type = "switch_to_debug_mode" /\ SwitchToDebugMode
       \/ m.type = "switch_to_debug_mode" /\ m_eState = "Terminated" /\ UNCHANGED clockVars
       \/ m.type = "terminate" /\ Terminate

\* The length of a tick is changed also while ticks are made. (mutant: TickDuration)
TickDurationAlways(m) ==
    /\ m.type = "tick_duration_us" /\ UNCHANGED <<m_nDebugSessionId, due>>
    /\ SetDebugTickUs(m.value)
TickDuration(m) ==
    /\ m.type = "tick_duration_us" /\ UNCHANGED <<m_nDebugSessionId, due>>
    /\ IF IsDebugInProgress THEN UNCHANGED clockVars ELSE SetDebugTickUs(m.value)

ProceedTicks(m) ==
    /\ m.type = "proceed_ticks"
    /\ IF CanProceed
       THEN /\ ProceedRequest(m.value)
            /\ m_nDebugSessionId' = m.from
            /\ due' = Due(m.value)
       ELSE UNCHANGED <<clockVars, m_nDebugSessionId, due>>

HandleAdminMessage ==
    /\ cphase = "handle" /\ inbox # <<>>
    /\ inbox' = Tail(inbox)
    /\ ModeRequest(Head(inbox)) \/ TickDuration(Head(inbox)) \/ ProceedTicks(Head(inbox))
    /\ UNCHANGED cphase

ReportTicks ==
    m_nDebugSessionId' = IF IsDebugInProgress THEN m_nDebugSessionId ELSE NoSession

\* proceed(), at the end of the panel's prephare().
ControlProceed ==
    /\ cphase = "handle" /\ inbox = <<>> /\ cphase' = "interval"
    /\ ReportTicks
    /\ UNCHANGED <<clockVars, inbox, due>>

ControlNext ==
    \/ \E d \in Elapses : TimePasses(d)
    \/ \E m \in AdminMessage : OnAdminMessage(m)
    \/ RunCycle \/ StopRunning \/ HandleAdminMessage \/ ControlProceed

ControlSpec == ControlInit /\ [][ControlNext]_controlVars
-----------------------------------------------------------------------------
(* The administrator that asked for ticks is told the time exactly when all *)
(* of them were made: not a tick sooner or later, whatever modes, lengths   *)
(* and other requests were asked for meanwhile. (ClockControl.cpp: proceed) *)
AnsweredOnTime ==
    [][(m_nDebugSessionId # NoSession /\ m_nDebugSessionId' = NoSession
        /\ m_eState # "Terminated") => m_inGameTimeUs = due]_controlVars

(* If administrators stop sending and wait, the one whose request was       *)
(* accepted last is answered. (One who goes on sending may put it off for   *)
(* ever: a request handled in the cycle in which the ticks end takes the    *)
(* place of the one that was to be answered.) (ClockControl.cpp: proceed)   *)
ProceedIsAnswered ==
    <>[](inbox = <<>>) =>
        ((m_nDebugSessionId # NoSession) ~> (m_nDebugSessionId = NoSession))

(* The administrator who drives the clock is answered, and at the right     *)
(* game time.                                                               *)
AdministratorIsAnswered == AnsweredOnTime /\ ProceedIsAnswered
============================================================================
