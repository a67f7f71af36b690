----------------------------- MODULE MCServices -----------------------------
(***************************************************************************)
(* What serves requests over sessions: the messanger, the slots of a       *)
(* commutator, the subscriptions to a clock or a ship, the administrator's *)
(* control of the clock, and the monitors of a container.  Each of them    *)
(* keeps its own state and none calls another one: a behaviour is one of   *)
(* either of them, as `part` says.                                         *)
(***************************************************************************)
EXTENDS Messanger, Slots, Subscribers, ClockControl, CargoMonitors

VARIABLE part

servicesVars ==
    <<messangerVars, slotsVars, subscribersVars, controlVars, cargoMonitorsVars, part>>

ServicesInit ==
    /\ part \in {"messanger", "slots", "subscribers", "clock", "cargo"}
    /\ part = "subscribers" \/ kind = "Ship"
    /\ part = "clock" \/ m_eState = "Debug"
    /\ MessangerInit /\ SlotsInit /\ SubscribersInit
    /\ ControlInit /\ CargoMonitorsInit

ServicesNext ==
    /\ \/ part = "messanger" /\ MessangerNext
       \/ part # "messanger" /\ UNCHANGED messangerVars
    /\ \/ part = "slots" /\ SlotsNext
       \/ part # "slots" /\ UNCHANGED slotsVars
    /\ \/ part = "subscribers" /\ SubscribersNext
       \/ part # "subscribers" /\ UNCHANGED subscribersVars
    /\ \/ part = "clock" /\ ControlNext
       \/ part # "clock" /\ UNCHANGED controlVars
    /\ \/ part = "cargo" /\ CargoMonitorsNext
       \/ part # "cargo" /\ UNCHANGED cargoMonitorsVars
    /\ UNCHANGED part

-----------------------------------------------------------------------------
(* The conveyor goes through the stages of the messanger in every cycle. *)
MessangerFairness ==
    /\ WF_messangerVars(part = "messanger" /\ StartHandling)
    /\ WF_messangerVars(part = "messanger" /\ FinishHandling)
    /\ WF_messangerVars(part = "messanger" /\ Proceed)

(* CommutatorManager runs checkSlots every 25 ms as long as the server runs. *)
SlotsFairness == WF_slotsVars(part = "slots" /\ CheckSlots)

(* SystemManager::run goes round until the clock is terminated. *)
ControlFairness ==
    /\ WF_controlVars(part = "clock" /\ RunCycle)
    /\ WF_controlVars(part = "clock" /\ HandleAdminMessage)
    /\ WF_controlVars(part = "clock" /\ ControlProceed)

ServicesSpec ==
    /\ ServicesInit /\ [][ServicesNext]_servicesVars
    /\ MessangerFairness /\ SlotsFairness /\ ControlFairness
=============================================================================
