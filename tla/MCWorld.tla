------------------------------ MODULE MCWorld ------------------------------
(***************************************************************************)
(* What is seen of the world, and how it is told: the grid of cells with   *)
(* the scanners on a ship, the passive scanner, the administrator's screen *)
(* and the conversations of clients with the modules.  None of them calls  *)
(* another one: a behaviour is one of either, as `part` says.              *)
(***************************************************************************)
EXTENDS Scanners, PassiveScanner, Screen, Conversations

VARIABLE part

allVars == <<scannersVars, passiveVars, screenVars, conversationVars, part>>

(* All but the moving objects start where something may be. *)
ObserverInit == ScannersInit /\ \A o \in Objects \ Movers : place[o] \in Destinations

(* What the other parts keep while one is explored *)
Elsewhere ==
    /\ \/ part = "scanners"
       \/ /\ place = [o \in Objects |-> CHOOSE p \in Destinations : TRUE]
          /\ spawned = {Platform}
    /\ part = "passive" \/ inRange = {}
    /\ part = "conversations" \/ (device = "Ship" /\ peers = Peers)

ObservationInit ==
    /\ part \in {"scanners", "passive", "screen", "conversations"}
    /\ Elsewhere
    /\ ObserverInit /\ PassiveInit /\ ScreenInit /\ ConversationsInit

ObservationNext ==
    /\ \/ part = "scanners" /\ ScannersNext
       \/ part # "scanners" /\ UNCHANGED scannersVars
    /\ \/ part = "passive" /\ PassiveNext
       \/ part # "passive" /\ UNCHANGED passiveVars
    /\ \/ part = "screen" /\ ScreenNext
       \/ part # "screen" /\ UNCHANGED screenVars
    /\ \/ part = "conversations" /\ ConversationsNext
       \/ part # "conversations" /\ UNCHANGED conversationVars
    /\ UNCHANGED part

ObservationSpec == ObservationInit /\ [][ObservationNext]_allVars
=============================================================================
