----------------------------- MODULE MCNetwork -----------------------------
(***************************************************************************)
(* The ways into the server: the login socket and the access panel, the    *)
(* administrators' socket and panel, the connections of a player, and the  *)
(* terminal with its two queues in front of a module.  None of them shares *)
(* a socket or a queue with another one: a behaviour is one of either of   *)
(* them, as `part` says.                                                   *)
(***************************************************************************)
EXTENDS Connectivity, Login, AdminLogin, BufferedTerminal

VARIABLE part

networkVars == <<vars, loginVars, adminVars, terminalVars, part>>

NetworkInit ==
    /\ part \in {"connections", "login", "administrators", "terminal"}
    /\ Init /\ LoginInit /\ AdminInit /\ TerminalInit

NetworkNext ==
    /\ \/ part = "connections" /\ Next
       \/ part # "connections" /\ UNCHANGED vars
    /\ \/ part = "login" /\ LoginNext
       \/ part # "login" /\ UNCHANGED loginVars
    /\ \/ part = "administrators" /\ AdminNext
       \/ part # "administrators" /\ UNCHANGED adminVars
    /\ \/ part = "terminal" /\ TerminalNext
       \/ part # "terminal" /\ UNCHANGED terminalVars
    /\ UNCHANGED part

-----------------------------------------------------------------------------
(* Time does not stop, the conveyor goes on, and echoes do arrive. *)
ConnectivityFairness ==
    /\ WF_vars(part = "connections" /\ Tick)
    /\ WF_vars(part = "connections" /\ CheckConnectionsActivity)
    /\ \A e \in Endpoints : WF_vars(part = "connections" /\ Echo(e))

(* AccessPanel::prephare handles what is buffered in every cycle, and each
   timestamp is reached. *)
LoginFairness == \A i \in 1..Total : WF_loginVars(part = "login" /\ HandleSlot(i))

(* The conveyor goes on with its cycles and with each of them to its end, and
   in-game time passes between two cycles. *)
TerminalFairness ==
    /\ WF_terminalVars(part = "terminal" /\ HandleBufferedMessages)
    /\ WF_terminalVars(part = "terminal" /\ HandlingStep)
    /\ SF_terminalVars(part = "terminal" /\ ClockTick)

NetworkSpec ==
    /\ NetworkInit /\ [][NetworkNext]_networkVars
    /\ ConnectivityFairness /\ LoginFairness /\ TerminalFairness
=============================================================================
