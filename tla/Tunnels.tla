------------------------------ MODULE Tunnels ------------------------------
(***************************************************************************)
(* The commutators of a player on top of SessionMux: how a client opens    *)
(* and closes tunnels to modules, and how each module counts its sessions. *)
(*                                                                         *)
(* The conveyor alternates between the main thread ("receive": datagrams   *)
(* are read, silent connections are closed) and stages in which several    *)
(* threads run the modules ("work": each commutator handles the requests   *)
(* it has buffered, different commutators in different threads).  So a     *)
(* request is handled later than it was received, and opening a tunnel is  *)
(* two steps: SessionMux::createSession and, outside of its mutex,         *)
(* BaseModule::openSession.                                                *)
(***************************************************************************)
EXTENDS SessionMux, FiniteSets

CONSTANTS
    Commutators,      \* the commutators of the player, themselves modules
    RootCommutator,   \* the one that root sessions give access to
    Attached,         \* Attached[com]: the modules in the slots of com
    SessionsLimit,    \* nSessionsPerModuleLimit
    ThreadCounts,     \* the numbers of threads that the conveyor may have
    InboxBound        \* bound of the model on the requests buffered

Modules == Handlers \ {RootHandler}

ASSUME TunnelsAssumption ==
    /\ Commutators \subseteq Modules /\ IsFiniteSet(Commutators)
    /\ RootCommutator \in Commutators
    /\ Attached \in [Commutators -> SUBSET (Modules \ {RootCommutator})]
    /\ \A com, other \in Commutators : com # other => Attached[com] \cap Attached[other] = {}
    /\ SessionsLimit \in Nat \ {0}
    /\ ThreadCounts \subseteq Nat \ {0}
    /\ InboxBound \in Nat \ {0}

VARIABLES
    threads,   \* the number it has: configured when the server starts
    phase,     \* what the conveyor is doing
    inbox,     \* BufferedProtobufTerminal::m_messages of each commutator
    active,    \* BaseModule::m_activeSessons, without
    nulls,     \* the number of its entries 0: tunnels that got no session
    opening    \* the tunnel a commutator has created and not yet opened

tunnelVars == <<threads, phase, inbox, active, nulls, opening>>
vars == <<muxVars, tunnelVars>>

NullId == <<0, 0>>
NoTunnel == [id |-> NullId, module |-> NoHandler]

Requests == [from : SessionIds, open : Modules \cup {NoHandler}, close : SessionIds]
OpenTunnel(id, module) == [from |-> id, open |-> module, close |-> NullId]
CloseTunnel(id, tunnel) == [from |-> id, open |-> NoHandler, close |-> tunnel]

LiveSessions(module) ==
    {SessionId(p) : p \in {q \in Positions : sess[q].handler = module}}

TunnelsInit ==
    /\ Init
    /\ threads \in ThreadCounts
    /\ phase = "receive"
    /\ inbox = [com \in Commutators |-> <<>>]
    /\ active = [module \in Modules |-> {}]
    /\ nulls = [module \in Modules |-> 0]
    /\ opening = [com \in Commutators |-> NoTunnel]

-----------------------------------------------------------------------------
(* mutant: the module is not told *)
HandlersNotNotified == UNCHANGED active

(* IPlayerTerminal::onSessionClosed: each session that dies in a step of
   SessionMux is reported to its handler within that step. *)
HandlersNotified ==
    active' = [module \in Modules |->
                  active[module] \ {SessionId(p) :
                      p \in {q \in Positions : sess[q].handler = module
                                               /\ sess'[q].handler = NoHandler}}]

(* The steps of SessionMux that the main thread takes: logins, requests to
   close a session, silent connections *)
MainThreadStep ==
    /\ phase = "receive"
    /\ \/ \E c \in Connections : AddConnection(c) \/ CloseConnection(c)
       \/ \E c \in Connections, id \in KnownIds : OnCloseRequest(c, id)
    /\ HandlersNotified
    /\ UNCHANGED <<threads, phase, inbox, nulls, opening>>

(* The thread that closes a connection goes on with it. *)
ClosingStep ==
    /\ CloseNextSession \/ ConnectionClosed
    /\ HandlersNotified
    /\ UNCHANGED <<threads, phase, inbox, nulls, opening>>

(* RootSession::open_commutator_session: the message is handled as soon as it
   is received, and the root commutator is not asked for its consent. *)
OpenCommutatorSession(c, id) ==
    /\ phase = "receive"
    /\ udp[c] /\ Names(id) /\ sess[id[1]].conn = c /\ sess[id[1]].handler = RootHandler
    /\ CreateSession(id, RootCommutator)
    /\ UNCHANGED <<threads, phase, inbox, active, nulls, opening>>

(* A request for a commutator is received over a live session of it and is
   buffered. *)
BufferRequest(c, id) ==
    /\ phase = "receive"
    /\ OnMessageReceived(c, id)
    /\ Names(id) /\ sess[id[1]].handler \in Commutators
    /\ LET com == sess[id[1]].handler
       IN  /\ Len(inbox[com]) < InboxBound
           /\ \E request \in {OpenTunnel(id, module) : module \in Attached[com]}
                             \cup {CloseTunnel(id, tunnel) : tunnel \in KnownIds} :
                 inbox' = [inbox EXCEPT ![com] = Append(@, request)]
    /\ UNCHANGED <<threads, phase, active, nulls, opening>>

(* The conveyor starts and ends a stage; requests with a timestamp in the
   future stay buffered. *)
BeginWork ==
    /\ Idle /\ ~destroyed
    /\ phase = "receive"
    /\ phase' = "work"
    /\ UNCHANGED <<muxVars, threads, inbox, active, nulls, opening>>

EndWork ==
    /\ Idle
    /\ phase = "work"
    /\ \A com \in Commutators : opening[com] = NoTunnel
    /\ phase' = "receive"
    /\ UNCHANGED <<muxVars, threads, inbox, active, nulls, opening>>

(* A free thread takes the next request of com *)
Takes(com) ==
    /\ phase = "work"
    /\ inbox[com] # <<>> /\ opening[com] = NoTunnel
    /\ Cardinality({other \in Commutators : opening[other] # NoTunnel}) < threads
    /\ inbox' = [inbox EXCEPT ![com] = Tail(@)]

(* BaseModule::canOpenSession *)
CanOpenSession(module) == Cardinality(active[module]) + nulls[module] < SessionsLimit

(* onOpenTunnelRequest: refused, or the session is created; if SessionMux has
   no index left the tunnel has the id 0 *)
OnOpenTunnelRequest(com) ==
    /\ Takes(com)
    /\ LET request == Head(inbox[com])
       IN  /\ request.open # NoHandler
           /\ \/ /\ ~CanOpenSession(request.open)
                 /\ Idle
                 /\ UNCHANGED <<muxVars, opening>>
              \/ /\ CanOpenSession(request.open)
                 /\ CreateSession(request.from, request.open)
                 /\ opening' = IF abort' # "none" THEN opening ELSE
                        [opening EXCEPT ![com] =
                            [id |-> IF list' = list THEN NullId
                                    ELSE LET c == sess[request.from[1]].conn
                                         IN  list'[c][Len(list'[c])],
                             module |-> request.open]]
    /\ UNCHANGED <<threads, phase, active, nulls>>

HasRoom(module) == Cardinality(active[module]) + nulls[module] < SessionsLimit

(* ... and then the module is told of it: BaseModule::openSession, which
   asserts that the limit is still not reached *)
OpenSession(com) ==
    /\ abort = "none"
    /\ opening[com] # NoTunnel
    /\ LET module == opening[com].module
           id == opening[com].id
       IN  /\ active' = [active EXCEPT ![module] =
                            IF HasRoom(module) /\ id # NullId THEN @ \cup {id} ELSE @]
           /\ nulls' = [nulls EXCEPT ![module] =
                            IF HasRoom(module) /\ id = NullId THEN @ + 1 ELSE @]
           /\ abort' = IF HasRoom(module) THEN abort ELSE "openSession"
    /\ opening' = [opening EXCEPT ![com] = NoTunnel]
    /\ UNCHANGED <<table, up, list, udp, job, destroyed, threads, phase, inbox>>

(* onCloseTunnelRequest: whichever session asks *)
OnCloseTunnelRequest(com) ==
    /\ Takes(com)
    /\ LET request == Head(inbox[com])
       IN  /\ request.open = NoHandler
           /\ CloseSession(request.close)
    /\ HandlersNotified
    /\ UNCHANGED <<threads, phase, nulls, opening>>

Stopped == abort # "none" /\ UNCHANGED vars

TunnelsNext ==
    \/ MainThreadStep
    \/ ClosingStep
    \/ \E c \in Connections, id \in KnownIds :
          OpenCommutatorSession(c, id) \/ BufferRequest(c, id)
    \/ BeginWork
    \/ EndWork
    \/ \E com \in Commutators :
          \/ OnOpenTunnelRequest(com)
          \/ OpenSession(com)
          \/ OnCloseTunnelRequest(com)
    \/ Stopped

TunnelsSpec == TunnelsInit /\ [][TunnelsNext]_vars

-----------------------------------------------------------------------------
(* Properties *)

TunnelsTypeOK ==
    /\ TypeOK
    /\ threads \in ThreadCounts
    /\ phase \in {"receive", "work"}
    /\ inbox \in [Commutators -> Seq(Requests)]
    /\ active \in [Modules -> SUBSET SessionIds]
    /\ nulls \in [Modules -> Nat]
    /\ opening \in [Commutators -> [id : SessionIds, module : Modules \cup {NoHandler}]]

(* Every live tunnel of a module is in its m_activeSessons, or the commutator
   that created it is about to put it there, whatever the threads do: so
   closeActiveSessions misses none, and the limit counts all of them. *)
TunnelsAreCounted ==
    \A module \in Modules \ {RootCommutator} :
        LiveSessions(module) \subseteq
            active[module] \cup {opening[com].id : com \in
                                    {x \in Commutators : opening[x].module = module}}

(* A module behind a commutator never has more live sessions than
   nSessionsPerModuleLimit, although canOpenSession, createSession and
   openSession are separate calls. *)
TunnelsLimit ==
    \A module \in Modules \ {RootCommutator} :
        Cardinality(LiveSessions(module)) <= SessionsLimit

(* A module counts no session that is already closed (such an id would occupy
   one of its nSessionsPerModuleLimit places for ever): with one thread, every
   session reported to a module by openSession is still alive or has been
   reported to it by onSessionClosed. *)
NoDeadSessionCounted ==
    threads = 1 => \A module \in Modules : active[module] \subseteq LiveSessions(module)

(* Modules and SessionMux agree on the tunnels, although none of them is called
   under the mutex of the other. *)
TunnelsAreExact ==
    TunnelsTypeOK /\ TunnelsAreCounted /\ NoDeadSessionCounted /\ TunnelsLimit

(* The assertion of createSession, "Invalid parent session": the session over
   which a tunnel was asked for is alive when the request is handled. *)
ParentSessionAssertion == abort # "createSession"
=============================================================================
