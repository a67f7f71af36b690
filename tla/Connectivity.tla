---------------------------- MODULE Connectivity ----------------------------
(***************************************************************************)
(* How the server notices that a client is gone: UdpSocket's persistent    *)
(* sessions (one per connection, found by the sender's endpoint), the      *)
(* login that opens them (AccessPanel) and                                 *)
(* SessionMux::checkConnectionsActivity, which runs every few milliseconds *)
(* in the main thread, sends heartbeats and closes silent connections.     *)
(*                                                                         *)
(* Time is discrete and only its differences matter, so the two timestamps *)
(* of a connection are kept as ages.  The clients in Responsive follow     *)
(* the protocol: they send every heartbeat back, and the echo of one is    *)
(* received within RoundTrip.  Any other client may send or be silent as   *)
(* it likes, and its datagrams may get lost.                               *)
(***************************************************************************)
EXTENDS Integers, Sequences, FiniteSets

CONSTANTS
    ConnLimit,          \* nPersistentSessionsLimit
    Endpoints,          \* the addresses of the clients
    NoEndpoint,         \* udp::endpoint(): the slot is free
    Responsive,         \* the clients that send heartbeats back
    HeartbeatTimeout,   \* heartbeatTimeoutUs
    DisconnectTimeout,  \* disconnectTimeoutUs
    CheckPeriod,        \* the longest time between two checks
    RoundTrip,          \* the longest time between a heartbeat and its echo
    SharedEndpoints,    \* the endpoints from which a client may log in twice
    AgeBound            \* the age at which sinceHeartbeat saturates

ASSUME ConnectivityAssumption ==
    /\ ConnLimit \in Nat \ {0}
    /\ NoEndpoint \notin Endpoints
    /\ Responsive \subseteq Endpoints
    /\ HeartbeatTimeout \in Nat \ {0}
    /\ DisconnectTimeout \in Nat \ {0}
    /\ CheckPeriod \in Nat \ {0}
    /\ RoundTrip \in Nat
    /\ AgeBound \in Nat
    /\ SharedEndpoints \subseteq Endpoints

(* The periods leave room for two heartbeats before the disconnection. *)
ASSUME PeriodsAssumption ==
    /\ HeartbeatTimeout + CheckPeriod <= AgeBound
    /\ 2 * (HeartbeatTimeout + CheckPeriod) < DisconnectTimeout
    /\ HeartbeatTimeout + CheckPeriod + RoundTrip < DisconnectTimeout

VARIABLES
    remote,          \* UdpSocket::m_sessions, of the persistent sessions
    silence,         \* the time since m_nLastMessageReceivedAt
    sinceHeartbeat,  \* the time since m_nLastHeartbeatSentAt
    sinceCheck,      \* the time since the last checkConnectionsActivity
    echoes,          \* the ages of the heartbeats that an echo is to come for
    missed           \* how many heartbeats were sent since the last message

vars == <<remote, silence, sinceHeartbeat, sinceCheck, echoes, missed>>

Connections == 0 .. ConnLimit - 1
Up(c) == remote[c] # NoEndpoint

Init ==
    /\ remote = [c \in Connections |-> NoEndpoint]
    /\ silence = [c \in Connections |-> 0]
    /\ sinceHeartbeat = [c \in Connections |-> 0]
    /\ sinceCheck = 0
    /\ echoes = [e \in Endpoints |-> {}]
    /\ missed = [c \in Connections |-> 0]

-----------------------------------------------------------------------------
(* Ages saturate where a comparison can no longer change. *)
SilenceBound == DisconnectTimeout + HeartbeatTimeout + CheckPeriod
Older(age, bound) == IF age < bound THEN age + 1 ELSE age

(* AccessPanel::handleMessage with createPersistentSession and addConnection:
   the first free slot; nothing looks for an older connection of the endpoint. *)
Login(e) ==
    /\ e \in SharedEndpoints \/ \A c \in Connections : remote[c] # e
    /\ \E c \in Connections :
          /\ ~Up(c) /\ \A d \in Connections : d < c => Up(d)
          /\ remote' = [remote EXCEPT ![c] = e]
          /\ silence' = [silence EXCEPT ![c] = 0]
          /\ sinceHeartbeat' = [sinceHeartbeat EXCEPT ![c] = 0]
          /\ missed' = [missed EXCEPT ![c] = 0]
    /\ UNCHANGED <<sinceCheck, echoes>>

(* UdpSocket::onDataReceived looks for the first slot with the sender's
   endpoint. *)
Route(e, c) ==
    remote[c] = e /\ \A d \in Connections : d < c => remote[d] # e

(* mutant: the activity is recorded only for messages that reach a session *)
OnMessageLost(c) == UNCHANGED <<silence, missed>>

(* The end of Socket::onMessageReceived: whatever the message was *)
OnMessageReceived(c) ==
    /\ silence' = [silence EXCEPT ![c] = 0]
    /\ missed' = [missed EXCEPT ![c] = 0]

(* The echo of a heartbeat comes back from a client that follows the protocol;
   UDP may reorder echoes. *)
Echo(e) ==
    /\ \E age \in echoes[e] : echoes' = [echoes EXCEPT ![e] = @ \ {age}]
    /\ \/ \E c \in Connections : Route(e, c) /\ OnMessageReceived(c)
       \/ /\ \A c \in Connections : remote[c] # e
          /\ UNCHANGED <<silence, missed>>
    /\ UNCHANGED <<remote, sinceHeartbeat, sinceCheck>>

(* Any other datagram from a client *)
Receive(e) ==
    /\ \E c \in Connections : Route(e, c) /\ OnMessageReceived(c)
    /\ UNCHANGED <<remote, sinceHeartbeat, sinceCheck, echoes>>

(* A client closes the root session of one of its player's connections
   (ISessionControl.close); the connection it came over counts as active. *)
OnCloseRequest(e) ==
    /\ \E c, d \in Connections :
          /\ Route(e, c) /\ Up(d)
          /\ remote' = [remote EXCEPT ![d] = NoEndpoint]
          /\ silence' = [silence EXCEPT ![c] = 0, ![d] = 0]
          /\ missed' = [missed EXCEPT ![c] = 0, ![d] = 0]
          /\ sinceHeartbeat' = [sinceHeartbeat EXCEPT ![d] = 0]
    /\ UNCHANGED <<sinceCheck, echoes>>

(* Connection::isTimeToSendHeartbeat *)
IsTimeToSendHeartbeat(c) ==
    /\ HeartbeatTimeout <= silence[c]
    /\ HeartbeatTimeout <= sinceHeartbeat[c]

(* mutant: the connection is closed without a regard to its heartbeats *)
ToCloseSooner == {c \in Connections : Up(c) /\ silence[c] > 2 * HeartbeatTimeout}

(* mutant: once it is silent for too long, a connection is never closed *)
ToCloseNever == {c \in Connections : FALSE}

(* The connections that checkConnectionsActivity closes, and those it sends a
   heartbeat to *)
ToClose ==
    {c \in Connections : /\ Up(c) /\ IsTimeToSendHeartbeat(c)
                         /\ silence[c] >= DisconnectTimeout}

ToHeartbeat ==
    {c \in Connections : /\ Up(c) /\ IsTimeToSendHeartbeat(c)
                         /\ silence[c] < DisconnectTimeout}

(* checkConnectionsActivity: closing a connection frees its slot
   (UdpSocket::closeSession). *)
CheckConnectionsActivity ==
    /\ remote' = [c \in Connections |-> IF c \in ToClose THEN NoEndpoint ELSE remote[c]]
    /\ silence' = [c \in Connections |-> IF c \in ToClose THEN 0 ELSE silence[c]]
    /\ sinceHeartbeat' = [c \in Connections |->
          IF c \in ToClose \cup ToHeartbeat THEN 0 ELSE sinceHeartbeat[c]]
    /\ missed' = [c \in Connections |->
          IF c \in ToClose THEN 0
          ELSE IF c \in ToHeartbeat THEN missed[c] + 1 ELSE missed[c]]
    /\ echoes' = [e \in Endpoints |->
          IF e \in Responsive /\ \E c \in ToHeartbeat : remote[c] = e
          THEN echoes[e] \cup {0} ELSE echoes[e]]
    /\ sinceCheck' = 0

(* Time passes; echoes and checks are not later than they may be.  The ages of
   closed connections are reset by the next login. *)
Tick ==
    /\ sinceCheck < CheckPeriod
    /\ \A e \in Endpoints : RoundTrip \notin echoes[e]
    /\ sinceCheck' = sinceCheck + 1
    /\ silence' = [c \in Connections |-> IF Up(c) THEN Older(silence[c], SilenceBound) ELSE 0]
    /\ sinceHeartbeat' = [c \in Connections |->
                            IF Up(c) THEN Older(sinceHeartbeat[c], AgeBound) ELSE 0]
    /\ echoes' = [e \in Endpoints |-> {age + 1 : age \in echoes[e]}]
    /\ UNCHANGED <<remote, missed>>

Next ==
    \/ \E e \in Endpoints : Login(e) \/ Echo(e) \/ Receive(e) \/ OnCloseRequest(e)
    \/ CheckConnectionsActivity
    \/ Tick

Spec == Init /\ [][Next]_vars

-----------------------------------------------------------------------------
(* Properties *)

TypeOK ==
    /\ remote \in [Connections -> Endpoints \cup {NoEndpoint}]
    /\ silence \in [Connections -> 0 .. SilenceBound]
    /\ sinceHeartbeat \in [Connections -> 0 .. AgeBound]
    /\ sinceCheck \in 0 .. CheckPeriod
    /\ echoes \in [Endpoints -> SUBSET (0 .. RoundTrip)]
    /\ missed \in [Connections -> Nat]

(* An open connection is never silent for longer than the disconnection
   timeout, one heartbeat timeout (a check that finds a recent heartbeat does
   not look at the silence) and one period of the check: with the code's 1400
   and 400 ms and a check every 10 ms, "if inactivity exceeds 2 seconds, close
   the connection" (SessionMux.h) is kept. *)
SilenceBounded ==
    \A c \in Connections :
        Up(c) => silence[c] < SilenceBound

(* A connection is closed for its silence only when at least two heartbeats
   have been sent since the last message: one lost datagram does not
   disconnect a client. *)
ClosedAfterTwoHeartbeats == \A c \in ToClose : missed[c] >= 2

(* A silent connection is closed neither too late nor too soon. *)
DisconnectedInTime == TypeOK /\ SilenceBounded /\ ClosedAfterTwoHeartbeats

(* A client that sends heartbeats back is never disconnected, provided that it
   has no two connections from one endpoint; what others do does not matter. *)
ResponsiveStaysConnected ==
    \A c \in ToClose : remote[c] \notin Responsive \ SharedEndpoints

(* Every connection is closed or heard from again and again: the slot of a
   client that has vanished is given back. *)
VanishedIsDisconnected ==
    \A c \in Connections : []<>(~Up(c) \/ silence[c] = 0)
=============================================================================
