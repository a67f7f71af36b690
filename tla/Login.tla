------------------------------- MODULE Login -------------------------------
(***************************************************************************)
(* Players log in.  A client sends a login request to the login socket,    *)
(* which is promiscuous: each datagram takes a slot until it is answered.  *)
(* AccessPanel gives the client a persistent session of the player's own   *)
(* socket, which is created with the first login.  Datagrams are buffered  *)
(* when they are received and handled in a later stage of the cycle, or    *)
(* much later when they have a timestamp.                                  *)
(*                                                                         *)
(* The table m_sessions of network::UdpSocket comes first, for the admin   *)
(* socket (AdminLogin) too: the first Persistent slots are given to        *)
(* clients that have logged in, the others (of a socket in promiscuous     *)
(* mode) each to one datagram of a client that has not, until it is        *)
(* answered.                                                               *)
(***************************************************************************)
EXTENDS Naturals, FiniteSets

CONSTANTS
    Persistent,   \* nPersistentSessionsLimit
    Total,        \* nSessionsLimit
    Addresses,    \* addresses of clients
    BufferBound,  \* bound of the models on the datagrams that wait
    Players,      \* players in PlayersStorage
    PortsLimit    \* ports that UdpDispatcher may give to sockets of players

Free == "free"    \* udp::endpoint()
None == 0         \* no slot

Lowest(S) == IF S = {} THEN None ELSE CHOOSE i \in S : \A j \in S : i <= j

NoSessions == [i \in 1..Total |-> Free]

(* mutant: a slot that is in use is given away *)
PersistentSlotInUse(slots) == Lowest(1..Persistent)

(* createPersistentSession: the first free slot *)
PersistentSlot(slots) == Lowest({i \in 1..Persistent : slots[i] = Free})

(* onDataReceived: the session of the sender, or a slot for this datagram *)
SenderSlot(slots, e) == Lowest({i \in 1..Persistent : slots[i] = e})
PromiscuousSlot(slots) == Lowest({i \in Persistent + 1..Total : slots[i] = Free})
Slot(slots, e) == IF SenderSlot(slots, e) # None THEN SenderSlot(slots, e)
                  ELSE PromiscuousSlot(slots)

(* mutant: the slot is freed by closeSession only *)
AfterSendKept(slots, i) == slots

(* send: a promiscuous slot is freed once the answer is sent *)
AfterSend(slots, i) == IF i > Persistent THEN [slots EXCEPT ![i] = Free] ELSE slots

(* closeSession *)
AfterClose(slots, i) == [slots EXCEPT ![i] = Free]

-----------------------------------------------------------------------------
(* The login socket and the sockets of players *)

NoPlayer == "nobody"

ASSUME LoginAssumption ==
    /\ Persistent \in Nat \ {0} /\ Total \in Nat /\ Persistent < Total
    /\ PortsLimit \in Nat
    /\ Free \notin Addresses

VARIABLES
    lslots,    \* m_sessions of the login socket
    pslots,    \* m_sessions of the socket of each player
    sockets,   \* players that have a socket
    lbuffer,   \* AccessPanel's m_messages; `from` is who sent the datagram
    unowed     \* slots taken by datagrams that nobody is going to answer

loginVars == <<lslots, pslots, sockets, lbuffer, unowed>>

LoginInit ==
    /\ lslots = NoSessions
    /\ pslots = [p \in Players |-> NoSessions]
    /\ sockets = {}
    /\ lbuffer = {}
    /\ unowed = {}

(* UdpSocket::onDataReceived, ProtobufChannel::onMessageReceived: a datagram
   that can not be parsed is dropped, and the slot it took is not freed. *)
ReceiveLogin(e, kind, p) ==
    LET i == Slot(lslots, e)
    IN  /\ i # None
        /\ lslots' = [lslots EXCEPT ![i] = e]
        /\ \/ /\ kind = "unparsable"
              /\ unowed' = unowed \cup {i}
              /\ UNCHANGED lbuffer
           \/ /\ kind # "unparsable" /\ Cardinality(lbuffer) < BufferBound
              /\ lbuffer' = lbuffer \cup {[slot |-> i, kind |-> kind, player |-> p, from |-> e]}
              /\ UNCHANGED unowed
        /\ UNCHANGED <<pslots, sockets>>

(* mutant: a message that is not for the access panel is ignored *)
NotALoginIgnored(slots, i) == slots

(* A message that is not for the access panel closes its session. *)
NotALogin(slots, i) == AfterClose(slots, i)

(* A login with the right password: UdpDispatcher::createUdpSocket if the player
   has no socket and there is a port left, createPersistentSession and
   Player::onNewConnection, or a refusal. *)
GetSocket(p) ==
    IF p \in sockets \/ Cardinality(sockets) = PortsLimit THEN sockets ELSE sockets \cup {p}

Grant(p, e) ==
    /\ sockets' = GetSocket(p)
    /\ LET i == PersistentSlot(pslots[p])
       IN  pslots' = IF p \notin sockets' \/ i = None THEN pslots
                     ELSE [pslots EXCEPT ![p][i] = e]

(* AccessPanel::handleMessage; refusals and grants are answered *)
HandleLogin(d) ==
    /\ lbuffer' = lbuffer \ {d}
    /\ \/ /\ d.kind = "other"
          /\ lslots' = NotALogin(lslots, d.slot)
          /\ UNCHANGED <<pslots, sockets>>
       \/ /\ d.kind = "wrong"
          /\ lslots' = AfterSend(lslots, d.slot)
          /\ UNCHANGED <<pslots, sockets>>
       \/ /\ d.kind = "login"
          /\ Grant(d.player, lslots[d.slot])
          /\ lslots' = AfterSend(lslots, d.slot)
    /\ UNCHANGED unowed

(* The connection is closed, by the client or for its silence:
   SessionMux::closeConnectionLocked frees the slot. *)
Disconnect(p, i) ==
    /\ pslots[p][i] # Free
    /\ pslots' = [pslots EXCEPT ![p] = AfterClose(@, i)]
    /\ UNCHANGED <<lslots, sockets, lbuffer, unowed>>

LoginMessages ==
    ({"wrong", "other", "unparsable"} \X {NoPlayer}) \cup ({"login"} \X Players)

LoginNext ==
    \/ \E e \in Addresses, m \in LoginMessages : ReceiveLogin(e, m[1], m[2])
    \/ \E d \in lbuffer : HandleLogin(d)
    \/ \E p \in Players, i \in 1..Persistent : Disconnect(p, i)

LoginSpec == LoginInit /\ [][LoginNext]_loginVars

(* AccessPanel::prephare handles what is buffered, once its time has come. *)
HandleSlot(i) == \E d \in lbuffer : d.slot = i /\ HandleLogin(d)

-----------------------------------------------------------------------------
(* A slot of the login socket is held by exactly the datagrams that are still
   to be answered, and by those that could not be parsed; each answer goes to
   the client that asked, although slots are reused and requests wait. *)
LoginSlotsAreOwed ==
    /\ {i \in 1..Total : lslots[i] # Free} = {d.slot : d \in lbuffer} \cup unowed
    /\ \A d \in lbuffer : lslots[d.slot] = d.from /\ d.slot \notin unowed
                          /\ \A other \in lbuffer : other.slot = d.slot => other = d

(* A slot taken by a message is given back in the end, whatever the message
   was and whatever the answer is. *)
LoginSlotsReturn ==
    \A i \in 1..Total : (\E d \in lbuffer : d.slot = i) ~> (lslots[i] = Free)
=============================================================================
