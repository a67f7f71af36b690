----------------------------- MODULE SessionMux -----------------------------
(***************************************************************************)
(* network::SessionMux: the table of a player's connections and of the     *)
(* sessions multiplexed over them.  A session id is a pair of an index in  *)
(* the table (16 bits) and a random token (16 bits) that changes every     *)
(* time the index is reused.  The first session of a connection is its     *)
(* root session: closing it closes the connection and all its sessions.    *)
(*                                                                         *)
(* Two things about the code shape the model.  m_mutex is held for a whole *)
(* operation, but closing a connection is a loop that calls back into the  *)
(* handlers and sends messages, so it is modelled as a `job` of one step   *)
(* per session; the operations that take m_mutex wait for the job to end.  *)
(* And the server is built with assertions, so a failed assertion (or a    *)
(* call through a null handler) ends the process: it is recorded in        *)
(* `abort`, after which nothing happens.                                   *)
(***************************************************************************)
EXTENDS Integers, Sequences, Functions

CONSTANTS
    ConnLimit,    \* nConnectionsLimit: the connection ids are 0..ConnLimit-1
    IndexSpan,    \* the number of 16-bit indexes (2^16 in the code)
    SizeBound,    \* bound of the model on m_sessions.size()
    ListBound,    \* bound of the model on the length of Connection.m_sessions
    Tokens,       \* the non-zero tokens
    Handlers,     \* the terminals sessions are bound to
    RootHandler,  \* the player's RootSession
    NoHandler     \* nullptr

ASSUME MuxAssumption ==
    /\ ConnLimit \in Nat \ {0}
    /\ IndexSpan \in Nat \ {0, 1}
    /\ SizeBound \in Nat \ {0}
    /\ SizeBound <= 2 * IndexSpan
    /\ ListBound \in Nat \ {0}
    /\ 0 \notin Tokens
    /\ RootHandler \in Handlers
    /\ NoHandler \notin Handlers

VARIABLES
    size,       \* m_sessions.size()
    sess,       \* m_sessions: the session at each position of the table
    reuse,      \* m_indexesToReuse
    up,         \* Connection::m_lUp
    list,       \* Connection::m_sessions
    udp,        \* the persistent session of the player's UdpSocket is in use
    job,        \* the connections being closed under m_mutex
    abort,      \* the assertion that ended the process, or "none"
    destroyed   \* the player is being destroyed

table == <<size, sess, reuse>>
muxVars == <<size, sess, reuse, up, list, udp, job, abort, destroyed>>

Connections == 0 .. ConnLimit - 1
Positions == 0 .. SizeBound - 1
Indexes == 0 .. IndexSpan - 1
SessionIds == Indexes \X (Tokens \cup {0})
Aborts == {"none", "isRootSession", "invalidSessionId", "createSession", "nullHandler",
           "openSession"}   \* the last one is an assertion of BaseModule: see Tunnels

NoJob == [conn |-> -1, more |-> {}, rest |-> <<>>, byServer |-> FALSE]

Dead(token) == [token |-> token, conn |-> 0, handler |-> NoHandler]

-----------------------------------------------------------------------------
(* Session::m_nIndex is the position in the table, cast to 16 bits *)
Index(p) == IF p < IndexSpan THEN p ELSE p - IndexSpan

(* Session::sessionId() and Session::isValid() *)
SessionId(p) == <<Index(p), sess[p].token>>
IsValid(p) == sess[p].handler # NoHandler

(* The ids a client has been told: of every session in the table, and of the
   earlier sessions of an index that connections still list. *)
KnownIds ==
    {SessionId(p) : p \in 1 .. size - 1} \cup UNION {Range(list[c]) : c \in Connections}

(* The session that an id names is looked up by the index part alone. *)
Names(id) == id[1] < size /\ IsValid(id[1]) /\ SessionId(id[1]) = id

(* No operation holds m_mutex, and the process is alive. *)
Idle == job = NoJob /\ abort = "none"

Closing(c) == job.conn = c

-----------------------------------------------------------------------------
Init ==
    /\ size = 1
    /\ sess = [p \in Positions |-> Dead(0)]
    /\ reuse = <<>>
    /\ up = [c \in Connections |-> FALSE]
    /\ list = [c \in Connections |-> <<>>]
    /\ udp = [c \in Connections |-> FALSE]
    /\ job = NoJob
    /\ abort = "none"
    /\ destroyed = FALSE

(* A failed assertion: the process is gone *)
Abort(what) ==
    /\ abort' = what
    /\ UNCHANGED <<table, up, list, udp, job, destroyed>>

(* The client logs in (AccessPanel): UdpSocket::createPersistentSession takes
   the first free UDP session, addConnection appends the root session to the
   table, at an index that has never been used before. *)
AddConnection(c) ==
    /\ Idle /\ ~destroyed
    /\ ~udp[c] /\ \A d \in Connections : d < c => udp[d]
    /\ size < SizeBound
    /\ \E token \in Tokens :
          /\ sess' = [sess EXCEPT ![size] =
                        [token |-> token, conn |-> c, handler |-> RootHandler]]
          /\ list' = [list EXCEPT ![c] = Append(@, <<Index(size), token>>)]
    /\ size' = size + 1
    /\ udp' = [udp EXCEPT ![c] = TRUE]
    /\ up' = [up EXCEPT ![c] = TRUE]
    /\ UNCHANGED <<reuse, job, abort, destroyed>>

(* mutant: the connection does not get to know its new session *)
ReviveUnlisted(p, c, handler) ==
    \E token \in Tokens \ {sess[p].token} :
        /\ sess' = [sess EXCEPT ![p] = [token |-> token, conn |-> c, handler |-> handler]]
        /\ UNCHANGED list

(* Session::revive: position p starts a new session of connection c *)
Revive(p, c, handler) ==
    \E token \in Tokens \ {sess[p].token} :
        /\ sess' = [sess EXCEPT ![p] = [token |-> token, conn |-> c, handler |-> handler]]
        /\ list' = [list EXCEPT ![c] = Append(@, <<Index(p), token>>)]

(* occupyIndex() and revive(), for a parent that is alive *)
ReuseIndex(c, handler) ==
    /\ reuse # <<>>
    /\ Revive(reuse[Len(reuse)], c, handler)
    /\ reuse' = SubSeq(reuse, 1, Len(reuse) - 1)
    /\ UNCHANGED size

GrowTable(c, handler) ==
    /\ reuse = <<>>
    /\ size < IndexSpan - 1 /\ size < SizeBound
    /\ Revive(size, c, handler)
    /\ size' = size + 1
    /\ UNCHANGED reuse

NoIndexLeft ==
    /\ reuse = <<>>
    /\ size >= IndexSpan - 1
    /\ UNCHANGED <<table, list>>

(* createSession: a new session on the connection of its parent *)
CreateSession(parent, handler) ==
    /\ Idle /\ ~destroyed
    /\ \/ /\ ~Names(parent)
          /\ Abort("createSession")
       \/ /\ Names(parent)
          /\ LET c == sess[parent[1]].conn
             IN  /\ Len(list[c]) < ListBound
                 /\ \/ ReuseIndex(c, handler)
                    \/ GrowTable(c, handler)
                    \/ NoIndexLeft
          /\ UNCHANGED <<up, udp, job, abort, destroyed>>

(* Session::die, and the index becomes free *)
Die(p) ==
    /\ sess' = [sess EXCEPT ![p] = Dead(sess[p].token)]
    /\ reuse' = Append(reuse, Index(p))
    /\ UNCHANGED <<size, abort>>

(* mutant: a dead session is closed again *)
CloseSessionTwice(id) ==
    \/ /\ id[1] = 0 \/ id[1] >= size
       /\ abort' = "invalidSessionId"
       /\ UNCHANGED table
    \/ /\ id[1] # 0 /\ id[1] < size
       /\ IF SessionId(id[1]) = id THEN Die(id[1]) ELSE UNCHANGED <<table, abort>>

(* mutant: the token of the id is not compared *)
CloseSessionByIndex(id) ==
    \/ /\ id[1] = 0 \/ id[1] >= size
       /\ abort' = "invalidSessionId"
       /\ UNCHANGED table
    \/ /\ id[1] # 0 /\ id[1] < size
       /\ IF IsValid(id[1]) THEN Die(id[1]) ELSE UNCHANGED <<table, abort>>

(* closeSessionLocked and onSessionClosedLocked: the first one also sends
   closed_ind to the client.  What is left unchanged by the caller is up to
   the caller. *)
CloseSessionLocked(id) ==
    \/ /\ id[1] = 0 \/ id[1] >= size
       /\ abort' = "invalidSessionId"
       /\ UNCHANGED table
    \/ /\ id[1] # 0 /\ Names(id)
       /\ Die(id[1])
    \/ /\ id[1] # 0 /\ id[1] < size /\ ~Names(id)
       /\ UNCHANGED <<table, abort>>

(* Take m_mutex and close these connections, in the order of their ids *)
StartClosing(connections, byServer) ==
    \/ /\ connections = {}
       /\ job' = NoJob
    \/ \E c \in connections :
          /\ \A d \in connections : c <= d
          /\ job' = [conn |-> c, more |-> connections \ {c},
                     rest |-> list[c], byServer |-> byServer]

(* closeSession: asked by the client (ISessionControl.close, close_tunnel) or
   by a module.  Whether the session is a root one is decided by the session
   found at the index, whatever the token. *)
CloseSession(id) ==
    /\ Idle /\ ~destroyed
    /\ id[1] < size
    /\ LET c == sess[id[1]].conn
       IN  \/ /\ ~up[c]
              /\ Abort("isRootSession")
           \/ /\ up[c] /\ list[c][1] = SessionId(id[1])
              /\ StartClosing({c}, TRUE)
              /\ UNCHANGED <<table, up, list, udp, abort, destroyed>>
           \/ /\ up[c] /\ list[c][1] # SessionId(id[1])
              /\ CloseSessionLocked(id)
              /\ UNCHANGED <<up, list, udp, job, destroyed>>

(* Socket::onMessageReceived, ISessionControl.close from the client: any of
   its sessions may be closed over any of its connections *)
OnCloseRequest(c, id) ==
    /\ udp[c]
    /\ CloseSession(id)

(* closeConnection, called by checkConnectionsActivity for a silent client *)
CloseConnection(c) ==
    /\ Idle /\ ~destroyed
    /\ up[c]
    /\ StartClosing({c}, TRUE)
    /\ UNCHANGED <<table, up, list, udp, abort, destroyed>>

(* markAllConnectionsAsClosed, called when the player is unlinked *)
MarkAllConnectionsAsClosed ==
    /\ Idle /\ ~destroyed
    /\ destroyed' = TRUE
    /\ StartClosing({c \in Connections : up[c]}, FALSE)
    /\ UNCHANGED <<table, up, list, udp, abort>>

(* One turn of the loop over the sessions of the connection being closed *)
CloseNextSession ==
    /\ job # NoJob /\ job.rest # <<>> /\ abort = "none"
    /\ CloseSessionLocked(Head(job.rest))
    /\ job' = [job EXCEPT !.rest = Tail(@)]
    /\ UNCHANGED <<up, list, udp, destroyed>>

(* mutant: only one connection is marked as closed *)
ConnectionClosedOnlyOne ==
    /\ job # NoJob /\ job.rest = <<>> /\ abort = "none"
    /\ up' = [up EXCEPT ![job.conn] = FALSE]
    /\ list' = [list EXCEPT ![job.conn] = <<>>]
    /\ udp' = [udp EXCEPT ![job.conn] = ~job.byServer]
    /\ job' = NoJob
    /\ UNCHANGED <<table, abort, destroyed>>

(* Connection::closed() after the loop, and then the UDP session is freed if
   it is the server that closes the connection *)
ConnectionClosed ==
    /\ job # NoJob /\ job.rest = <<>> /\ abort = "none"
    /\ LET c == job.conn
       IN  /\ up' = [up EXCEPT ![c] = FALSE]
           /\ list' = [list EXCEPT ![c] = <<>>]
           /\ udp' = [udp EXCEPT ![c] = ~job.byServer]
    /\ StartClosing(job.more, job.byServer)
    /\ UNCHANGED <<table, abort, destroyed>>

(* Socket::onMessageReceived, a message that is not ISessionControl: passed to
   the handler of the session if the session belongs to the connection. *)
OnMessageReceived(c, id) ==
    /\ Idle /\ ~destroyed
    /\ udp[c]
    /\ id[1] < size /\ sess[id[1]].conn = c /\ SessionId(id[1]) = id
    /\ \/ /\ IsValid(id[1])
          /\ UNCHANGED muxVars
       \/ /\ ~IsValid(id[1])
          /\ Abort("nullHandler")

(* The process has ended, or the player is gone *)
Halted ==
    /\ abort # "none" \/ (destroyed /\ Idle)
    /\ UNCHANGED muxVars

Next ==
    \/ \E c \in Connections : AddConnection(c) \/ CloseConnection(c)
    \/ \E id \in KnownIds, handler \in Handlers : CreateSession(id, handler)
    \/ \E c \in Connections, id \in KnownIds :
          OnMessageReceived(c, id) \/ OnCloseRequest(c, id)
    \/ CloseNextSession
    \/ ConnectionClosed
    \/ MarkAllConnectionsAsClosed
    \/ Halted

Spec == Init /\ [][Next]_muxVars

-----------------------------------------------------------------------------
(* Properties *)

TypeOK ==
    /\ size \in 1 .. SizeBound
    /\ sess \in [Positions -> [token   : Tokens \cup {0},
                              conn    : Connections,
                              handler : Handlers \cup {NoHandler}]]
    /\ reuse \in Seq(Indexes)
    /\ up \in [Connections -> BOOLEAN]
    /\ list \in [Connections -> Seq(SessionIds)]
    /\ udp \in [Connections -> BOOLEAN]
    /\ job \in [conn     : Connections \cup {-1},
               more     : SUBSET Connections,
               rest     : Seq(SessionIds),
               byServer : BOOLEAN]
    /\ abort \in Aborts
    /\ destroyed \in BOOLEAN

(* "If root session is closed, all other sessions will be closed as well"
   (SessionMux.h): a live session always belongs to an open connection that
   lists it, and while that connection is being closed the session is still
   ahead of the loop; none outlives its connection. *)
NoOrphanSessions ==
    \A p \in 1 .. size - 1 :
        IsValid(p) =>
            LET c == sess[p].conn
            IN  /\ up[c]
                /\ SessionId(p) \in Range(list[c])
                /\ Closing(c) => SessionId(p) \in Range(job.rest)

(* Connection::getRootSession() of an open connection names a live session of
   that very connection, and closing another connection never takes it away
   (its index is new, so no stale entry of another connection can match it). *)
RootSessionAlive ==
    \A c \in Connections :
        up[c] /\ ~Closing(c) =>
            /\ list[c] # <<>>
            /\ Names(list[c][1])
            /\ sess[list[c][1][1]].conn = c

(* m_indexesToReuse holds each index of a dead session once and no other:
   no index leaks, and no index is handed out while its session is alive. *)
FreeIndexesExact ==
    /\ \A i, j \in DOMAIN reuse : i # j => reuse[i] # reuse[j]
    /\ Range(reuse) = {p \in 1 .. size - 1 : ~IsValid(p)}

(* The UDP session of a connection is in use exactly as long as the
   connection is open, so that the assertions of addConnection ("Has
   connection been closed?") hold for the UDP session that a login gets. *)
UdpMatchesConnection ==
    ~destroyed => \A c \in Connections :
        /\ udp[c] = up[c]
        /\ ~up[c] => list[c] = <<>>

(* ~SessionMux asserts that no session is alive: once every connection is
   marked as closed there is none. *)
DestructorIsClean ==
    destroyed /\ job = NoJob /\ abort = "none" =>
        \A p \in Positions : ~IsValid(p)

(* Connections, their root sessions, their UDP sessions and the destruction of
   the player agree, in whichever order connections are opened and closed. *)
ConnectionsAreExact == TypeOK /\ RootSessionAlive /\ UdpMatchesConnection /\ DestructorIsClean

(* When a session dies, the UDP session of its connection is still open: the
   closed_ind that closeSessionLocked sends just before can leave. *)
ClosedIndCanLeave ==
    [][\A p \in Positions :
          IsValid(p) /\ ~IsValid(p)' => udp[sess[p].conn]]_muxVars

(* A message for a closed session does not reach a handler: there is none
   (OldCommutatorTests: "try to send yet another request (should fail)"). *)
NoCallThroughNull == abort # "nullHandler"

(* Connections keep the ids of sessions closed long ago, whose indexes others
   use now.  As long as no two connections list the same id (generateToken has
   not drawn a token twice for an index), closing a connection closes no
   session of another one. *)
ClosesOwnSessionsOnly ==
    [][job # NoJob
       /\ (\A c, d \in Connections : c # d => Range(list[c]) \cap Range(list[d]) = {})
       => \A p \in Positions : IsValid(p) /\ ~IsValid(p)' => sess[p].conn = job.conn]_muxVars

(* A session is closed only for its own connection, and its owner is told: the
   closed_ind leaves before the UDP session is closed. *)
ClosingIsExact == ClosedIndCanLeave /\ ClosesOwnSessionsOnly
=============================================================================
