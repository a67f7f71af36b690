--------------------------- MODULE SessionsProofs ---------------------------
(***************************************************************************)
(* SessionMux for every number of connections, handlers and tokens, and    *)
(* Tunnels for every number of connections, commutators, modules, threads  *)
(* and sessions per module.                                                *)
(*                                                                         *)
(* The safety of the table holds as long as it has not outgrown the 16-bit *)
(* indexes (NoWrap): a login past them gets the index of another session.  *)
(* The inductive invariant has four parts: live sessions are inside of the *)
(* table and not at position 0, none is an orphan, m_indexesToReuse holds  *)
(* the others, and once the player is being destroyed the connections that *)
(* are still open are those that the job is about to close.                *)
(*                                                                         *)
(* Modules and SessionMux agree on the tunnels, although createSession,    *)
(* openSession and onSessionClosed are separate critical sections of two   *)
(* mutexes.                                                                *)
(***************************************************************************)
EXTENDS Tunnels, FiniteSetTheorems, TLAPS
-----------------------------------------------------------------------------
(* SessionMux *)

NoWrap == SizeBound <= IndexSpan

(* Live sessions are at positions 1 .. size - 1 *)
Placed == \A p \in Positions : IsValid(p) => p \in 1 .. size - 1

(* markAllConnectionsAsClosed leaves out no open connection *)
Unlinking ==
    destroyed /\ abort = "none" =>
        \A c \in Connections : up[c] => c = job.conn \/ c \in job.more

MuxInv == TypeOK /\ Placed /\ NoOrphanSessions /\ FreeIndexesExact /\ Unlinking

-----------------------------------------------------------------------------
(* Facts about sequences *)

(* An element of a function is in its range, and the other way round. *)
LEMMA RangeElement ==
    ASSUME NEW f
    PROVE  /\ \A x \in DOMAIN f : f[x] \in Range(f)
           /\ \A y \in Range(f) : \E x \in DOMAIN f : f[x] = y
  BY DEF Range

(* A sequence over a set has its elements from there. *)
LEMMA SeqElement ==
    ASSUME NEW S, NEW s \in Seq(S)
    PROVE  Range(s) \subseteq S
  BY RangeElement

(* Appending adds one element. *)
LEMMA RangeAppend ==
    ASSUME NEW S, NEW s \in Seq(S), NEW x \in S
    PROVE  /\ Append(s, x) \in Seq(S)
           /\ Range(Append(s, x)) = Range(s) \cup {x}
  <1> DEFINE t == Append(s, x)
  <1>1. /\ DOMAIN s = 1 .. Len(s) /\ Len(s) \in Nat
        /\ DOMAIN t = 1 .. Len(s) + 1
        /\ t[Len(s) + 1] = x
        /\ \A i \in 1 .. Len(s) : t[i] = s[i]
        /\ t \in Seq(S)
    OBVIOUS
  <1> HIDE DEF t
  <1>2. ASSUME NEW y \in Range(t) PROVE y \in Range(s) \cup {x}
    <2>1. PICK i \in DOMAIN t : t[i] = y
      BY RangeElement
    <2>2. i = Len(s) + 1 \/ i \in DOMAIN s
      BY <1>1
    <2> QED BY <1>1, <2>1, <2>2, RangeElement
  <1>3. ASSUME NEW y \in Range(s) PROVE y \in Range(t)
    <2>1. PICK i \in DOMAIN s : s[i] = y
      BY RangeElement
    <2>2. i \in DOMAIN t /\ t[i] = y
      BY <1>1, <2>1
    <2> QED BY <2>2, RangeElement
  <1>4. x \in Range(t)
    <2>1. Len(s) + 1 \in DOMAIN t
      BY <1>1
    <2> QED BY <1>1, <2>1, RangeElement
  <1> QED BY <1>1, <1>2, <1>3, <1>4 DEF t

(* Each element is the first one or among the others. *)
LEMMA RangeTail ==
    ASSUME NEW S, NEW s \in Seq(S), s # <<>>
    PROVE  /\ Head(s) \in S /\ Tail(s) \in Seq(S)
           /\ \A y \in Range(s) : y = Head(s) \/ y \in Range(Tail(s))
  <1> DEFINE t == Tail(s)
  <1>1. /\ DOMAIN s = 1 .. Len(s) /\ Len(s) \in Nat \ {0}
        /\ Head(s) = s[1] /\ Head(s) \in S
        /\ t \in Seq(S)
        /\ DOMAIN t = 1 .. Len(s) - 1
        /\ \A i \in 1 .. Len(s) - 1 : t[i] = s[i + 1]
    OBVIOUS
  <1> HIDE DEF t
  <1>2. ASSUME NEW y \in Range(s), y # Head(s) PROVE y \in Range(t)
    <2>1. PICK i \in DOMAIN s : s[i] = y
      BY RangeElement
    <2>2. i - 1 \in DOMAIN t /\ t[i - 1] = y
      BY <1>1, <1>2, <2>1
    <2> QED BY <2>2, RangeElement
  <1> QED BY <1>1, <1>2 DEF t

Distinct(s) == \A i, j \in DOMAIN s : i # j => s[i] # s[j]

(* A new element keeps the elements distinct. *)
LEMMA AppendDistinct ==
    ASSUME NEW S, NEW s \in Seq(S), NEW x \in S, Distinct(s), x \notin Range(s)
    PROVE  Distinct(Append(s, x))
  <1>1. /\ DOMAIN s = 1 .. Len(s) /\ Len(s) \in Nat
        /\ DOMAIN Append(s, x) = 1 .. Len(s) + 1
        /\ Append(s, x)[Len(s) + 1] = x
        /\ \A i \in 1 .. Len(s) : Append(s, x)[i] = s[i]
    OBVIOUS
  <1>2. \A i \in 1 .. Len(s) : s[i] # x
    BY <1>1, RangeElement
  <1> QED BY <1>1, <1>2 DEF Distinct

(* pop_back() takes out one element, if they are distinct. *)
LEMMA PopBack ==
    ASSUME NEW S, NEW s \in Seq(S), s # <<>>, Distinct(s)
    PROVE  LET t == SubSeq(s, 1, Len(s) - 1)
           IN  /\ t \in Seq(S) /\ Distinct(t)
               /\ s[Len(s)] \in Range(s)
               /\ Range(t) = Range(s) \ {s[Len(s)]}
  <1> DEFINE t == SubSeq(s, 1, Len(s) - 1)
  <1>1. /\ DOMAIN s = 1 .. Len(s) /\ Len(s) \in Nat \ {0}
        /\ t \in Seq(S)
        /\ DOMAIN t = 1 .. Len(s) - 1
        /\ \A i \in 1 .. Len(s) - 1 : t[i] = s[i]
    OBVIOUS
  <1> HIDE DEF t
  <1>2. Distinct(t)
    BY <1>1 DEF Distinct
  <1>3. s[Len(s)] \in Range(s)
    <2>1. Len(s) \in DOMAIN s
      BY <1>1
    <2> QED BY <2>1, RangeElement
  <1>4. ASSUME NEW y \in Range(t) PROVE y \in Range(s) \ {s[Len(s)]}
    <2>1. PICK i \in DOMAIN t : t[i] = y
      BY RangeElement
    <2>2. i \in DOMAIN s /\ s[i] = y /\ i # Len(s) /\ Len(s) \in DOMAIN s
      BY <1>1, <2>1
    <2>3. y # s[Len(s)]
      BY <2>2 DEF Distinct
    <2> QED BY <2>2, <2>3, RangeElement
  <1>5. ASSUME NEW y \in Range(s), y # s[Len(s)] PROVE y \in Range(t)
    <2>1. PICK i \in DOMAIN s : s[i] = y
      BY RangeElement
    <2>2. i \in DOMAIN t /\ t[i] = y
      BY <1>1, <1>5, <2>1
    <2> QED BY <2>2, RangeElement
  <1> QED BY <1>1, <1>2, <1>3, <1>4, <1>5 DEF t

-----------------------------------------------------------------------------
(* Type correctness *)

Sessions == [token   : Tokens \cup {0},
             conn    : Connections,
             handler : Handlers \cup {NoHandler}]

Jobs == [conn     : Connections \cup {-1},
         more     : SUBSET Connections,
         rest     : Seq(SessionIds),
         byServer : BOOLEAN]

(* The limits of the table and the handlers. *)
LEMMA ConstantTypes ==
    /\ ConnLimit \in Nat \ {0} /\ IndexSpan \in Nat \ {0, 1}
    /\ SizeBound \in Nat \ {0} /\ SizeBound <= 2 * IndexSpan
    /\ RootHandler \in Handlers /\ NoHandler \notin Handlers
    /\ 0 \in Connections
  BY MuxAssumption DEF Connections

(* The cast of a position to 16 bits is an index, and an index casts to itself. *)
LEMMA IndexType ==
    /\ \A p \in Positions : Index(p) \in Indexes
    /\ \A p \in Indexes : Index(p) = p
  BY ConstantTypes DEF Index, Indexes, Positions

(* An index and a token make an id. *)
LEMMA IdType ==
    ASSUME NEW p \in Positions, NEW token \in Tokens \cup {0}
    PROVE  <<Index(p), token>> \in SessionIds
  BY IndexType DEF SessionIds

(* What clients know are ids. *)
LEMMA KnownIdsType ==
    ASSUME TypeOK
    PROVE  KnownIds \subseteq SessionIds
  <1>1. ASSUME NEW p \in 1 .. size - 1 PROVE SessionId(p) \in SessionIds
    <2>1. p \in Positions
      BY ConstantTypes DEF TypeOK, Positions
    <2> QED BY <2>1, IdType DEF TypeOK, SessionId
  <1>2. ASSUME NEW c \in Connections PROVE Range(list[c]) \subseteq SessionIds
    BY SeqElement DEF TypeOK
  <1> QED BY <1>1, <1>2 DEF KnownIds

(* A session that dies leaves the table well-typed. *)
LEMMA DieType ==
    ASSUME TypeOK, NEW p \in Indexes, Die(p)
    PROVE  /\ size' \in 1 .. SizeBound
           /\ sess' \in [Positions -> Sessions]
           /\ reuse' \in Seq(Indexes)
           /\ abort' \in Aborts
  <1>1. Index(p) \in Indexes
    BY IndexType
  <1>2. sess' \in [Positions -> Sessions]
    <2>1. sess' = [sess EXCEPT ![p] = Dead(sess[p].token)]
      BY DEF Die
    <2>2. p \in Positions => Dead(sess[p].token) \in Sessions
      BY ConstantTypes DEF TypeOK, Dead, Sessions
    <2>3. sess \in [Positions -> Sessions]
      BY DEF TypeOK, Sessions
    <2> QED BY <2>1, <2>2, <2>3
  <1>3. reuse' \in Seq(Indexes)
    BY <1>1 DEF Die, TypeOK
  <1> QED BY <1>2, <1>3 DEF Die, TypeOK

(* So does the closing of a session by its id. *)
LEMMA CloseSessionLockedType ==
    ASSUME TypeOK, NEW id \in SessionIds, CloseSessionLocked(id)
    PROVE  /\ size' \in 1 .. SizeBound
           /\ sess' \in [Positions -> Sessions]
           /\ reuse' \in Seq(Indexes)
           /\ abort' \in Aborts
  <1>1. id[1] \in Indexes
    BY DEF SessionIds
  <1>2. CASE Die(id[1])
    BY <1>1, <1>2, DieType
  <1>3. CASE UNCHANGED table /\ abort' \in {"invalidSessionId", abort}
    BY <1>3 DEF table, TypeOK, Sessions, Aborts
  <1> QED BY <1>2, <1>3 DEF CloseSessionLocked

(* The job of closing connections is well-typed. *)
LEMMA StartClosingType ==
    ASSUME TypeOK, NEW C \in SUBSET Connections, NEW byServer \in BOOLEAN,
           StartClosing(C, byServer)
    PROVE  job' \in Jobs
  <1>1. NoJob \in Jobs
    BY DEF NoJob, Jobs
  <1>2. \A c \in Connections : list[c] \in Seq(SessionIds)
    BY DEF TypeOK
  <1> QED BY <1>1, <1>2 DEF StartClosing, Jobs

(* A failed assertion ends the process and changes nothing else. *)
LEMMA AbortType ==
    ASSUME TypeOK, NEW what \in Aborts, Abort(what)
    PROVE  TypeOK'
  BY DEF Abort, TypeOK, table

(* A session is born at position p *)
LEMMA BirthType ==
    ASSUME TypeOK, NEW p \in Positions \cup Indexes, NEW c \in Connections,
           NEW handler \in Handlers, NEW token \in Tokens,
           sess' = [sess EXCEPT ![p] = [token |-> token, conn |-> c, handler |-> handler]],
           list' = [list EXCEPT ![c] = Append(@, <<Index(p), token>>)]
    PROVE  /\ sess' \in [Positions -> Sessions]
           /\ list' \in [Connections -> Seq(SessionIds)]
  <1>1. <<Index(p), token>> \in SessionIds
    BY IndexType DEF SessionIds
  <1>2. [token |-> token, conn |-> c, handler |-> handler] \in Sessions
    BY DEF Sessions
  <1>3. sess \in [Positions -> Sessions] /\ list \in [Connections -> Seq(SessionIds)]
    BY DEF TypeOK, Sessions
  <1>4. Append(list[c], <<Index(p), token>>) \in Seq(SessionIds)
    BY <1>1, <1>3
  <1> QED BY <1>2, <1>3, <1>4

(* addConnection() keeps the types. *)
LEMMA AddConnectionType ==
    ASSUME TypeOK, NEW c \in Connections, AddConnection(c)
    PROVE  TypeOK'
  <1>1. size \in Positions /\ size + 1 \in 1 .. SizeBound
    BY ConstantTypes DEF AddConnection, TypeOK, Positions
  <1>2. PICK token \in Tokens :
          /\ sess' = [sess EXCEPT ![size] =
                        [token |-> token, conn |-> c, handler |-> RootHandler]]
          /\ list' = [list EXCEPT ![c] = Append(@, <<Index(size), token>>)]
    BY DEF AddConnection
  <1>3. sess' \in [Positions -> Sessions] /\ list' \in [Connections -> Seq(SessionIds)]
    BY <1>1, <1>2, ConstantTypes, BirthType
  <1> QED BY <1>1, <1>3 DEF AddConnection, TypeOK, Sessions

(* A position that is given to a session keeps the types of table and lists. *)
LEMMA ReviveType ==
    ASSUME TypeOK, NEW p \in Positions \cup Indexes, NEW c \in Connections,
           NEW handler \in Handlers, Revive(p, c, handler)
    PROVE  /\ sess' \in [Positions -> Sessions]
           /\ list' \in [Connections -> Seq(SessionIds)]
  <1>1. PICK token \in Tokens \ {sess[p].token} :
            /\ sess' = [sess EXCEPT ![p] = [token |-> token, conn |-> c, handler |-> handler]]
            /\ list' = [list EXCEPT ![c] = Append(@, <<Index(p), token>>)]
    BY DEF Revive
  <1>2. token \in Tokens
    OBVIOUS
  <1> QED
    BY <1>1, <1>2, BirthType

(* createSession() keeps the types. *)
LEMMA CreateSessionType ==
    ASSUME TypeOK, NEW parent \in SessionIds, NEW handler \in Handlers,
           CreateSession(parent, handler)
    PROVE  TypeOK'
  <1> DEFINE c == sess[parent[1]].conn
  <1>1. CASE Abort("createSession")
    BY <1>1, AbortType DEF Aborts
  <1>2. CASE /\ Names(parent)
             /\ ReuseIndex(c, handler) \/ GrowTable(c, handler) \/ NoIndexLeft
             /\ UNCHANGED <<up, udp, job, abort, destroyed>>
    <2>1. c \in Connections
      <3>1. parent[1] \in Positions
        BY <1>2, ConstantTypes DEF Names, TypeOK, Positions, SessionIds, Indexes
      <3> QED BY <3>1 DEF TypeOK
    <2> HIDE DEF c
    <2>2. CASE ReuseIndex(c, handler)
      <3>1. /\ reuse[Len(reuse)] \in Indexes
            /\ reuse' \in Seq(Indexes)
        BY <2>2 DEF ReuseIndex, TypeOK
      <3>2. sess' \in [Positions -> Sessions] /\ list' \in [Connections -> Seq(SessionIds)]
        BY <2>1, <2>2, <3>1, ReviveType DEF ReuseIndex
      <3> QED BY <1>2, <2>2, <3>1, <3>2 DEF ReuseIndex, TypeOK, Sessions
    <2>3. CASE GrowTable(c, handler)
      <3>1. size \in Positions /\ size + 1 \in 1 .. SizeBound
        BY <2>3, ConstantTypes DEF GrowTable, TypeOK, Positions
      <3>2. sess' \in [Positions -> Sessions] /\ list' \in [Connections -> Seq(SessionIds)]
        BY <2>1, <2>3, <3>1, ReviveType DEF GrowTable
      <3> QED BY <1>2, <2>3, <3>1, <3>2 DEF GrowTable, TypeOK, Sessions
    <2>4. CASE NoIndexLeft
      BY <1>2, <2>4 DEF NoIndexLeft, TypeOK, table
    <2> QED BY <1>2, <2>2, <2>3, <2>4
  <1> QED BY <1>1, <1>2 DEF CreateSession

(* closeSession() keeps the types. *)
LEMMA CloseSessionType ==
    ASSUME TypeOK, NEW id \in SessionIds, CloseSession(id)
    PROVE  TypeOK'
  <1> DEFINE c == sess[id[1]].conn
  <1>1. id[1] \in Positions
    BY ConstantTypes DEF CloseSession, TypeOK, Positions, SessionIds, Indexes
  <1>2. c \in Connections
    BY <1>1 DEF TypeOK
  <1> HIDE DEF c
  <1>3. CASE Abort("isRootSession")
    BY <1>3, AbortType DEF Aborts
  <1>4. CASE StartClosing({c}, TRUE) /\ UNCHANGED <<table, up, list, udp, abort, destroyed>>
    <2>1. job' \in Jobs
      BY <1>2, <1>4, StartClosingType
    <2> QED BY <1>4, <2>1 DEF TypeOK, Jobs, table
  <1>5. CASE CloseSessionLocked(id) /\ UNCHANGED <<up, list, udp, job, destroyed>>
    BY <1>5, CloseSessionLockedType DEF TypeOK, Sessions
  <1> QED BY <1>3, <1>4, <1>5 DEF CloseSession, c

(* closeConnection() keeps the types. *)
LEMMA CloseConnectionType ==
    ASSUME TypeOK, NEW c \in Connections, CloseConnection(c)
    PROVE  TypeOK'
  <1>1. job' \in Jobs
    BY StartClosingType DEF CloseConnection
  <1> QED BY <1>1 DEF CloseConnection, TypeOK, Jobs, table

(* markAllConnectionsAsClosed() keeps the types. *)
LEMMA MarkAllType ==
    ASSUME TypeOK, MarkAllConnectionsAsClosed
    PROVE  TypeOK'
  <1>1. job' \in Jobs
    <2>1. {c \in Connections : up[c]} \in SUBSET Connections
      OBVIOUS
    <2> QED BY <2>1, StartClosingType DEF MarkAllConnectionsAsClosed
  <1> QED BY <1>1 DEF MarkAllConnectionsAsClosed, TypeOK, Jobs, table

(* The loop over the sessions of a connection keeps the types. *)
LEMMA CloseNextSessionType ==
    ASSUME TypeOK, CloseNextSession
    PROVE  TypeOK'
  <1>1. job \in Jobs /\ job.rest # <<>>
    BY DEF TypeOK, Jobs, CloseNextSession
  <1>2. Head(job.rest) \in SessionIds /\ Tail(job.rest) \in Seq(SessionIds)
    BY <1>1, RangeTail DEF Jobs
  <1>3. job' = [job EXCEPT !.rest = Tail(@)]
    BY DEF CloseNextSession
  <1>4. job' \in Jobs
    BY <1>1, <1>2, <1>3 DEF Jobs
  <1> QED BY <1>2, <1>4, CloseSessionLockedType DEF CloseNextSession, TypeOK, Jobs, Sessions

(* So does its end. *)
LEMMA ConnectionClosedType ==
    ASSUME TypeOK, ConnectionClosed
    PROVE  TypeOK'
  <1>1. job' \in Jobs
    BY StartClosingType DEF ConnectionClosed, TypeOK
  <1>2. <<>> \in Seq(SessionIds)
    OBVIOUS
  <1>3. job.byServer \in BOOLEAN
    BY DEF TypeOK
  <1> QED BY <1>1, <1>2, <1>3 DEF ConnectionClosed, TypeOK, Jobs, table

(* TypeOK is inductive by itself, also if the table outgrows the indexes. *)
LEMMA TypeStep ==
    ASSUME TypeOK, [Next]_muxVars
    PROVE  TypeOK'
  <1>1. CASE UNCHANGED muxVars
    BY <1>1 DEF muxVars, TypeOK
  <1>2. ASSUME NEW c \in Connections, AddConnection(c) PROVE TypeOK'
    BY <1>2, AddConnectionType
  <1>3. ASSUME NEW c \in Connections, CloseConnection(c) PROVE TypeOK'
    BY <1>3, CloseConnectionType
  <1>4. ASSUME NEW id \in KnownIds, NEW handler \in Handlers, CreateSession(id, handler)
        PROVE  TypeOK'
    BY <1>4, KnownIdsType, CreateSessionType
  <1>5. ASSUME NEW c \in Connections, NEW id \in KnownIds, OnMessageReceived(c, id)
        PROVE  TypeOK'
    <2>1. CASE UNCHANGED muxVars
      BY <2>1, <1>1
    <2>2. CASE Abort("nullHandler")
      BY <2>2, AbortType DEF Aborts
    <2> QED BY <1>5, <2>1, <2>2 DEF OnMessageReceived
  <1>6. ASSUME NEW c \in Connections, NEW id \in KnownIds, OnCloseRequest(c, id)
        PROVE  TypeOK'
    BY <1>6, KnownIdsType, CloseSessionType DEF OnCloseRequest
  <1>7. CASE CloseNextSession
    BY <1>7, CloseNextSessionType
  <1>8. CASE ConnectionClosed
    BY <1>8, ConnectionClosedType
  <1>9. CASE MarkAllConnectionsAsClosed
    BY <1>9, MarkAllType
  <1>10. CASE Halted
    BY <1>1, <1>10 DEF Halted
  <1> QED BY <1>1, <1>2, <1>3, <1>4, <1>5, <1>6, <1>7, <1>8, <1>9, <1>10 DEF Next

(* A new SessionMux is well-typed. *)
LEMMA InitType == Init => TypeOK
  <1> SUFFICES ASSUME Init PROVE TypeOK
    OBVIOUS
  <1>1. Dead(0) \in Sessions
    BY ConstantTypes DEF Dead, Sessions
  <1>2. NoJob \in Jobs
    BY DEF NoJob, Jobs
  <1> QED BY <1>1, <1>2, ConstantTypes DEF Init, TypeOK, Sessions, Jobs, Aborts

(* The table, the connections and the job stay within their types whatever
   clients do, for every number of connections and every size of the table. *)
THEOREM SessionMuxTypeCorrect == Spec => []TypeOK
  BY InitType, TypeStep, PTL DEF Spec

-----------------------------------------------------------------------------
(* Safety of the table *)

(* Before the index wraps, a position is its own index. *)
LEMMA IdOfPosition ==
    ASSUME NoWrap, TypeOK, NEW p \in Positions
    PROVE  Index(p) = p /\ SessionId(p) = <<p, sess[p].token>>
  BY ConstantTypes DEF NoWrap, Index, SessionId, Positions

(* What MuxInv says of the sessions of one position *)
LEMMA LiveSession ==
    ASSUME MuxInv, NEW p \in Positions, IsValid(p)
    PROVE  /\ p \in 1 .. size - 1
           /\ sess[p].conn \in Connections
           /\ up[sess[p].conn]
           /\ SessionId(p) \in Range(list[sess[p].conn])
           /\ Closing(sess[p].conn) => SessionId(p) \in Range(job.rest)
  BY DEF MuxInv, Placed, NoOrphanSessions, TypeOK

(* The positions in use are positions of the table. *)
LEMMA PositionsInTable ==
    ASSUME NEW n \in 1 .. SizeBound
    PROVE  \A p \in 1 .. n - 1 : p \in Positions
  BY ConstantTypes DEF Positions

(* A larger table has the positions of a smaller one. *)
LEMMA TableGrows ==
    ASSUME NEW n \in 1 .. SizeBound, NEW m \in 1 .. SizeBound, m >= n
    PROVE  \A p \in 1 .. n - 1 : p \in 1 .. m - 1
  BY ConstantTypes

(* NoOrphanSessions and Placed, position by position *)
LEMMA NoOrphanIntro ==
    ASSUME TypeOK',
           \A p \in Positions : IsValid(p)' =>
               /\ p \in 1 .. size' - 1
               /\ up'[sess'[p].conn]
               /\ SessionId(p)' \in Range(list'[sess'[p].conn])
               /\ job'.conn = sess'[p].conn => SessionId(p)' \in Range(job'.rest)
    PROVE  Placed' /\ NoOrphanSessions'
  <1>1. size' \in 1 .. SizeBound
    BY DEF TypeOK
  <1>2. \A p \in 1 .. size' - 1 : p \in Positions
    BY <1>1, PositionsInTable
  <1> QED BY <1>2 DEF Placed, NoOrphanSessions, Closing

(* A session of connection c is born at position p, while no connection is
   being closed. *)
LEMMA BirthInv ==
    ASSUME NoWrap, MuxInv, TypeOK', job = NoJob, ~destroyed, ~destroyed',
           NEW p \in Positions, NEW c \in Connections,
           NEW handler \in Handlers, NEW token \in Tokens,
           sess' = [sess EXCEPT ![p] = [token |-> token, conn |-> c, handler |-> handler]],
           list' = [list EXCEPT ![c] = Append(@, <<Index(p), token>>)],
           up' = [up EXCEPT ![c] = TRUE],
           UNCHANGED job,
           \/ /\ p \in Range(reuse) /\ size' = size
              /\ Distinct(reuse') /\ Range(reuse') = Range(reuse) \ {p}
           \/ p = size /\ size' = size + 1 /\ reuse' = reuse
    PROVE  MuxInv'
  <1>1. TypeOK /\ size \in 1 .. SizeBound
    BY DEF MuxInv, TypeOK
  <1>2. FreeIndexesExact
    BY DEF MuxInv
  <1>3. p \in 1 .. size' - 1 /\ \A q \in 1 .. size - 1 : q \in 1 .. size' - 1
    <2>1. p \in Range(reuse) => p \in 1 .. size - 1
      BY <1>2 DEF FreeIndexesExact
    <2> QED BY <1>1, <2>1, ConstantTypes
  <1>4. job.conn = -1 /\ \A d \in Connections : job'.conn # d
    BY ConstantTypes DEF NoJob, Connections
  <1>5. <<Index(p), token>> \in SessionIds
    BY IdType
  <1>6. \A d \in Connections : list[d] \in Seq(SessionIds)
    BY <1>1 DEF TypeOK
  <1>7. \A d \in Connections : Range(list[d]) \subseteq Range(list'[d])
    <2> TAKE d \in Connections
    <2>1. CASE d = c
      <3>1. list'[c] = Append(list[c], <<Index(p), token>>)
        BY <1>1 DEF TypeOK
      <3> QED BY <2>1, <3>1, <1>5, <1>6, RangeAppend
    <2>2. CASE d # c
      BY <2>2, <1>1 DEF TypeOK
    <2> QED BY <2>1, <2>2
  <1>8. Placed' /\ NoOrphanSessions'
    <2>1. ASSUME NEW q \in Positions, IsValid(q)'
          PROVE  /\ q \in 1 .. size' - 1
                 /\ up'[sess'[q].conn]
                 /\ SessionId(q)' \in Range(list'[sess'[q].conn])
                 /\ job'.conn # sess'[q].conn
      <3>1. CASE q = p
        <4>1. sess'[q] = [token |-> token, conn |-> c, handler |-> handler]
          BY <3>1, <1>1 DEF TypeOK
        <4>2. list'[c] = Append(list[c], <<Index(p), token>>)
          BY <1>1 DEF TypeOK
        <4>3. SessionId(q)' = <<Index(p), token>>
          BY <3>1, <4>1 DEF SessionId
        <4>4. SessionId(q)' \in Range(list'[c])
          BY <4>2, <4>3, <1>5, <1>6, RangeAppend
        <4>5. up'[c]
          BY <1>1 DEF TypeOK
        <4> QED BY <3>1, <4>1, <4>4, <4>5, <1>3, <1>4
      <3>2. CASE q # p
        <4>1. sess'[q] = sess[q]
          BY <3>2, <1>1 DEF TypeOK
        <4>2. IsValid(q) /\ SessionId(q)' = SessionId(q)
          BY <2>1, <4>1 DEF IsValid, SessionId
        <4>3. /\ q \in 1 .. size - 1
              /\ sess[q].conn \in Connections
              /\ up[sess[q].conn]
              /\ SessionId(q) \in Range(list[sess[q].conn])
          BY <4>2, LiveSession
        <4>4. up'[sess[q].conn]
          BY <4>3, <1>1 DEF TypeOK
        <4> QED BY <4>1, <4>2, <4>3, <4>4, <1>3, <1>4, <1>7
      <3> QED BY <3>1, <3>2
    <2> QED BY <2>1, NoOrphanIntro
  <1>9. FreeIndexesExact'
    <2>1. \A q \in 1 .. size' - 1 : q \in Positions
      <3>1. size' \in 1 .. SizeBound
        BY DEF TypeOK
      <3> QED BY <3>1, PositionsInTable
    <2>2. IsValid(p)' /\ \A q \in Positions \ {p} : IsValid(q)' <=> IsValid(q)
      <3>1. sess'[p] = [token |-> token, conn |-> c, handler |-> handler]
        BY <1>1 DEF TypeOK
      <3>2. \A q \in Positions \ {p} : sess'[q] = sess[q]
        BY <1>1 DEF TypeOK
      <3> QED BY <3>1, <3>2, ConstantTypes DEF IsValid
    <2>3. Distinct(reuse) /\ Range(reuse) = {q \in 1 .. size - 1 : ~IsValid(q)}
      BY <1>2 DEF FreeIndexesExact, Distinct
    <2>4. CASE /\ p \in Range(reuse) /\ size' = size
               /\ Distinct(reuse') /\ Range(reuse') = Range(reuse) \ {p}
      <3>1. Range(reuse') = {q \in 1 .. size' - 1 : ~IsValid(q)'}
        BY <2>1, <2>2, <2>3, <2>4
      <3> QED BY <2>4, <3>1 DEF FreeIndexesExact, Distinct
    <2>5. CASE p = size /\ size' = size + 1 /\ reuse' = reuse
      <3>1. \A q \in 1 .. size' - 1 : q \in 1 .. size - 1 \/ q = p
        BY <1>1, <2>5, ConstantTypes
      <3>2. \A q \in 1 .. size - 1 : q # p /\ q \in 1 .. size' - 1
        BY <1>1, <2>5, ConstantTypes
      <3>3. {q \in 1 .. size' - 1 : ~IsValid(q)'} = {q \in 1 .. size - 1 : ~IsValid(q)}
        BY <2>1, <2>2, <3>1, <3>2
      <3> QED BY <2>3, <2>5, <3>3 DEF FreeIndexesExact, Distinct
    <2> QED BY <2>4, <2>5
  <1>10. Unlinking'
    BY DEF Unlinking
  <1> QED BY <1>8, <1>9, <1>10 DEF MuxInv

(* Nothing but the job and the connections changes: the sessions of a
   connection that is now being closed are all ahead of the loop. *)
LEMMA StartClosingInv ==
    ASSUME MuxInv, TypeOK', NEW C \in SUBSET Connections, NEW byServer \in BOOLEAN,
           job = NoJob, StartClosing(C, byServer), UNCHANGED <<table, up, list, abort>>,
           ~destroyed' \/ C = {c \in Connections : up[c]}
    PROVE  MuxInv'
  <1>1. \/ job'.conn = -1 /\ C = {}
        \/ /\ job'.conn \in C /\ job'.rest = list[job'.conn]
           /\ job'.more = C \ {job'.conn}
    BY DEF StartClosing, NoJob
  <1>2. Placed' /\ NoOrphanSessions'
    <2>1. ASSUME NEW q \in Positions, IsValid(q)'
          PROVE  /\ q \in 1 .. size' - 1
                 /\ up'[sess'[q].conn]
                 /\ SessionId(q)' \in Range(list'[sess'[q].conn])
                 /\ job'.conn = sess'[q].conn => SessionId(q)' \in Range(job'.rest)
      <3>1. IsValid(q) /\ SessionId(q)' = SessionId(q) /\ sess' = sess /\ size' = size
        BY <2>1 DEF IsValid, SessionId, table
      <3>2. /\ q \in 1 .. size - 1
            /\ sess[q].conn \in Connections
            /\ up[sess[q].conn]
            /\ SessionId(q) \in Range(list[sess[q].conn])
        BY <3>1, LiveSession
      <3>3. sess[q].conn # -1
        BY <3>2, ConstantTypes DEF Connections
      <3> QED BY <1>1, <3>1, <3>2, <3>3
    <2> QED BY <2>1, NoOrphanIntro
  <1>3. FreeIndexesExact'
    <2>1. FreeIndexesExact
      BY DEF MuxInv
    <2> QED BY <2>1 DEF FreeIndexesExact, IsValid, table
  <1>4. Unlinking'
    BY <1>1 DEF Unlinking
  <1> QED BY <1>2, <1>3, <1>4 DEF MuxInv

(* closeSessionLocked: at most the session that id names dies, and it does. *)
LEMMA CloseSessionLockedInv ==
    ASSUME NoWrap, MuxInv, NEW id \in SessionIds, CloseSessionLocked(id),
           reuse' \in Seq(Indexes)
    PROVE  /\ size' = size
           /\ \A q \in Positions : IsValid(q)' => sess'[q] = sess[q] /\ SessionId(q) # id
           /\ \A q \in Positions : q # id[1] => sess'[q] = sess[q]
           /\ \A q \in Positions : IsValid(q) /\ ~IsValid(q)' => SessionId(q) = id
           /\ FreeIndexesExact'
  <1>1. TypeOK /\ size \in 1 .. SizeBound /\ Placed /\ FreeIndexesExact
    BY DEF MuxInv, TypeOK
  <1>2. \A q \in Positions : Index(q) = q /\ SessionId(q) = <<q, sess[q].token>>
    BY <1>1, IdOfPosition
  <1>3. id[1] \in Indexes
    BY DEF SessionIds
  <1>4. CASE UNCHANGED table /\ ~(id[1] # 0 /\ Names(id))
    <2>1. \A q \in Positions : IsValid(q)' => sess'[q] = sess[q] /\ IsValid(q)
      BY <1>4 DEF table, IsValid
    <2>2. ASSUME NEW q \in Positions, IsValid(q) PROVE SessionId(q) # id
      <3>1. q \in 1 .. size - 1
        BY <1>1, <2>2 DEF Placed
      <3> QED BY <1>1, <1>2, <1>4, <2>2, <3>1 DEF Names
    <2>3. FreeIndexesExact'
      BY <1>1, <1>4 DEF FreeIndexesExact, IsValid, table
    <2> QED BY <1>4, <2>1, <2>2, <2>3 DEF table, IsValid
  <1>5. CASE id[1] # 0 /\ Names(id) /\ Die(id[1])
    <2> DEFINE p == id[1]
    <2>1. p \in 1 .. size - 1 /\ p \in Positions /\ IsValid(p) /\ SessionId(p) = id
      BY <1>1, <1>3, <1>5, ConstantTypes DEF Names, Indexes, Positions
    <2>2. /\ sess' = [sess EXCEPT ![p] = Dead(sess[p].token)]
          /\ reuse' = Append(reuse, p) /\ size' = size
      BY <1>2, <1>5, <2>1 DEF Die
    <2> HIDE DEF p
    <2>3. ~IsValid(p)' /\ \A q \in Positions \ {p} : sess'[q] = sess[q]
      <3>1. sess'[p] = Dead(sess[p].token)
        BY <1>1, <2>1, <2>2 DEF TypeOK
      <3>2. \A q \in Positions \ {p} : sess'[q] = sess[q]
        BY <1>1, <2>2 DEF TypeOK
      <3> QED BY <3>1, <3>2 DEF IsValid, Dead
    <2>4. ASSUME NEW q \in Positions \ {p} PROVE SessionId(q) # id
      BY <1>2, <2>1
    <2>5. Distinct(reuse) /\ Range(reuse) = {q \in 1 .. size - 1 : ~IsValid(q)}
      BY <1>1 DEF FreeIndexesExact, Distinct
    <2>6. p \notin Range(reuse) /\ p \in Indexes /\ reuse \in Seq(Indexes)
      BY <1>1, <1>3, <2>1, <2>5 DEF TypeOK, p
    <2>7. Distinct(reuse') /\ Range(reuse') = Range(reuse) \cup {p}
      BY <2>2, <2>5, <2>6, AppendDistinct, RangeAppend
    <2>8. \A q \in 1 .. size - 1 : q \in Positions
      BY <1>1, ConstantTypes DEF Positions
    <2>9. Range(reuse') = {q \in 1 .. size' - 1 : ~IsValid(q)'}
      BY <2>1, <2>2, <2>3, <2>5, <2>7, <2>8 DEF IsValid
    <2>10. \A q \in Positions : q # id[1] => sess'[q] = sess[q]
      BY <2>3 DEF p
    <2>11. \A q \in Positions : IsValid(q) /\ ~IsValid(q)' => SessionId(q) = id
      BY <2>1, <2>3 DEF IsValid
    <2> QED BY <2>2, <2>3, <2>4, <2>7, <2>9, <2>10, <2>11 DEF FreeIndexesExact, Distinct
  <1>6. id[1] = 0 \/ id[1] >= size => ~(id[1] # 0 /\ Names(id))
    BY <1>1, <1>3, ConstantTypes DEF Names, Indexes
  <1> QED BY <1>4, <1>5, <1>6 DEF CloseSessionLocked

(* The root session of a new connection is listed by it, at a position that was not in use. *)
LEMMA AddConnectionInv ==
    ASSUME NoWrap, MuxInv, TypeOK', NEW c \in Connections, AddConnection(c)
    PROVE  MuxInv'
  <1>1. TypeOK
    BY DEF MuxInv
  <1>2. size \in Positions
    BY <1>1, ConstantTypes DEF AddConnection, TypeOK, Positions
  <1>3. PICK token \in Tokens :
          /\ sess' = [sess EXCEPT ![size] =
                        [token |-> token, conn |-> c, handler |-> RootHandler]]
          /\ list' = [list EXCEPT ![c] = Append(@, <<Index(size), token>>)]
    BY DEF AddConnection
  <1>4. /\ job = NoJob /\ ~destroyed /\ ~destroyed' /\ UNCHANGED job
        /\ up' = [up EXCEPT ![c] = TRUE]
        /\ size' = size + 1 /\ reuse' = reuse
    BY DEF AddConnection, Idle
  <1> QED BY <1>2, <1>3, <1>4, ConstantTypes, BirthInv

(* After a failed assertion nothing changes. *)
LEMMA AbortInv ==
    ASSUME MuxInv, TypeOK', NEW what, what # "none", Abort(what)
    PROVE  MuxInv'
  <1>1. UNCHANGED <<size, sess, reuse, up, list, job>> /\ abort' # "none"
    BY DEF Abort, table
  <1> QED BY <1>1 DEF MuxInv, Placed, NoOrphanSessions, FreeIndexesExact, Unlinking,
                      IsValid, SessionId, Closing

(* A new session is listed by the connection of its parent, which is open. *)
LEMMA CreateSessionInv ==
    ASSUME NoWrap, MuxInv, TypeOK', NEW parent \in SessionIds, NEW handler \in Handlers,
           CreateSession(parent, handler)
    PROVE  MuxInv'
  <1> DEFINE c == sess[parent[1]].conn
  <1>1. TypeOK /\ size \in 1 .. SizeBound /\ FreeIndexesExact
    BY DEF MuxInv, TypeOK
  <1>2. CASE Abort("createSession")
    BY <1>2, AbortInv
  <1>3. CASE /\ Names(parent)
             /\ ReuseIndex(c, handler) \/ GrowTable(c, handler) \/ NoIndexLeft
             /\ UNCHANGED <<up, udp, job, abort, destroyed>>
    <2>1. parent[1] \in Positions /\ IsValid(parent[1])
      BY <1>1, <1>3, ConstantTypes DEF Names, Positions, SessionIds, Indexes
    <2>2. c \in Connections /\ up[c]
      BY <2>1, LiveSession
    <2> HIDE DEF c
    <2>3. up' = [up EXCEPT ![c] = TRUE]
      BY <1>1, <1>3, <2>2 DEF TypeOK
    <2>4. job = NoJob /\ ~destroyed /\ ~destroyed' /\ UNCHANGED job
      BY <1>3 DEF CreateSession, Idle
    <2>5. CASE ReuseIndex(c, handler)
      <3> DEFINE p == reuse[Len(reuse)]
      <3>1. Distinct(reuse) /\ Range(reuse) = {q \in 1 .. size - 1 : ~IsValid(q)}
        BY <1>1 DEF FreeIndexesExact, Distinct
      <3>2. reuse # <<>> /\ reuse \in Seq(Indexes)
            /\ reuse' = SubSeq(reuse, 1, Len(reuse) - 1) /\ size' = size
        BY <1>1, <2>5 DEF ReuseIndex, TypeOK
      <3>3. Distinct(reuse') /\ p \in Range(reuse) /\ Range(reuse') = Range(reuse) \ {p}
        BY <3>1, <3>2, PopBack
      <3>4. p \in Positions
        BY <1>1, <3>1, <3>3, PositionsInTable
      <3>5. PICK token \in Tokens :
              /\ sess' = [sess EXCEPT ![p] = [token |-> token, conn |-> c,
                                              handler |-> handler]]
              /\ list' = [list EXCEPT ![c] = Append(@, <<Index(p), token>>)]
        BY <2>5 DEF ReuseIndex, Revive
      <3> HIDE DEF p
      <3> QED BY <2>2, <2>3, <2>4, <3>2, <3>3, <3>4, <3>5, BirthInv
    <2>6. CASE GrowTable(c, handler)
      <3>1. size \in Positions /\ size' = size + 1 /\ reuse' = reuse
        BY <1>1, <2>6, ConstantTypes DEF GrowTable, Positions
      <3>2. PICK token \in Tokens :
              /\ sess' = [sess EXCEPT ![size] = [token |-> token, conn |-> c,
                                                 handler |-> handler]]
              /\ list' = [list EXCEPT ![c] = Append(@, <<Index(size), token>>)]
        BY <2>6 DEF GrowTable, Revive
      <3> QED BY <2>2, <2>3, <2>4, <3>1, <3>2, BirthInv
    <2>7. CASE NoIndexLeft
      BY <1>3, <2>7 DEF NoIndexLeft, MuxInv, Placed, NoOrphanSessions, FreeIndexesExact,
                        Unlinking, IsValid, SessionId, Closing, table
    <2> QED BY <1>3, <2>5, <2>6, <2>7
  <1> QED BY <1>2, <1>3 DEF CreateSession

(* A closed session frees its index, once. *)
LEMMA CloseSessionInv ==
    ASSUME NoWrap, MuxInv, TypeOK', NEW id \in SessionIds, CloseSession(id)
    PROVE  MuxInv'
  <1> DEFINE c == sess[id[1]].conn
  <1>1. TypeOK
    BY DEF MuxInv
  <1>2. c \in Connections
    <2>1. id[1] \in Positions
      BY <1>1, ConstantTypes DEF CloseSession, TypeOK, Positions, SessionIds, Indexes
    <2> QED BY <1>1, <2>1 DEF TypeOK
  <1> HIDE DEF c
  <1>3. job = NoJob /\ ~destroyed
    BY DEF CloseSession, Idle
  <1>4. CASE Abort("isRootSession")
    BY <1>4, AbortInv
  <1>5. CASE StartClosing({c}, TRUE) /\ UNCHANGED <<table, up, list, udp, abort, destroyed>>
    BY <1>2, <1>3, <1>5, StartClosingInv
  <1>6. CASE CloseSessionLocked(id) /\ UNCHANGED <<up, list, udp, job, destroyed>>
    <2>1. reuse' \in Seq(Indexes)
      BY DEF TypeOK
    <2>2. /\ size' = size
          /\ \A q \in Positions : IsValid(q)' => sess'[q] = sess[q] /\ SessionId(q) # id
          /\ FreeIndexesExact'
      BY <1>6, <2>1, CloseSessionLockedInv
    <2>3. Placed' /\ NoOrphanSessions'
      <3>1. ASSUME NEW q \in Positions, IsValid(q)'
            PROVE  /\ q \in 1 .. size' - 1
                   /\ up'[sess'[q].conn]
                   /\ SessionId(q)' \in Range(list'[sess'[q].conn])
                   /\ job'.conn = sess'[q].conn => SessionId(q)' \in Range(job'.rest)
        <4>1. sess'[q] = sess[q] /\ IsValid(q) /\ SessionId(q)' = SessionId(q)
          BY <2>2, <3>1 DEF IsValid, SessionId
        <4> QED BY <1>6, <2>2, <4>1, LiveSession DEF Closing
      <3> QED BY <3>1, NoOrphanIntro
    <2>4. Unlinking'
      BY <1>3, <1>6 DEF Unlinking
    <2> QED BY <2>2, <2>3, <2>4 DEF MuxInv
  <1> QED BY <1>4, <1>5, <1>6 DEF CloseSession, c

(* The loop closes the next listed session, if the id still names one. *)
LEMMA CloseNextSessionInv ==
    ASSUME NoWrap, MuxInv, TypeOK', CloseNextSession
    PROVE  MuxInv'
  <1> DEFINE id == Head(job.rest)
  <1>1. TypeOK /\ job \in Jobs /\ job.rest # <<>> /\ job.rest \in Seq(SessionIds)
    BY DEF MuxInv, TypeOK, Jobs, CloseNextSession
  <1>2. id \in SessionIds /\ \A y \in Range(job.rest) : y = id \/ y \in Range(Tail(job.rest))
    BY <1>1, RangeTail
  <1>3. job'.conn = job.conn /\ job'.more = job.more /\ job'.rest = Tail(job.rest)
    <2>1. job' = [job EXCEPT !.rest = Tail(@)]
      BY DEF CloseNextSession
    <2> QED BY <1>1, <2>1 DEF Jobs
  <1>4. reuse' \in Seq(Indexes)
    BY DEF TypeOK
  <1>5. CloseSessionLocked(id) /\ UNCHANGED <<up, list, udp, destroyed>> /\ abort = "none"
    BY DEF CloseNextSession
  <1> HIDE DEF id
  <1>6. /\ size' = size
        /\ \A q \in Positions : IsValid(q)' => sess'[q] = sess[q] /\ SessionId(q) # id
        /\ FreeIndexesExact'
    BY <1>2, <1>4, <1>5, CloseSessionLockedInv
  <1>7. Placed' /\ NoOrphanSessions'
    <2>1. ASSUME NEW q \in Positions, IsValid(q)'
          PROVE  /\ q \in 1 .. size' - 1
                 /\ up'[sess'[q].conn]
                 /\ SessionId(q)' \in Range(list'[sess'[q].conn])
                 /\ job'.conn = sess'[q].conn => SessionId(q)' \in Range(job'.rest)
      <3>1. sess'[q] = sess[q] /\ IsValid(q) /\ SessionId(q)' = SessionId(q) /\ SessionId(q) # id
        BY <1>6, <2>1 DEF IsValid, SessionId
      <3>2. /\ q \in 1 .. size - 1
            /\ up[sess[q].conn]
            /\ SessionId(q) \in Range(list[sess[q].conn])
            /\ job.conn = sess[q].conn => SessionId(q) \in Range(job.rest)
        BY <3>1, LiveSession DEF Closing
      <3> QED BY <1>2, <1>3, <1>5, <1>6, <3>1, <3>2
    <2> QED BY <2>1, NoOrphanIntro
  <1>8. Unlinking'
    BY <1>3, <1>5 DEF MuxInv, Unlinking
  <1> QED BY <1>6, <1>7, <1>8 DEF MuxInv

(* After the loop no session of the connection is left. *)
LEMMA ConnectionClosedInv ==
    ASSUME NoWrap, MuxInv, TypeOK', ConnectionClosed
    PROVE  MuxInv'
  <1> DEFINE c == job.conn
  <1>1. TypeOK /\ job.more \in SUBSET Connections
    BY DEF MuxInv, TypeOK
  <1>2. /\ up' = [up EXCEPT ![c] = FALSE] /\ list' = [list EXCEPT ![c] = <<>>]
        /\ size' = size /\ sess' = sess /\ reuse' = reuse
        /\ UNCHANGED <<abort, destroyed>> /\ job.rest = <<>> /\ abort = "none"
    BY DEF ConnectionClosed, table
  <1>3. \/ job'.conn = -1 /\ job'.more = {} /\ job.more = {}
        \/ /\ job'.conn \in job.more /\ job'.rest = list[job'.conn]
           /\ job'.more = job.more \ {job'.conn}
    BY DEF ConnectionClosed, StartClosing, NoJob
  <1> HIDE DEF c
  <1>4. Range(job.rest) = {}
    BY <1>2 DEF Range
  <1>5. Placed' /\ NoOrphanSessions'
    <2>1. ASSUME NEW q \in Positions, IsValid(q)'
          PROVE  /\ q \in 1 .. size' - 1
                 /\ up'[sess'[q].conn]
                 /\ SessionId(q)' \in Range(list'[sess'[q].conn])
                 /\ job'.conn = sess'[q].conn => SessionId(q)' \in Range(job'.rest)
      <3>1. IsValid(q) /\ SessionId(q)' = SessionId(q)
        BY <1>2, <2>1 DEF IsValid, SessionId
      <3>2. /\ q \in 1 .. size - 1
            /\ sess[q].conn \in Connections
            /\ up[sess[q].conn]
            /\ SessionId(q) \in Range(list[sess[q].conn])
            /\ c = sess[q].conn => SessionId(q) \in Range(job.rest)
        BY <3>1, LiveSession DEF Closing, c
      <3>3. sess[q].conn # c /\ sess[q].conn # -1
        BY <1>4, <3>2, ConstantTypes DEF Connections
      <3>4. up'[sess[q].conn] = up[sess[q].conn] /\ list'[sess[q].conn] = list[sess[q].conn]
        BY <1>1, <1>2, <3>2, <3>3 DEF TypeOK
      <3> QED BY <1>2, <1>3, <3>1, <3>2, <3>3, <3>4
    <2> QED BY <2>1, NoOrphanIntro
  <1>6. FreeIndexesExact'
    BY <1>2 DEF MuxInv, FreeIndexesExact, IsValid
  <1>7. Unlinking'
    <2> SUFFICES ASSUME destroyed, NEW d \in Connections, up'[d]
                 PROVE  d = job'.conn \/ d \in job'.more
      BY <1>2 DEF Unlinking
    <2>1. d # c /\ up[d]
      BY <1>1, <1>2 DEF TypeOK
    <2>2. d \in job.more
      BY <1>2, <2>1 DEF MuxInv, Unlinking, c
    <2> QED BY <1>3, <2>2
  <1> QED BY <1>5, <1>6, <1>7 DEF MuxInv

(* MuxInv is inductive. *)
LEMMA MuxStep ==
    ASSUME NoWrap, MuxInv, [Next]_muxVars
    PROVE  MuxInv'
  <1>1. TypeOK
    BY DEF MuxInv
  <1>2. TypeOK'
    BY <1>1, TypeStep
  <1>3. CASE UNCHANGED muxVars
    BY <1>2, <1>3 DEF muxVars, MuxInv, Placed, NoOrphanSessions, FreeIndexesExact,
                      Unlinking, IsValid, SessionId, Closing
  <1>4. ASSUME NEW c \in Connections, AddConnection(c) PROVE MuxInv'
    BY <1>2, <1>4, AddConnectionInv
  <1>5. ASSUME NEW c \in Connections, CloseConnection(c) PROVE MuxInv'
    BY <1>2, <1>5, StartClosingInv DEF CloseConnection, Idle
  <1>6. ASSUME NEW id \in KnownIds, NEW handler \in Handlers, CreateSession(id, handler)
        PROVE  MuxInv'
    BY <1>1, <1>2, <1>6, KnownIdsType, CreateSessionInv
  <1>7. ASSUME NEW c \in Connections, NEW id \in KnownIds, OnMessageReceived(c, id)
        PROVE  MuxInv'
    <2>1. CASE Abort("nullHandler")
      BY <1>2, <2>1, AbortInv
    <2> QED BY <1>3, <1>7, <2>1 DEF OnMessageReceived
  <1>8. ASSUME NEW c \in Connections, NEW id \in KnownIds, OnCloseRequest(c, id)
        PROVE  MuxInv'
    BY <1>1, <1>2, <1>8, KnownIdsType, CloseSessionInv DEF OnCloseRequest
  <1>9. CASE CloseNextSession
    BY <1>2, <1>9, CloseNextSessionInv
  <1>10. CASE ConnectionClosed
    BY <1>2, <1>10, ConnectionClosedInv
  <1>11. CASE MarkAllConnectionsAsClosed
    <2> DEFINE C == {c \in Connections : up[c]}
    <2>1. /\ C \in SUBSET Connections /\ job = NoJob /\ StartClosing(C, FALSE)
          /\ UNCHANGED <<table, up, list, abort>>
      BY <1>11 DEF MarkAllConnectionsAsClosed, Idle
    <2>2. C = {c \in Connections : up[c]}
      OBVIOUS
    <2> HIDE DEF C
    <2> QED BY <1>2, <2>1, <2>2, StartClosingInv
  <1>12. CASE Halted
    BY <1>3, <1>12 DEF Halted
  <1> QED BY <1>3, <1>4, <1>5, <1>6, <1>7, <1>8, <1>9, <1>10, <1>11, <1>12 DEF Next

(* It holds at the start. *)
LEMMA MuxInit ==
    ASSUME Init
    PROVE  MuxInv
  <1>1. TypeOK
    BY InitType
  <1>2. \A p \in Positions : ~IsValid(p)
    BY DEF Init, IsValid, Dead
  <1>3. 1 .. size - 1 = {}
    BY DEF Init
  <1>4. DOMAIN reuse = {} /\ Range(reuse) = {}
    BY DEF Init, Range
  <1> QED BY <1>1, <1>2, <1>3, <1>4 DEF MuxInv, Placed, NoOrphanSessions, FreeIndexesExact,
                                        Unlinking, Init

-----------------------------------------------------------------------------
(* Connections and their root sessions *)

(* Connections list only indexes of the table. *)
Listed == \A c \in Connections : \A id \in Range(list[c]) : id[1] \in 1 .. size - 1

(* The loop that closes a connection goes over the ids that it lists. *)
JobFollowsList ==
    /\ job # NoJob => job.conn \in Connections /\ job.conn \notin job.more
    /\ \A id \in Range(job.rest) : id \in Range(list[job.conn])

(* An open connection has a UDP session, and before the player is destroyed no
   other connection has one or lists anything. *)
UdpFollows ==
    /\ \A c \in Connections : up[c] => udp[c]
    /\ ~destroyed =>
          /\ \A c \in Connections : ~up[c] => ~udp[c] /\ list[c] = <<>>
          /\ job # NoJob => job.byServer

(* The root session of c is alive, and no other connection lists its index. *)
Root(c) ==
    /\ list[c] # <<>>
    /\ Names(list[c][1])
    /\ sess[list[c][1][1]].conn = c
    /\ \A d \in Connections \ {c} : \A id \in Range(list[d]) : id[1] # list[c][1][1]

Roots == \A c \in Connections : up[c] /\ ~Closing(c) => Root(c)

ConnInv == Listed /\ JobFollowsList /\ UdpFollows /\ Roots

(* The root session of a connection is the first of its list, and alive. *)
LEMMA RootPosition ==
    ASSUME NoWrap, MuxInv, Listed, NEW c \in Connections, Root(c)
    PROVE  /\ list[c][1] \in Range(list[c])
           /\ list[c][1][1] \in Positions
           /\ list[c][1][1] \in 1 .. size - 1
           /\ IsValid(list[c][1][1])
           /\ SessionId(list[c][1][1]) = list[c][1]
  <1>1. TypeOK /\ size \in 1 .. SizeBound
    BY DEF MuxInv, TypeOK
  <1>2. 1 \in DOMAIN list[c]
    <2>1. list[c] \in Seq(SessionIds) /\ list[c] # <<>>
      BY <1>1 DEF TypeOK, Root
    <2> QED BY <2>1
  <1>3. list[c][1] \in Range(list[c])
    BY <1>2, RangeElement
  <1>4. list[c][1][1] \in 1 .. size - 1
    BY <1>3 DEF Listed
  <1> QED BY <1>1, <1>3, <1>4, PositionsInTable DEF Root, Names

(* A root session whose connection and position are left alone stays. *)
LEMMA RootKept ==
    ASSUME NoWrap, MuxInv, Listed, NEW c \in Connections, Root(c),
           size' \in 1 .. SizeBound, size' >= size,
           sess'[list[c][1][1]] = sess[list[c][1][1]],
           list'[c] # <<>>, list'[c][1] = list[c][1],
           \A d \in Connections \ {c} : \A id \in Range(list'[d]) : id[1] # list[c][1][1]
    PROVE  Root(c)'
  <1> DEFINE r == list[c][1][1]
  <1>1. /\ r \in 1 .. size - 1 /\ IsValid(r) /\ SessionId(r) = list[c][1]
        /\ sess[r].conn = c
    BY RootPosition DEF Root
  <1>2. size \in 1 .. SizeBound
    BY DEF MuxInv, TypeOK
  <1>3. r < size'
    BY <1>1, <1>2, ConstantTypes
  <1>4. IsValid(r)' /\ SessionId(r)' = list[c][1] /\ sess'[r].conn = c
    BY <1>1 DEF IsValid, SessionId
  <1>5. Names(list[c][1])'
    BY <1>3, <1>4 DEF Names, IsValid, SessionId
  <1> QED BY <1>4, <1>5 DEF Root

(* Appending to a list *)
LEMMA ListGrows ==
    ASSUME TypeOK, NEW c \in Connections, NEW id \in SessionIds,
           list' = [list EXCEPT ![c] = Append(@, id)]
    PROVE  /\ \A d \in Connections \ {c} : list'[d] = list[d]
           /\ Range(list'[c]) = Range(list[c]) \cup {id}
           /\ list'[c] # <<>>
           /\ list[c] # <<>> => list'[c][1] = list[c][1]
           /\ list[c] = <<>> => list'[c][1] = id /\ Range(list[c]) = {}
  <1>1. list[c] \in Seq(SessionIds) /\ list'[c] = Append(list[c], id)
    BY DEF TypeOK
  <1>2. Range(list'[c]) = Range(list[c]) \cup {id}
    BY <1>1, RangeAppend
  <1>3. \A d \in Connections \ {c} : list'[d] = list[d]
    BY DEF TypeOK
  <1>4. list[c] # <<>> => list'[c][1] = list[c][1]
    BY <1>1
  <1>5. list[c] = <<>> => list'[c][1] = id /\ Range(list[c]) = {}
    BY <1>1 DEF Range
  <1> QED BY <1>1, <1>2, <1>3, <1>4, <1>5

(* A session is born on connection c at a position p that was not alive: the
   part of ConnInv that is about the other roots *)
LEMMA BirthConn ==
    ASSUME NoWrap, MuxInv, ConnInv, job = NoJob, UNCHANGED job,
           NEW p \in Positions, NEW c \in Connections, NEW token \in Tokens, NEW record,
           ~IsValid(p), p \in 1 .. size' - 1, size' \in 1 .. SizeBound, size' >= size,
           sess' = [sess EXCEPT ![p] = record],
           list' = [list EXCEPT ![c] = Append(@, <<p, token>>)]
    PROVE  /\ Listed' /\ JobFollowsList'
           /\ \A d \in Connections : up[d] => Root(d)'
  <1>1. TypeOK /\ size \in 1 .. SizeBound
    BY DEF MuxInv, TypeOK
  <1>2. <<p, token>> \in SessionIds
    BY <1>1, IdType, IdOfPosition
  <1>3. /\ \A d \in Connections \ {c} : list'[d] = list[d]
        /\ Range(list'[c]) = Range(list[c]) \cup {<<p, token>>}
        /\ list'[c] # <<>>
        /\ list[c] # <<>> => list'[c][1] = list[c][1]
    BY <1>1, <1>2, ListGrows
  <1>4. Listed'
    <2>1. \A q \in 1 .. size - 1 : q \in 1 .. size' - 1
      BY <1>1, TableGrows
    <2>2. ASSUME NEW d \in Connections, NEW id \in Range(list'[d]) PROVE id[1] \in 1 .. size' - 1
      <3>1. id \in Range(list[d]) \/ id = <<p, token>>
        BY <1>3, <2>2
      <3>2. CASE id \in Range(list[d])
        <4>1. id[1] \in 1 .. size - 1
          BY <3>2 DEF ConnInv, Listed
        <4> QED BY <2>1, <4>1
      <3>3. CASE id = <<p, token>>
        BY <3>3
      <3> QED BY <3>1, <3>2, <3>3
    <2> QED BY <2>2 DEF Listed
  <1>5. JobFollowsList'
    <2>1. Range(job.rest) = {}
      BY DEF NoJob, Range
    <2> QED BY <2>1 DEF JobFollowsList
  <1>6. ASSUME NEW d \in Connections, up[d] PROVE Root(d)'
    <2>1. ~Closing(d)
      BY ConstantTypes DEF Closing, NoJob, Connections
    <2>2. Root(d) /\ Listed
      BY <1>6, <2>1 DEF ConnInv, Roots
    <2> DEFINE r == list[d][1][1]
    <2>3. r \in Positions /\ IsValid(r) /\ list[d] # <<>>
      BY <2>2, RootPosition DEF Root
    <2>4. r # p
      BY <2>3
    <2>5. sess'[r] = sess[r]
      BY <1>1, <2>3, <2>4 DEF TypeOK
    <2>6. list'[d] # <<>> /\ list'[d][1] = list[d][1]
      BY <1>3, <2>3
    <2>7. ASSUME NEW e \in Connections \ {d}, NEW id \in Range(list'[e]) PROVE id[1] # r
      <3>1. id \in Range(list[e]) \/ id = <<p, token>>
        BY <1>3, <2>7
      <3> QED BY <2>2, <2>4, <3>1 DEF Root
    <2> QED BY <2>2, <2>5, <2>6, <2>7, RootKept
  <1> QED BY <1>4, <1>5, <1>6

(* A new connection gets a root session that nobody else lists. *)
LEMMA AddConnectionConn ==
    ASSUME NoWrap, MuxInv, ConnInv, TypeOK', NEW c \in Connections, AddConnection(c)
    PROVE  ConnInv'
  <1>1. TypeOK /\ size \in 1 .. SizeBound /\ size < SizeBound
    BY DEF MuxInv, TypeOK, AddConnection
  <1>2. size \in Positions /\ size' = size + 1 /\ size' \in 1 .. SizeBound /\ size' >= size
        /\ size \in 1 .. size' - 1
    BY <1>1, ConstantTypes DEF AddConnection, Positions
  <1>3. ~IsValid(size)
    <2>1. size \notin 1 .. size - 1
      BY <1>1
    <2> QED BY <1>2, <2>1 DEF MuxInv, Placed
  <1>4. Index(size) = size
    BY <1>1, <1>2, IdOfPosition
  <1>5. PICK token \in Tokens :
          /\ sess' = [sess EXCEPT ![size] =
                        [token |-> token, conn |-> c, handler |-> RootHandler]]
          /\ list' = [list EXCEPT ![c] = Append(@, <<size, token>>)]
    BY <1>4 DEF AddConnection
  <1>6. /\ job = NoJob /\ ~destroyed /\ UNCHANGED <<job, destroyed>> /\ ~udp[c]
        /\ up' = [up EXCEPT ![c] = TRUE] /\ udp' = [udp EXCEPT ![c] = TRUE]
    BY DEF AddConnection, Idle
  <1>7. ~up[c] /\ list[c] = <<>>
    BY <1>6 DEF ConnInv, UdpFollows
  <1>8. Listed' /\ JobFollowsList' /\ \A d \in Connections : up[d] => Root(d)'
    BY <1>2, <1>3, <1>5, <1>6, BirthConn
  <1>9. <<size, token>> \in SessionIds
    BY <1>2, <1>4, IdType
  <1>10. /\ \A d \in Connections \ {c} : list'[d] = list[d]
         /\ list'[c] # <<>> /\ list'[c][1] = <<size, token>>
    BY <1>1, <1>5, <1>7, <1>9, ListGrows
  <1>11. UdpFollows'
    <2>1. /\ up'[c] /\ udp'[c]
          /\ \A d \in Connections \ {c} : up'[d] = up[d] /\ udp'[d] = udp[d]
      BY <1>1, <1>6 DEF TypeOK
    <2> QED BY <1>6, <1>10, <2>1 DEF ConnInv, UdpFollows
  <1>12. Root(c)'
    <2> PICK n \in Positions : n = size
      BY <1>2
    <2>1. sess'[n] = [token |-> token, conn |-> c, handler |-> RootHandler]
      BY <1>1, <1>2, <1>5 DEF TypeOK
    <2>2. IsValid(n)' /\ SessionId(n)' = <<n, token>> /\ sess'[n].conn = c
      BY <1>4, <2>1, ConstantTypes DEF IsValid, SessionId
    <2>3. n < size'
      BY <1>1, <1>2
    <2>4. Names(<<n, token>>)'
      BY <2>2, <2>3 DEF Names, IsValid, SessionId
    <2>5. ASSUME NEW d \in Connections \ {c}, NEW id \in Range(list'[d]) PROVE id[1] # size
      <3>1. id[1] \in 1 .. size - 1
        BY <1>10 DEF ConnInv, Listed
      <3> QED BY <1>1, <3>1
    <2> QED BY <1>10, <2>2, <2>4, <2>5 DEF Root
  <1>13. Roots'
    <2>1. \A d \in Connections \ {c} : up'[d] = up[d]
      BY <1>1, <1>6 DEF TypeOK
    <2> QED BY <1>8, <1>12, <2>1 DEF Roots
  <1> QED BY <1>8, <1>11, <1>13 DEF ConnInv

(* ConnInv does not depend on anything else. *)
LEMMA ConnUnchanged ==
    ASSUME ConnInv, UNCHANGED <<size, sess, up, list, udp, job, destroyed>>
    PROVE  ConnInv'
  BY DEF ConnInv, Listed, JobFollowsList, UdpFollows, Roots, Root, Closing, Names,
         IsValid, SessionId

(* A new session gets an index that is not the one of a root session. *)
LEMMA CreateSessionConn ==
    ASSUME NoWrap, MuxInv, ConnInv, TypeOK', NEW parent \in SessionIds,
           NEW handler \in Handlers, CreateSession(parent, handler)
    PROVE  ConnInv'
  <1> DEFINE c == sess[parent[1]].conn
  <1>1. TypeOK /\ size \in 1 .. SizeBound /\ FreeIndexesExact /\ Placed
        /\ size' \in 1 .. SizeBound
    BY DEF MuxInv, TypeOK
  <1>2. CASE Abort("createSession")
    BY <1>2, ConnUnchanged DEF Abort, table
  <1>3. CASE /\ Names(parent)
             /\ ReuseIndex(c, handler) \/ GrowTable(c, handler) \/ NoIndexLeft
             /\ UNCHANGED <<up, udp, job, abort, destroyed>>
    <2>1. parent[1] \in Positions /\ IsValid(parent[1])
      BY <1>1, <1>3, ConstantTypes DEF Names, Positions, SessionIds, Indexes
    <2>2. c \in Connections /\ up[c]
      BY <2>1, LiveSession
    <2> HIDE DEF c
    <2>3. job = NoJob /\ ~destroyed
      BY DEF CreateSession, Idle
    <2>4. ASSUME NEW p \in Positions, ~IsValid(p), p \in 1 .. size' - 1, size' >= size,
                 Revive(p, c, handler)
          PROVE  ConnInv'
      <3>1. Index(p) = p
        BY <1>1, IdOfPosition
      <3>2. PICK token \in Tokens :
              /\ sess' = [sess EXCEPT ![p] = [token |-> token, conn |-> c,
                                              handler |-> handler]]
              /\ list' = [list EXCEPT ![c] = Append(@, <<p, token>>)]
        BY <2>4, <3>1 DEF Revive
      <3>3. Listed' /\ JobFollowsList' /\ \A d \in Connections : up[d] => Root(d)'
        BY <1>1, <1>3, <2>2, <2>3, <2>4, <3>2, BirthConn
      <3>4. Roots'
        BY <1>3, <3>3 DEF Roots
      <3>5. \A d \in Connections \ {c} : list'[d] = list[d]
        BY <1>1, <3>2 DEF TypeOK
      <3>6. UdpFollows'
        BY <1>3, <2>2, <3>5 DEF ConnInv, UdpFollows
      <3> QED BY <3>3, <3>4, <3>6 DEF ConnInv
    <2>5. CASE ReuseIndex(c, handler)
      <3> DEFINE p == reuse[Len(reuse)]
      <3>1. Distinct(reuse) /\ Range(reuse) = {q \in 1 .. size - 1 : ~IsValid(q)}
        BY <1>1 DEF FreeIndexesExact, Distinct
      <3>2. reuse # <<>> /\ reuse \in Seq(Indexes) /\ size' = size
            /\ Revive(p, c, handler)
        BY <1>1, <2>5 DEF ReuseIndex, TypeOK
      <3>3. p \in Range(reuse)
        BY <3>1, <3>2, PopBack
      <3> HIDE DEF p
      <3>4. p \in 1 .. size - 1 /\ ~IsValid(p)
        BY <3>1, <3>3
      <3>5. p \in Positions /\ size' >= size
        BY <1>1, <3>2, <3>4, PositionsInTable
      <3> QED BY <2>4, <3>2, <3>4, <3>5
    <2>6. CASE GrowTable(c, handler)
      <3>1. PICK p \in Positions : p = size
        BY <1>1, <2>6, ConstantTypes DEF GrowTable, Positions
      <3>2. Revive(p, c, handler) /\ size' = p + 1
        BY <2>6, <3>1 DEF GrowTable
      <3>3. p \in 1 .. size' - 1 /\ size' >= size /\ p \notin 1 .. size - 1
        BY <1>1, <3>1, <3>2
      <3>4. ~IsValid(p)
        BY <1>1, <3>3 DEF Placed
      <3> QED BY <2>4, <3>2, <3>3, <3>4
    <2>7. CASE NoIndexLeft
      BY <1>3, <2>7, ConnUnchanged DEF NoIndexLeft, table
    <2> QED BY <1>3, <2>5, <2>6, <2>7
  <1> QED BY <1>2, <1>3 DEF CreateSession

(* A connection that is being closed may lose its root session. *)
LEMMA StartClosingConn ==
    ASSUME ConnInv, NEW C \in SUBSET Connections, NEW byServer \in BOOLEAN,
           job = NoJob, StartClosing(C, byServer),
           UNCHANGED <<size, sess, up, list, udp>>,
           destroyed' \/ (byServer /\ UNCHANGED destroyed)
    PROVE  ConnInv'
  <1>1. \A c \in Connections : ~Closing(c)
    BY ConstantTypes DEF Closing, NoJob, Connections
  <1>2. \/ job' = NoJob
        \/ /\ job'.conn \in C /\ job'.rest = list[job'.conn]
           /\ job'.more = C \ {job'.conn} /\ job'.byServer = byServer
    BY DEF StartClosing
  <1>3. Listed'
    BY DEF ConnInv, Listed
  <1>4. JobFollowsList'
    <2>1. Range(NoJob.rest) = {}
      BY DEF NoJob, Range
    <2> QED BY <1>2, <2>1 DEF JobFollowsList
  <1>5. UdpFollows'
    BY <1>2 DEF ConnInv, UdpFollows
  <1>6. Roots'
    BY <1>1 DEF ConnInv, Roots, Root, Names, IsValid, SessionId
  <1> QED BY <1>3, <1>4, <1>5, <1>6 DEF ConnInv

(* A session dies that is the root of no connection but the one being closed. *)
LEMMA DeathConn ==
    ASSUME NoWrap, MuxInv, ConnInv, NEW id \in SessionIds, CloseSessionLocked(id),
           reuse' \in Seq(Indexes), UNCHANGED <<up, list>>, job'.conn = job.conn,
           \A c \in Connections : up[c] /\ ~Closing(c) =>
               id[1] # list[c][1][1]
    PROVE  Listed' /\ Roots'
  <1>1. size' = size /\ \A q \in Positions : q # id[1] => sess'[q] = sess[q]
    BY CloseSessionLockedInv
  <1>2. size \in 1 .. SizeBound
    BY DEF MuxInv, TypeOK
  <1>3. Listed'
    BY <1>1 DEF ConnInv, Listed
  <1>4. ASSUME NEW c \in Connections, up[c], ~Closing(c) PROVE Root(c)'
    <2>1. Root(c) /\ Listed
      BY <1>4 DEF ConnInv, Roots
    <2>2. list[c][1][1] \in Positions /\ list[c] # <<>>
      BY <2>1, RootPosition DEF Root
    <2>3. sess'[list[c][1][1]] = sess[list[c][1][1]]
      BY <1>1, <1>4, <2>2
    <2>4. \A d \in Connections \ {c} : \A y \in Range(list'[d]) : y[1] # list[c][1][1]
      BY <2>1 DEF Root
    <2>5. size' \in 1 .. SizeBound /\ size' >= size
      BY <1>1, <1>2
    <2> QED BY <2>1, <2>2, <2>3, <2>4, <2>5, RootKept
  <1>5. Roots'
    BY <1>4 DEF Roots, Closing
  <1> QED BY <1>3, <1>5

(* Closing a session that is not a root session leaves all of these alive. *)
LEMMA CloseSessionConn ==
    ASSUME NoWrap, MuxInv, ConnInv, TypeOK', NEW id \in SessionIds, CloseSession(id)
    PROVE  ConnInv'
  <1> DEFINE c == sess[id[1]].conn
  <1>1. TypeOK /\ id[1] \in Positions
    <2>1. TypeOK /\ size \in 1 .. SizeBound
      BY DEF MuxInv, TypeOK
    <2> QED BY <2>1, ConstantTypes DEF CloseSession, Positions, SessionIds, Indexes
  <1>2. c \in Connections
    BY <1>1 DEF TypeOK
  <1>3. job = NoJob /\ ~destroyed
    BY DEF CloseSession, Idle
  <1>4. CASE Abort("isRootSession")
    BY <1>4, ConnUnchanged DEF Abort, table
  <1>5. CASE StartClosing({c}, TRUE) /\ UNCHANGED <<table, up, list, udp, abort, destroyed>>
    <2>1. {c} \in SUBSET Connections
      BY <1>2
    <2> QED BY <1>3, <1>5, <2>1, StartClosingConn DEF table
  <1>6. CASE /\ up[c] /\ list[c][1] # SessionId(id[1])
             /\ CloseSessionLocked(id) /\ UNCHANGED <<up, list, udp, job, destroyed>>
    <2>1. ASSUME NEW d \in Connections, up[d], ~Closing(d) PROVE id[1] # list[d][1][1]
      <3>1. Root(d) /\ Listed
        BY <2>1 DEF ConnInv, Roots
      <3>2. SessionId(list[d][1][1]) = list[d][1] /\ sess[list[d][1][1]].conn = d
        BY <3>1, RootPosition DEF Root
      <3> QED BY <1>6, <3>2
    <2>2. reuse' \in Seq(Indexes)
      BY DEF TypeOK
    <2>3. Listed' /\ Roots'
      BY <1>6, <2>1, <2>2, DeathConn
    <2>4. JobFollowsList' /\ UdpFollows'
      BY <1>6 DEF ConnInv, JobFollowsList, UdpFollows
    <2> QED BY <2>3, <2>4 DEF ConnInv
  <1> QED BY <1>4, <1>5, <1>6 DEF CloseSession

(* Closing what a connection lists closes no root session of another one. *)
LEMMA CloseNextSessionConn ==
    ASSUME NoWrap, MuxInv, ConnInv, TypeOK', CloseNextSession
    PROVE  ConnInv'
  <1> DEFINE id == Head(job.rest)
  <1>1. job \in Jobs /\ job.rest # <<>> /\ job.rest \in Seq(SessionIds) /\ job # NoJob
    BY DEF MuxInv, TypeOK, Jobs, CloseNextSession
  <1>2. id \in SessionIds /\ id \in Range(job.rest)
        /\ \A y \in Range(Tail(job.rest)) : y \in Range(job.rest)
    <2>1. /\ DOMAIN job.rest = 1 .. Len(job.rest) /\ 1 \in DOMAIN job.rest
          /\ id = job.rest[1] /\ id \in SessionIds
          /\ DOMAIN Tail(job.rest) = 1 .. Len(job.rest) - 1 /\ Len(job.rest) \in Nat
          /\ \A i \in 1 .. Len(job.rest) - 1 : Tail(job.rest)[i] = job.rest[i + 1]
      BY <1>1
    <2>2. ASSUME NEW y \in Range(Tail(job.rest)) PROVE y \in Range(job.rest)
      <3>1. PICK i \in DOMAIN Tail(job.rest) : Tail(job.rest)[i] = y
        BY RangeElement
      <3>2. i + 1 \in DOMAIN job.rest /\ job.rest[i + 1] = y
        BY <2>1, <3>1
      <3> QED BY <3>2, RangeElement
    <2> QED BY <2>1, <2>2, RangeElement
  <1>3. /\ job'.conn = job.conn /\ job'.more = job.more /\ job'.rest = Tail(job.rest)
        /\ job'.byServer = job.byServer
    <2>1. job' = [job EXCEPT !.rest = Tail(@)]
      BY DEF CloseNextSession
    <2> QED BY <1>1, <2>1 DEF Jobs
  <1>4. CloseSessionLocked(id) /\ UNCHANGED <<up, list, udp, destroyed>>
    BY DEF CloseNextSession
  <1> HIDE DEF id
  <1>5. job.conn \in Connections /\ job.conn \notin job.more /\ id \in Range(list[job.conn])
    BY <1>1, <1>2 DEF ConnInv, JobFollowsList
  <1>6. ASSUME NEW c \in Connections, up[c], ~Closing(c) PROVE id[1] # list[c][1][1]
    BY <1>5, <1>6 DEF ConnInv, Roots, Root, Closing
  <1>7. reuse' \in Seq(Indexes)
    BY DEF TypeOK
  <1>8. Listed' /\ Roots'
    BY <1>2, <1>3, <1>4, <1>6, <1>7, DeathConn
  <1>9. JobFollowsList'
    BY <1>2, <1>3, <1>4, <1>5 DEF ConnInv, JobFollowsList
  <1>10. UdpFollows'
    BY <1>1, <1>3, <1>4 DEF ConnInv, UdpFollows
  <1> QED BY <1>8, <1>9, <1>10 DEF ConnInv

(* A connection gives its UDP session back when its sessions are closed. *)
LEMMA ConnectionClosedConn ==
    ASSUME NoWrap, MuxInv, ConnInv, TypeOK', ConnectionClosed
    PROVE  ConnInv'
  <1> DEFINE c == job.conn
  <1>1. TypeOK /\ size \in 1 .. SizeBound /\ job.more \in SUBSET Connections
    BY DEF MuxInv, TypeOK
  <1>2. /\ up' = [up EXCEPT ![c] = FALSE] /\ list' = [list EXCEPT ![c] = <<>>]
        /\ udp' = [udp EXCEPT ![c] = ~job.byServer]
        /\ size' = size /\ sess' = sess /\ UNCHANGED destroyed /\ job # NoJob
    BY DEF ConnectionClosed, table
  <1>3. c \in Connections /\ c \notin job.more
    BY <1>2 DEF ConnInv, JobFollowsList
  <1>4. \/ job' = NoJob
        \/ /\ job'.conn \in job.more /\ job'.rest = list[job'.conn]
           /\ job'.more = job.more \ {job'.conn} /\ job'.byServer = job.byServer
    BY DEF ConnectionClosed, StartClosing
  <1> HIDE DEF c
  <1>5. /\ list'[c] = <<>> /\ ~up'[c] /\ udp'[c] = ~job.byServer
        /\ \A d \in Connections \ {c} : list'[d] = list[d] /\ up'[d] = up[d] /\ udp'[d] = udp[d]
    BY <1>1, <1>2, <1>3 DEF TypeOK
  <1>6. Range(list'[c]) = {} /\ Range(NoJob.rest) = {}
    BY <1>5 DEF Range, NoJob
  <1>7. Listed'
    BY <1>2, <1>5, <1>6 DEF ConnInv, Listed
  <1>8. JobFollowsList'
    BY <1>1, <1>3, <1>4, <1>5, <1>6 DEF JobFollowsList
  <1>9. UdpFollows'
    <2>1. \A d \in Connections : up'[d] => udp'[d]
      BY <1>5 DEF ConnInv, UdpFollows
    <2>2. ASSUME ~destroyed
          PROVE  /\ \A d \in Connections : ~up'[d] => ~udp'[d] /\ list'[d] = <<>>
                 /\ job' # NoJob => job'.byServer
      BY <1>2, <1>4, <1>5, <2>2 DEF ConnInv, UdpFollows
    <2> QED BY <1>2, <2>1, <2>2 DEF UdpFollows
  <1>10. ASSUME NEW d \in Connections, up'[d] PROVE Root(d)'
    <2>1. d # c /\ up[d] /\ ~Closing(d)
      BY <1>5, <1>10 DEF Closing, c
    <2>2. Root(d) /\ Listed
      BY <2>1 DEF ConnInv, Roots
    <2>3. list'[d] = list[d] /\ list[d] # <<>>
      BY <1>5, <2>1, <2>2 DEF Root
    <2>4. \A e \in Connections \ {d} : \A id \in Range(list'[e]) : id[1] # list[d][1][1]
      BY <1>5, <1>6, <2>2 DEF Root
    <2>5. size' \in 1 .. SizeBound /\ size' >= size
      BY <1>1, <1>2
    <2> QED BY <1>2, <2>2, <2>3, <2>4, <2>5, RootKept
  <1>11. Roots'
    BY <1>10 DEF Roots
  <1> QED BY <1>7, <1>8, <1>9, <1>11 DEF ConnInv

(* ConnInv is inductive relative to MuxInv. *)
LEMMA ConnStep ==
    ASSUME NoWrap, MuxInv, ConnInv, [Next]_muxVars
    PROVE  ConnInv'
  <1>1. TypeOK
    BY DEF MuxInv
  <1>2. TypeOK'
    BY <1>1, TypeStep
  <1>3. CASE UNCHANGED muxVars
    BY <1>3, ConnUnchanged DEF muxVars
  <1>4. ASSUME NEW c \in Connections, AddConnection(c) PROVE ConnInv'
    BY <1>2, <1>4, AddConnectionConn
  <1>5. ASSUME NEW c \in Connections, CloseConnection(c) PROVE ConnInv'
    <2>1. {c} \in SUBSET Connections
      OBVIOUS
    <2> QED BY <1>5, <2>1, StartClosingConn DEF CloseConnection, Idle, table
  <1>6. ASSUME NEW id \in KnownIds, NEW handler \in Handlers, CreateSession(id, handler)
        PROVE  ConnInv'
    BY <1>1, <1>2, <1>6, KnownIdsType, CreateSessionConn
  <1>7. ASSUME NEW c \in Connections, NEW id \in KnownIds, OnMessageReceived(c, id)
        PROVE  ConnInv'
    BY <1>7, ConnUnchanged DEF OnMessageReceived, Abort, muxVars, table
  <1>8. ASSUME NEW c \in Connections, NEW id \in KnownIds, OnCloseRequest(c, id)
        PROVE  ConnInv'
    BY <1>1, <1>2, <1>8, KnownIdsType, CloseSessionConn DEF OnCloseRequest
  <1>9. CASE CloseNextSession
    BY <1>2, <1>9, CloseNextSessionConn
  <1>10. CASE ConnectionClosed
    BY <1>2, <1>10, ConnectionClosedConn
  <1>11. CASE MarkAllConnectionsAsClosed
    <2> DEFINE C == {c \in Connections : up[c]}
    <2>1. /\ C \in SUBSET Connections /\ job = NoJob /\ StartClosing(C, FALSE) /\ destroyed'
          /\ UNCHANGED <<size, sess, up, list, udp>>
      BY <1>11 DEF MarkAllConnectionsAsClosed, Idle, table
    <2> HIDE DEF C
    <2> QED BY <2>1, StartClosingConn
  <1>12. CASE Halted
    BY <1>3, <1>12 DEF Halted
  <1> QED BY <1>3, <1>4, <1>5, <1>6, <1>7, <1>8, <1>9, <1>10, <1>11, <1>12 DEF Next

(* It holds at the start. *)
LEMMA ConnInit ==
    ASSUME Init
    PROVE  ConnInv
  <1>1. \A c \in Connections : ~up[c] /\ ~udp[c] /\ list[c] = <<>> /\ Range(list[c]) = {}
    BY DEF Init, Range
  <1>2. job = NoJob /\ Range(job.rest) = {}
    BY DEF Init, NoJob, Range
  <1> QED BY <1>1, <1>2 DEF ConnInv, Listed, JobFollowsList, UdpFollows, Roots

-----------------------------------------------------------------------------
(* Theorems *)

(* Both parts of the invariant hold in every state. *)
THEOREM SessionMuxInvariant ==
    ASSUME NoWrap
    PROVE  Spec => [](MuxInv /\ ConnInv)
  <1>1. Init => MuxInv /\ ConnInv
    BY MuxInit, ConnInit
  <1>2. MuxInv /\ ConnInv /\ [Next]_muxVars => (MuxInv /\ ConnInv)'
    BY MuxStep, ConnStep
  <1> QED BY <1>1, <1>2, PTL DEF Spec

(* No session outlives its connection, however closing and opening sessions
   interleave, for every number of connections, handlers and tokens. *)
THEOREM SessionsAreNotOrphaned ==
    ASSUME NoWrap
    PROVE  Spec => []NoOrphanSessions
  <1>1. MuxInv /\ ConnInv => NoOrphanSessions
    BY DEF MuxInv
  <1> QED BY <1>1, SessionMuxInvariant, PTL

(* occupyIndex hands out no index of a live session, and no index leaks. *)
THEOREM FreeIndexesAreExact ==
    ASSUME NoWrap
    PROVE  Spec => []FreeIndexesExact
  <1>1. MuxInv /\ ConnInv => FreeIndexesExact
    BY DEF MuxInv
  <1> QED BY <1>1, SessionMuxInvariant, PTL

(* The assertion of ~SessionMux holds: after markAllConnectionsAsClosed no
   session is alive. *)
THEOREM DestructorFindsNoSession ==
    ASSUME NoWrap
    PROVE  Spec => []DestructorIsClean
  <1>1. MuxInv /\ ConnInv => DestructorIsClean
    <2> SUFFICES ASSUME MuxInv, destroyed, job = NoJob, abort = "none",
                        NEW p \in Positions, IsValid(p)
                 PROVE  FALSE
      BY DEF DestructorIsClean
    <2>1. sess[p].conn \in Connections /\ up[sess[p].conn]
      BY LiveSession
    <2>2. sess[p].conn = job.conn \/ sess[p].conn \in job.more
      BY <2>1 DEF MuxInv, Unlinking
    <2>3. job.conn = -1 /\ job.more = {}
      BY DEF NoJob
    <2> QED BY <2>1, <2>2, <2>3, ConstantTypes DEF Connections
  <1> QED BY <1>1, SessionMuxInvariant, PTL

(* The root session of an open connection stays alive until the connection
   itself is closed: nobody else can list its index, which was new. *)
THEOREM RootSessionsStayAlive ==
    ASSUME NoWrap
    PROVE  Spec => []RootSessionAlive
  <1>1. MuxInv /\ ConnInv => RootSessionAlive
    BY DEF ConnInv, Roots, Root, RootSessionAlive
  <1> QED BY <1>1, SessionMuxInvariant, PTL

(* The UDP session of a connection is in use exactly while the connection is
   open, so a login finds a closed and empty connection in its slot. *)
THEOREM UdpSessionsMatchConnections ==
    ASSUME NoWrap
    PROVE  Spec => []UdpMatchesConnection
  <1>1. MuxInv /\ ConnInv => UdpMatchesConnection
    <2> SUFFICES ASSUME MuxInv, ConnInv, ~destroyed, NEW c \in Connections
                 PROVE  udp[c] = up[c] /\ (~up[c] => list[c] = <<>>)
      BY DEF UdpMatchesConnection
    <2>1. udp[c] \in BOOLEAN /\ up[c] \in BOOLEAN
      BY DEF MuxInv, TypeOK
    <2> QED BY <2>1 DEF ConnInv, UdpFollows
  <1> QED BY <1>1, SessionMuxInvariant, PTL

(* A session dies only while the UDP session of its connection is open. *)
THEOREM ClosedIndicationsCanLeave ==
    ASSUME NoWrap
    PROVE  Spec => ClosedIndCanLeave
  <1>1. MuxInv /\ ConnInv =>
            \A p \in Positions : IsValid(p) /\ ~IsValid(p)' => udp[sess[p].conn]
    BY LiveSession DEF ConnInv, UdpFollows
  <1> QED BY <1>1, SessionMuxInvariant, PTL DEF ClosedIndCanLeave

(* Closing a connection closes no session of another one, as long as no two
   connections list the same id. *)
THEOREM OnlyOwnSessionsAreClosed ==
    ASSUME NoWrap
    PROVE  Spec => ClosesOwnSessionsOnly
  <1> DEFINE A == job # NoJob
                  /\ (\A c, d \in Connections : c # d => Range(list[c]) \cap Range(list[d]) = {})
                  => \A p \in Positions : IsValid(p) /\ ~IsValid(p)' => sess[p].conn = job.conn
  <1>1. ASSUME MuxInv, ConnInv, Next, job # NoJob,
               \A c, d \in Connections : c # d => Range(list[c]) \cap Range(list[d]) = {},
               NEW p \in Positions, IsValid(p), ~IsValid(p)'
        PROVE  sess[p].conn = job.conn
    <2>1. sess' # sess
      BY <1>1 DEF IsValid
    <2>2. CloseNextSession
      BY <1>1, <2>1 DEF Next, AddConnection, CloseConnection, CreateSession, OnMessageReceived,
            OnCloseRequest, CloseSession, ConnectionClosed, MarkAllConnectionsAsClosed, Halted,
            Idle, table, muxVars
    <2> DEFINE id == Head(job.rest)
    <2>3. job.rest # <<>> /\ job.rest \in Seq(SessionIds) /\ reuse \in Seq(Indexes) /\ TypeOK
      BY <1>1, <2>2 DEF MuxInv, TypeOK, CloseNextSession
    <2>4. id \in SessionIds /\ id \in Range(job.rest)
      <3>1. 1 \in DOMAIN job.rest /\ id = job.rest[1] /\ id \in SessionIds
        BY <2>3
      <3> QED BY <3>1, RangeElement
    <2>5. CloseSessionLocked(id)
      BY <2>2 DEF CloseNextSession
    <2> HIDE DEF id
    <2>6. reuse' \in Seq(Indexes)
      BY <2>3, <2>4, <2>5, CloseSessionLockedType
    <2>7. SessionId(p) = id
      BY <1>1, <2>4, <2>5, <2>6, CloseSessionLockedInv
    <2>8. job.conn \in Connections /\ id \in Range(list[job.conn])
      BY <1>1, <2>4 DEF ConnInv, JobFollowsList
    <2>9. sess[p].conn \in Connections /\ id \in Range(list[sess[p].conn])
      BY <1>1, <2>7, LiveSession
    <2> QED BY <1>1, <2>8, <2>9
  <1>2. MuxInv /\ ConnInv /\ [Next]_muxVars => [A]_muxVars
    BY <1>1
  <1>3. ClosesOwnSessionsOnly <=> [][A]_muxVars
    BY PTL DEF ClosesOwnSessionsOnly
  <1> HIDE DEF A
  <1> QED BY <1>2, <1>3, SessionMuxInvariant, PTL DEF Spec

(* Connections, root sessions, UDP sessions and the destruction of the player
   agree, for every number of connections and of positions: the four results
   above as the one invariant that the model checker checks. *)
THEOREM ConnectionsStayExact ==
    ASSUME NoWrap
    PROVE  Spec => []ConnectionsAreExact
  BY SessionMuxTypeCorrect, RootSessionsStayAlive, UdpSessionsMatchConnections,
     DestructorFindsNoSession, PTL DEF ConnectionsAreExact

(* A session is closed only for its own connection, and while its UDP session
   can still carry the closed_ind (closeSessionLocked). *)
THEOREM ClosingStaysExact ==
    ASSUME NoWrap
    PROVE  Spec => ClosingIsExact
  BY ClosedIndicationsCanLeave, OnlyOwnSessionsAreClosed DEF ClosingIsExact
-----------------------------------------------------------------------------
(* Tunnels *)

(* A commutator is asked for tunnels to the modules in its slots only. *)
AskedForAttached ==
    \A com \in Commutators : \A i \in DOMAIN inbox[com] :
        inbox[com][i].open \in Attached[com] \cup {NoHandler}

(* Between createSession and openSession a place of the module is spoken for: no other
   commutator has the module in its slots. *)
PlaceIsKept ==
    \A com \in Commutators :
        opening[com] # NoTunnel =>
            /\ phase = "work"
            /\ opening[com].module \in Attached[com]
            /\ Cardinality(active[opening[com].module]) + nulls[opening[com].module] < SessionsLimit

(* One thread does nothing else meanwhile: the session it has created is still alive. *)
ThreadAlone ==
    threads = 1 =>
        \A com \in Commutators :
            opening[com] # NoTunnel =>
                /\ job = NoJob
                /\ \A other \in Commutators : other # com => opening[other] = NoTunnel
                /\ \/ opening[com].id = NullId
                   \/ opening[com].id \in LiveSessions(opening[com].module)

WithinLimit ==
    \A module \in Modules :
        /\ IsFiniteSet(active[module])
        /\ Cardinality(active[module]) + nulls[module] <= SessionsLimit

TunnelsInv ==
    /\ TunnelsTypeOK /\ MuxInv /\ AskedForAttached /\ PlaceIsKept /\ ThreadAlone /\ WithinLimit
    /\ TunnelsAreCounted /\ NoDeadSessionCounted

-----------------------------------------------------------------------------
(* Modules are handlers other than the root session, and commutators are modules. *)
LEMMA TunnelConstants ==
    /\ Commutators \subseteq Modules /\ Modules \subseteq Handlers /\ RootHandler \notin Modules
    /\ NoHandler \notin Modules /\ NullId \in SessionIds /\ SessionsLimit \in Nat
    /\ IsFiniteSet(Commutators)
    /\ \A com \in Commutators : Attached[com] \subseteq Modules \ {RootCommutator}
  <1>1. 0 \in Indexes
    BY ConstantTypes DEF Indexes
  <1> QED
    BY <1>1, TunnelsAssumption, ConstantTypes DEF Modules, NullId, SessionIds

(* A live session is named by its position and its token. *)
LEMMA LiveSessionsAre ==
    ASSUME NoWrap, TypeOK, NEW module \in Modules
    PROVE  /\ \A id \in LiveSessions(module) :
                 \E p \in Positions : id = <<p, sess[p].token>> /\ sess[p].handler = module
           /\ \A p \in Positions : sess[p].handler = module => <<p, sess[p].token>> \in LiveSessions(module)
  BY IdOfPosition DEF LiveSessions

Gone(module) ==
    {SessionId(p) : p \in {q \in Positions : sess[q].handler = module /\ sess'[q].handler = NoHandler}}

(* Every session that dies in a step is taken from the sessions of its module, and
   nothing else is. *)
LEMMA DeathsAreReported ==
    ASSUME NoWrap, TunnelsTypeOK, TypeOK', HandlersNotified, NEW module \in Modules,
           \A q \in Positions : \/ sess'[q] = sess[q] \/ sess'[q].handler = NoHandler
                                \/ sess[q].handler = NoHandler /\ sess'[q].handler = RootHandler
    PROVE  LiveSessions(module)' = LiveSessions(module) \ Gone(module)
           /\ active'[module] = active[module] \ Gone(module)
  <1>1. TypeOK
    BY DEF TunnelsTypeOK
  <1>2. active'[module] = active[module] \ Gone(module)
    BY DEF HandlersNotified, Gone
  <1>3. \A p \in Positions : SessionId(p) = <<p, sess[p].token>> /\ SessionId(p)' = <<p, sess'[p].token>>
    BY <1>1, ConstantTypes DEF NoWrap, Index, SessionId, Positions
  <1>4. module # NoHandler /\ module # RootHandler
    BY TunnelConstants
  <1>5. ASSUME NEW id \in LiveSessions(module)' PROVE id \in LiveSessions(module) \ Gone(module)
    <2>1. PICK p \in Positions : id = <<p, sess'[p].token>> /\ sess'[p].handler = module
      BY <1>3 DEF LiveSessions
    <2>2. sess'[p] = sess[p]
      BY <1>4, <2>1
    <2>3. id \in LiveSessions(module)
      BY <1>3, <2>1, <2>2 DEF LiveSessions
    <2>4. id \notin Gone(module)
      BY <1>3, <1>4, <2>1 DEF Gone
    <2> QED
      BY <2>3, <2>4
  <1>6. ASSUME NEW id \in LiveSessions(module), id \notin Gone(module) PROVE id \in LiveSessions(module)'
    <2>1. PICK p \in Positions : id = <<p, sess[p].token>> /\ sess[p].handler = module
      BY <1>3 DEF LiveSessions
    <2>2. sess'[p].handler # NoHandler
      BY <1>3, <1>6, <2>1 DEF Gone
    <2>3. sess'[p] = sess[p]
      BY <1>4, <2>1, <2>2
    <2> QED
      BY <1>3, <2>1, <2>3 DEF LiveSessions
  <1> QED
    BY <1>2, <1>5, <1>6

(* So all steps in which sessions die keep the invariant. *)
LEMMA ReportingKeepsInv ==
    ASSUME NoWrap, TunnelsInv, MuxInv', HandlersNotified, UNCHANGED <<threads, nulls, opening>>,
           phase' = phase, inbox' \in [Commutators -> Seq(Requests)], AskedForAttached',
           \A q \in Positions : \/ sess'[q] = sess[q] \/ sess'[q].handler = NoHandler
                                \/ sess[q].handler = NoHandler /\ sess'[q].handler = RootHandler,
           threads = 1 => \A com \in Commutators : opening[com] = NoTunnel
    PROVE  TunnelsInv'
  <1>1. TunnelsTypeOK /\ TypeOK'
    BY DEF TunnelsInv, MuxInv
  <1>2. \A module \in Modules : /\ LiveSessions(module)' = LiveSessions(module) \ Gone(module)
                                /\ active'[module] = active[module] \ Gone(module)
    BY <1>1, DeathsAreReported
  <1>3. active' \in [Modules -> SUBSET SessionIds]
    BY <1>1 DEF TunnelsTypeOK, HandlersNotified
  <1>4. TunnelsTypeOK'
    BY <1>1, <1>3 DEF TunnelsTypeOK
  <1>5. ASSUME NEW module \in Modules
        PROVE  /\ IsFiniteSet(active'[module]) /\ Cardinality(active'[module]) \in Nat
               /\ Cardinality(active[module]) \in Nat
               /\ Cardinality(active'[module]) <= Cardinality(active[module])
    <2>1. IsFiniteSet(active[module]) /\ active'[module] \subseteq active[module]
      BY <1>2 DEF TunnelsInv, WithinLimit
    <2> QED
      BY <2>1, FS_Subset, FS_CardinalityType
  <1>6. \A module \in Modules : nulls[module] \in Nat
    BY <1>1 DEF TunnelsTypeOK
  <1>7. WithinLimit'
    <2> SUFFICES ASSUME NEW module \in Modules
                 PROVE  Cardinality(active'[module]) + nulls[module] <= SessionsLimit
      BY <1>5 DEF WithinLimit
    <2>1. Cardinality(active[module]) + nulls[module] <= SessionsLimit
      BY DEF TunnelsInv, WithinLimit
    <2> QED
      BY <1>5, <1>6, <2>1, TunnelConstants
  <1>8. PlaceIsKept'
    <2> SUFFICES ASSUME NEW com \in Commutators, opening[com] # NoTunnel
                 PROVE  /\ phase = "work" /\ opening[com].module \in Attached[com]
                        /\ Cardinality(active'[opening[com].module]) + nulls[opening[com].module] < SessionsLimit
      BY DEF PlaceIsKept
    <2>1. /\ phase = "work" /\ opening[com].module \in Attached[com]
          /\ Cardinality(active[opening[com].module]) + nulls[opening[com].module] < SessionsLimit
      BY DEF TunnelsInv, PlaceIsKept
    <2>2. opening[com].module \in Modules
      BY <2>1, TunnelConstants
    <2> QED
      BY <1>5, <1>6, <2>1, <2>2, TunnelConstants
  <1>9. ThreadAlone'
    BY DEF ThreadAlone
  <1>10. TunnelsAreCounted'
    <2> SUFFICES ASSUME NEW module \in Modules \ {RootCommutator}
                 PROVE  LiveSessions(module)' \subseteq
                          active'[module] \cup {opening[com].id : com \in
                                    {x \in Commutators : opening[x].module = module}}
      BY DEF TunnelsAreCounted
    <2>1. LiveSessions(module) \subseteq
              active[module] \cup {opening[com].id : com \in
                                    {x \in Commutators : opening[x].module = module}}
      BY DEF TunnelsInv, TunnelsAreCounted
    <2> QED
      BY <1>2, <2>1
  <1>11. NoDeadSessionCounted'
    BY <1>2 DEF TunnelsInv, NoDeadSessionCounted
  <1> QED
    BY <1>4, <1>7, <1>8, <1>9, <1>10, <1>11 DEF TunnelsInv

-----------------------------------------------------------------------------
(* What the operations of SessionMux do to the sessions *)

DiesOnly == \A q \in Positions : sess'[q] = sess[q] \/ sess'[q].handler = NoHandler

(* Closing a session by its id changes nothing in the table but that it dies. *)
LEMMA LockedClosingKills ==
    ASSUME TypeOK, NEW id \in SessionIds, CloseSessionLocked(id) PROVE DiesOnly
  <1>1. CASE Die(id[1])
    <2>1. sess' = [sess EXCEPT ![id[1]] = Dead(sess[id[1]].token)] /\ sess \in [Positions -> Sessions]
      BY <1>1 DEF Die, TypeOK, Sessions
    <2> QED
      BY <2>1 DEF DiesOnly, Dead
  <1>2. CASE UNCHANGED table
    BY <1>2 DEF table, DiesOnly
  <1> QED
    BY <1>1, <1>2 DEF CloseSessionLocked

(* The same of all operations that close something. *)
LEMMA ClosingKills ==
    ASSUME TypeOK,
           \/ \E id \in SessionIds : CloseSession(id)
           \/ \E c \in Connections : CloseConnection(c)
           \/ CloseNextSession \/ ConnectionClosed
    PROVE  DiesOnly
  <1>1. ASSUME NEW id \in SessionIds, CloseSession(id) PROVE DiesOnly
    <2>1. CASE CloseSessionLocked(id)
      BY <2>1, LockedClosingKills
    <2>2. CASE UNCHANGED sess
      BY <2>2 DEF DiesOnly
    <2> QED
      BY <1>1, <2>1, <2>2 DEF CloseSession, Abort, table
  <1>2. ASSUME NEW c \in Connections, CloseConnection(c) PROVE DiesOnly
    BY <1>2 DEF CloseConnection, table, DiesOnly
  <1>3. CASE CloseNextSession
    <2>1. Head(job.rest) \in SessionIds
      BY <1>3, RangeTail DEF CloseNextSession, TypeOK
    <2> QED
      BY <1>3, <2>1, LockedClosingKills DEF CloseNextSession
  <1>4. CASE ConnectionClosed
    BY <1>4 DEF ConnectionClosed, table, DiesOnly
  <1> QED
    BY <1>1, <1>2, <1>3, <1>4

(* createSession: nothing, or a dead session is revived and listed last *)
Born(p, c, token, handler) ==
    /\ sess[p].handler = NoHandler
    /\ sess' = [sess EXCEPT ![p] = [token |-> token, conn |-> c, handler |-> handler]]
    /\ list' = [list EXCEPT ![c] = Append(@, <<p, token>>)]

(* createSession() makes one dead position alive, or changes nothing. *)
LEMMA CreatingRevives ==
    ASSUME NoWrap, MuxInv, NEW parent \in SessionIds, NEW handler \in Handlers,
           CreateSession(parent, handler)
    PROVE  \/ sess' = sess /\ list' = list
           \/ /\ abort' = abort /\ job' = job /\ Names(parent) /\ sess[parent[1]].conn \in Connections
              /\ \E p \in Positions, token \in Tokens :
                    p > 0 /\ Born(p, sess[parent[1]].conn, token, handler)
  <1> DEFINE c == sess[parent[1]].conn
  <1>0. TypeOK /\ size \in 1 .. SizeBound /\ SizeBound <= IndexSpan /\ SizeBound \in Nat /\ IndexSpan \in Nat
    BY ConstantTypes DEF MuxInv, TypeOK, NoWrap
  <1>1. CASE Abort("createSession")
    BY <1>1 DEF Abort, table
  <1>2. CASE Names(parent) /\ ~Abort("createSession")
    <2>1. c \in Connections
      <3>1. parent[1] \in Positions
        BY <1>0, <1>2 DEF Names, Positions, SessionIds, Indexes
      <3> QED
        BY <1>0, <3>1 DEF TypeOK
    <2>2. abort' = abort /\ job' = job /\ (ReuseIndex(c, handler) \/ GrowTable(c, handler) \/ NoIndexLeft)
      BY <1>2 DEF CreateSession
    <2> HIDE DEF c
    <2>3. ASSUME NEW p \in Positions, p > 0, ~IsValid(p), Revive(p, c, handler)
          PROVE  \E token \in Tokens : Born(p, c, token, handler)
      <3>1. Index(p) = p
        BY <1>0, <2>3 DEF Index, Positions
      <3> QED
        BY <2>3, <3>1 DEF Revive, Born, IsValid
    <2>4. CASE ReuseIndex(c, handler)
      <3>1. reuse \in Seq(Indexes) /\ reuse # <<>>
        BY <1>0, <2>4 DEF ReuseIndex, TypeOK
      <3>2. Len(reuse) \in DOMAIN reuse
        BY <3>1
      <3>3. reuse[Len(reuse)] \in Range(reuse)
        BY <3>2, RangeElement
      <3>4. reuse[Len(reuse)] \in 1 .. size - 1 /\ ~IsValid(reuse[Len(reuse)])
        BY <3>3 DEF MuxInv, FreeIndexesExact
      <3>5. reuse[Len(reuse)] \in Positions /\ reuse[Len(reuse)] > 0
        BY <1>0, <3>4 DEF Positions
      <3> QED
        BY <2>1, <2>2, <2>3, <2>4, <3>4, <3>5, <1>2 DEF ReuseIndex, c
    <2>5. CASE GrowTable(c, handler)
      <3>1. size \in Positions /\ size > 0
        BY <1>0, <2>5 DEF GrowTable, Positions
      <3>2. ~IsValid(size)
        BY <1>0, <3>1 DEF MuxInv, Placed
      <3> QED
        BY <2>1, <2>2, <2>3, <2>5, <3>1, <3>2, <1>2 DEF GrowTable, c
    <2>6. CASE NoIndexLeft
      BY <2>6 DEF NoIndexLeft, table
    <2> QED
      BY <2>2, <2>4, <2>5, <2>6
  <1> QED
    BY <1>1, <1>2 DEF CreateSession

(* A session that is born is one more of its module. *)
LEMMA BirthsAreSeen ==
    ASSUME NoWrap, TypeOK, TypeOK', NEW p \in Positions, NEW c \in Connections, NEW token \in Tokens,
           NEW handler \in Handlers, Born(p, c, token, handler)
    PROVE  \A module \in Modules :
               LiveSessions(module)' = LiveSessions(module) \cup (IF module = handler THEN {<<p, token>>} ELSE {})
  <1>1. \A q \in Positions : SessionId(q) = <<q, sess[q].token>> /\ SessionId(q)' = <<q, sess'[q].token>>
    BY ConstantTypes DEF NoWrap, Index, SessionId, Positions
  <1>2. /\ sess'[p] = [token |-> token, conn |-> c, handler |-> handler]
        /\ \A q \in Positions : q # p => sess'[q] = sess[q]
        /\ sess[p].handler = NoHandler
    BY DEF Born, TypeOK
  <1>3. sess'[p].handler = handler /\ sess'[p].token = token
    BY <1>2
  <1> SUFFICES ASSUME NEW module \in Modules
               PROVE  LiveSessions(module)' = LiveSessions(module) \cup (IF module = handler THEN {<<p, token>>} ELSE {})
    OBVIOUS
  <1>4. module # NoHandler
    BY TunnelConstants
  <1>5. ASSUME NEW id \in LiveSessions(module)'
        PROVE  id \in LiveSessions(module) \cup (IF module = handler THEN {<<p, token>>} ELSE {})
    <2>1. PICK q \in Positions : id = <<q, sess'[q].token>> /\ sess'[q].handler = module
      BY <1>1 DEF LiveSessions
    <2>2. CASE q = p
      BY <1>3, <2>1, <2>2
    <2>3. CASE q # p
      BY <1>1, <1>2, <2>1, <2>3 DEF LiveSessions
    <2> QED
      BY <2>2, <2>3
  <1>6. ASSUME NEW id \in LiveSessions(module) PROVE id \in LiveSessions(module)'
    <2>1. PICK q \in Positions : id = <<q, sess[q].token>> /\ sess[q].handler = module
      BY <1>1 DEF LiveSessions
    <2>2. q # p
      BY <1>2, <1>4, <2>1
    <2> QED
      BY <1>1, <1>2, <2>1, <2>2 DEF LiveSessions
  <1>7. module = handler => <<p, token>> \in LiveSessions(module)'
    BY <1>1, <1>3 DEF LiveSessions
  <1> QED
    BY <1>5, <1>6, <1>7

-----------------------------------------------------------------------------
(* One lemma per step *)

(* Steps of the main thread while no module runs. *)
LEMMA MainThreadInv ==
    ASSUME NoWrap, TunnelsInv, MainThreadStep PROVE TunnelsInv'
  <1>1. TypeOK /\ MuxInv /\ phase = "receive"
    BY DEF TunnelsInv, MuxInv, MainThreadStep
  <1>2. MuxInv'
    <2>1. Next
      BY DEF MainThreadStep, Next
    <2> QED
      BY <1>1, <2>1, MuxStep
  <1>3. \A q \in Positions : \/ sess'[q] = sess[q] \/ sess'[q].handler = NoHandler
                             \/ sess[q].handler = NoHandler /\ sess'[q].handler = RootHandler
    <2>1. ASSUME NEW c \in Connections, AddConnection(c)
          PROVE  \A q \in Positions : \/ sess'[q] = sess[q]
                                      \/ sess[q].handler = NoHandler /\ sess'[q].handler = RootHandler
      <3>1. PICK token \in Tokens : sess' = [sess EXCEPT ![size] =
                                        [token |-> token, conn |-> c, handler |-> RootHandler]]
        BY <2>1 DEF AddConnection
      <3>2. size \in Positions /\ size \in 1 .. SizeBound
        BY <1>1, <2>1, ConstantTypes DEF AddConnection, TypeOK, Positions
      <3>3. sess[size].handler = NoHandler
        BY <1>1, <3>2 DEF MuxInv, Placed, IsValid
      <3> QED
        BY <1>1, <3>1, <3>2, <3>3 DEF TypeOK
    <2>2. ASSUME NEW c \in Connections, CloseConnection(c) PROVE DiesOnly
      BY <1>1, <2>2, ClosingKills
    <2>3. ASSUME NEW c \in Connections, NEW id \in KnownIds, OnCloseRequest(c, id) PROVE DiesOnly
      BY <1>1, <2>3, ClosingKills, KnownIdsType DEF OnCloseRequest
    <2> QED
      BY <2>1, <2>2, <2>3 DEF MainThreadStep, DiesOnly
  <1>4. /\ HandlersNotified /\ UNCHANGED <<threads, nulls, opening>> /\ phase' = phase /\ inbox' = inbox
    BY DEF MainThreadStep
  <1>5. \A com \in Commutators : opening[com] = NoTunnel
    BY <1>1 DEF TunnelsInv, PlaceIsKept
  <1>6. inbox' \in [Commutators -> Seq(Requests)] /\ AskedForAttached'
    BY <1>4 DEF TunnelsInv, TunnelsTypeOK, AskedForAttached
  <1> QED
    BY <1>2, <1>3, <1>4, <1>5, <1>6, ReportingKeepsInv

(* Steps of the loop that closes a connection, at any time. *)
LEMMA ClosingInv ==
    ASSUME NoWrap, TunnelsInv, ClosingStep PROVE TunnelsInv'
  <1>1. TypeOK /\ MuxInv /\ job # NoJob
    BY DEF TunnelsInv, MuxInv, ClosingStep, CloseNextSession, ConnectionClosed
  <1>2. MuxInv'
    BY <1>1, MuxStep DEF ClosingStep, Next
  <1>3. DiesOnly
    BY <1>1, ClosingKills DEF ClosingStep
  <1>4. /\ HandlersNotified /\ UNCHANGED <<threads, nulls, opening>> /\ phase' = phase /\ inbox' = inbox
    BY DEF ClosingStep
  <1>5. threads = 1 => \A com \in Commutators : opening[com] = NoTunnel
    BY <1>1 DEF TunnelsInv, ThreadAlone
  <1>6. inbox' \in [Commutators -> Seq(Requests)] /\ AskedForAttached'
    BY <1>4 DEF TunnelsInv, TunnelsTypeOK, AskedForAttached
  <1> QED
    BY <1>2, <1>3, <1>4, <1>5, <1>6, ReportingKeepsInv DEF DiesOnly

(* The thread that takes a request is free. *)
LEMMA TakerIsFree ==
    ASSUME TunnelsInv, NEW com \in Commutators, Takes(com)
    PROVE  /\ phase = "work" /\ opening[com] = NoTunnel
           /\ threads = 1 => \A other \in Commutators : opening[other] = NoTunnel
           /\ Head(inbox[com]) \in Requests
           /\ Head(inbox[com]).open \in Attached[com] \cup {NoHandler}
           /\ inbox' \in [Commutators -> Seq(Requests)] /\ AskedForAttached'
  <1> DEFINE s == inbox[com]
             busy == {other \in Commutators : opening[other] # NoTunnel}
  <1>1. phase = "work" /\ opening[com] = NoTunnel /\ Cardinality(busy) < threads
    BY DEF Takes
  <1>2. ASSUME threads = 1, NEW other \in Commutators PROVE opening[other] = NoTunnel
    <2>1. IsFiniteSet(busy)
      BY TunnelConstants, FS_Subset
    <2>2. Cardinality(busy) \in Nat
      BY <2>1, FS_CardinalityType
    <2>3. Cardinality(busy) = 0
      BY <1>1, <1>2, <2>2
    <2>4. busy = {}
      BY <2>1, <2>3, FS_EmptySet
    <2> QED
      BY <2>4
  <1>3. inbox \in [Commutators -> Seq(Requests)] /\ s \in Seq(Requests) /\ s # <<>>
    BY DEF TunnelsInv, TunnelsTypeOK, Takes
  <1>4. Head(s) \in Requests /\ Tail(s) \in Seq(Requests)
    BY <1>3, RangeTail
  <1>5. inbox' = [inbox EXCEPT ![com] = Tail(s)]
    BY DEF Takes
  <1>6. inbox' \in [Commutators -> Seq(Requests)]
    BY <1>3, <1>4, <1>5
  <1>7. \A i \in DOMAIN s : s[i].open \in Attached[com] \cup {NoHandler}
    BY DEF TunnelsInv, AskedForAttached
  <1>8. Head(s) = s[1] /\ 1 \in DOMAIN s /\ \A i \in DOMAIN Tail(s) : Tail(s)[i] = s[i + 1] /\ i + 1 \in DOMAIN s
    BY <1>3
  <1>9. AskedForAttached'
    <2>1. ASSUME NEW other \in Commutators, NEW i \in DOMAIN inbox'[other]
          PROVE  inbox'[other][i].open \in Attached[other] \cup {NoHandler}
      <3>1. CASE other = com
        <4>1. inbox'[com] = Tail(s)
          BY <1>3, <1>5
        <4> QED
          BY <1>7, <1>8, <3>1, <4>1
      <3>2. CASE other # com
        BY <1>3, <1>5, <3>2 DEF TunnelsInv, AskedForAttached
      <3> QED
        BY <3>1, <3>2
    <2> QED
      BY <2>1 DEF AskedForAttached
  <1> QED
    BY <1>1, <1>2, <1>4, <1>6, <1>7, <1>8, <1>9

(* close_tunnel closes a session, which is reported to its module. *)
LEMMA CloseTunnelInv ==
    ASSUME NoWrap, TunnelsInv, NEW com \in Commutators, OnCloseTunnelRequest(com) PROVE TunnelsInv'
  <1> DEFINE id == Head(inbox[com]).close
  <1>0. Takes(com) /\ CloseSession(id) /\ HandlersNotified /\ UNCHANGED <<threads, phase, nulls, opening>>
    BY DEF OnCloseTunnelRequest
  <1>1. TypeOK /\ MuxInv /\ id \in SessionIds
    BY <1>0, TakerIsFree DEF TunnelsInv, MuxInv, Requests
  <1>2. MuxInv'
    <2>1. TypeOK'
      BY <1>0, <1>1, CloseSessionType
    <2> QED
      BY <1>0, <1>1, <2>1, CloseSessionInv
  <1>3. DiesOnly
    BY <1>0, <1>1, ClosingKills
  <1> HIDE DEF id
  <1>4. threads = 1 => \A other \in Commutators : opening[other] = NoTunnel
    BY <1>0, TakerIsFree
  <1>5. inbox' \in [Commutators -> Seq(Requests)] /\ AskedForAttached'
    BY <1>0, TakerIsFree
  <1> QED
    BY <1>0, <1>2, <1>3, <1>4, <1>5, ReportingKeepsInv DEF DiesOnly

(* The root session opens a tunnel to the root commutator in one step (Player.cpp:74). *)
LEMMA OpenCommutatorInv ==
    ASSUME NoWrap, TunnelsInv, NEW c \in Connections, NEW id \in KnownIds, OpenCommutatorSession(c, id)
    PROVE  TunnelsInv'
  <1>1. /\ TypeOK /\ MuxInv /\ phase = "receive" /\ CreateSession(id, RootCommutator)
        /\ id \in SessionIds /\ RootCommutator \in Handlers /\ UNCHANGED tunnelVars
    BY KnownIdsType, TunnelsAssumption, TunnelConstants
       DEF TunnelsInv, MuxInv, OpenCommutatorSession, tunnelVars
  <1>2. TypeOK'
    BY <1>1, CreateSessionType
  <1>3. MuxInv'
    BY <1>1, <1>2, CreateSessionInv
  <1>4. \A com \in Commutators : opening[com] = NoTunnel
    BY <1>1 DEF TunnelsInv, PlaceIsKept
  <1>5. \A module \in Modules : /\ LiveSessions(module) \subseteq LiveSessions(module)'
                                /\ module # RootCommutator => LiveSessions(module)' = LiveSessions(module)
    <2>1. CASE sess' = sess
      BY <2>1 DEF LiveSessions, SessionId
    <2>2. ASSUME NEW p \in Positions, NEW token \in Tokens, sess[id[1]].conn \in Connections,
                 Born(p, sess[id[1]].conn, token, RootCommutator)
          PROVE  \A module \in Modules : /\ LiveSessions(module) \subseteq LiveSessions(module)'
                                         /\ module # RootCommutator => LiveSessions(module)' = LiveSessions(module)
      BY <1>1, <1>2, <2>2, BirthsAreSeen
    <2> QED
      BY <1>1, <2>1, <2>2, CreatingRevives
  <1>6. TunnelsTypeOK'
    BY <1>1, <1>2 DEF TunnelsInv, TunnelsTypeOK, tunnelVars
  <1>7. AskedForAttached' /\ PlaceIsKept' /\ WithinLimit' /\ ThreadAlone'
    BY <1>1, <1>4 DEF TunnelsInv, AskedForAttached, PlaceIsKept, WithinLimit, ThreadAlone, tunnelVars
  <1>8. TunnelsAreCounted' /\ NoDeadSessionCounted'
    BY <1>1, <1>5 DEF TunnelsInv, TunnelsAreCounted, NoDeadSessionCounted, tunnelVars
  <1> QED
    BY <1>3, <1>6, <1>7, <1>8 DEF TunnelsInv

(* Steps that change neither the sessions nor what modules count *)
LEMMA QuietInv ==
    ASSUME TunnelsInv, UNCHANGED muxVars, UNCHANGED <<threads, active, nulls, opening>>,
           phase' \in {"receive", "work"}, inbox' \in [Commutators -> Seq(Requests)], AskedForAttached',
           phase' = phase \/ \A com \in Commutators : opening[com] = NoTunnel
    PROVE  TunnelsInv'
  <1>1. \A module \in Modules : LiveSessions(module)' = LiveSessions(module)
    BY DEF muxVars, LiveSessions, SessionId
  <1>2. MuxInv' /\ TypeOK'
    BY DEF TunnelsInv, MuxInv, TypeOK, Placed, NoOrphanSessions, FreeIndexesExact, Unlinking,
           muxVars, IsValid, SessionId, Closing
  <1>3. TunnelsTypeOK'
    BY <1>2 DEF TunnelsInv, TunnelsTypeOK
  <1>4. PlaceIsKept' /\ WithinLimit'
    BY DEF TunnelsInv, PlaceIsKept, WithinLimit
  <1>5. ThreadAlone'
    <2>1. job' = job
      BY DEF muxVars
    <2>2. \A com \in Commutators : opening[com] # NoTunnel => opening[com].module \in Modules
      BY TunnelConstants DEF TunnelsInv, PlaceIsKept
    <2> QED
      BY <1>1, <2>1, <2>2 DEF TunnelsInv, ThreadAlone
  <1>6. TunnelsAreCounted' /\ NoDeadSessionCounted'
    BY <1>1 DEF TunnelsInv, TunnelsAreCounted, NoDeadSessionCounted
  <1> QED
    BY <1>2, <1>3, <1>4, <1>5, <1>6 DEF TunnelsInv

(* A request that waits changes no session. *)
LEMMA BufferInv ==
    ASSUME TunnelsInv, NEW c \in Connections, NEW id \in KnownIds, BufferRequest(c, id)
    PROVE  TunnelsInv'
  <1> DEFINE com == sess[id[1]].handler
  <1>1. UNCHANGED muxVars /\ UNCHANGED <<threads, active, nulls, opening>> /\ phase' = phase /\ com \in Commutators
    BY DEF BufferRequest, OnMessageReceived, Names
  <1>2. PICK request \in {OpenTunnel(id, module) : module \in Attached[com]}
                         \cup {CloseTunnel(id, tunnel) : tunnel \in KnownIds} :
            inbox' = [inbox EXCEPT ![com] = Append(@, request)]
    BY DEF BufferRequest
  <1>3. TypeOK /\ inbox \in [Commutators -> Seq(Requests)] /\ phase \in {"receive", "work"}
    BY DEF TunnelsInv, TunnelsTypeOK
  <1>4. request \in Requests /\ request.open \in Attached[com] \cup {NoHandler}
    <2>1. KnownIds \subseteq SessionIds /\ NullId \in SessionIds /\ Attached[com] \subseteq Modules
      BY <1>1, <1>3, KnownIdsType, TunnelConstants
    <2> HIDE DEF com
    <2>2. ASSUME NEW module \in Attached[com], request = OpenTunnel(id, module)
          PROVE  request \in Requests /\ request.open \in Attached[com] \cup {NoHandler}
      BY <2>1, <2>2 DEF OpenTunnel, Requests
    <2>3. ASSUME NEW tunnel \in KnownIds, request = CloseTunnel(id, tunnel)
          PROVE  request \in Requests /\ request.open \in Attached[com] \cup {NoHandler}
      BY <2>1, <2>3 DEF CloseTunnel, Requests
    <2> QED
      BY <1>2, <2>2, <2>3
  <1> HIDE DEF com
  <1>5. inbox' \in [Commutators -> Seq(Requests)]
    BY <1>1, <1>2, <1>3, <1>4
  <1>6. AskedForAttached'
    <2>1. ASSUME NEW other \in Commutators, NEW i \in DOMAIN inbox'[other]
          PROVE  inbox'[other][i].open \in Attached[other] \cup {NoHandler}
      <3> DEFINE s == inbox[com]
      <3>1. \A j \in DOMAIN s : s[j].open \in Attached[com] \cup {NoHandler}
        BY <1>1 DEF TunnelsInv, AskedForAttached
      <3>2. CASE other = com
        <4>1. inbox'[other] = Append(s, request) /\ s \in Seq(Requests)
          BY <1>1, <1>2, <1>3, <3>2
        <4>2. \/ i \in DOMAIN s /\ inbox'[other][i] = s[i]
              \/ inbox'[other][i] = request
          BY <1>4, <4>1
        <4> QED
          BY <1>4, <3>1, <3>2, <4>2
      <3>3. CASE other # com
        BY <1>2, <1>3, <3>3 DEF TunnelsInv, AskedForAttached
      <3> QED
        BY <3>2, <3>3
    <2> QED
      BY <2>1 DEF AskedForAttached
  <1> QED
    BY <1>1, <1>3, <1>5, <1>6, QuietInv

(* The stage of the modules begins and ends with no tunnel half open. *)
LEMMA StagesInv ==
    ASSUME TunnelsInv, BeginWork \/ EndWork \/ UNCHANGED vars PROVE TunnelsInv'
  <1>1. UNCHANGED muxVars /\ UNCHANGED <<threads, active, nulls, opening>> /\ inbox' = inbox
    BY DEF BeginWork, EndWork, vars, tunnelVars
  <1>2. phase' \in {"receive", "work"} /\ (phase' = phase \/ \A com \in Commutators : opening[com] = NoTunnel)
    BY DEF BeginWork, EndWork, vars, tunnelVars, TunnelsInv, TunnelsTypeOK, PlaceIsKept
  <1>3. inbox' \in [Commutators -> Seq(Requests)] /\ AskedForAttached'
    BY <1>1 DEF TunnelsInv, TunnelsTypeOK, AskedForAttached
  <1> QED
    BY <1>1, <1>2, <1>3, QuietInv
(* onOpenTunnelRequest once more: the session of the tunnel, if there is one, is new. *)
LEMMA CreatedTunnel ==
    ASSUME NoWrap, TunnelsInv, TypeOK', NEW com \in Commutators, NEW module \in Modules,
           NEW from \in SessionIds, CreateSession(from, module),
           opening' = IF abort' # "none" THEN opening ELSE
                        [opening EXCEPT ![com] =
                            [id |-> IF list' = list THEN NullId
                                    ELSE LET c == sess[from[1]].conn
                                         IN  list'[c][Len(list'[c])],
                             module |-> module]]
    PROVE  /\ \A other \in Modules : other # module => LiveSessions(other)' = LiveSessions(other)
           /\ \/ opening' = opening /\ LiveSessions(module)' = LiveSessions(module)
              \/ \E id \in SessionIds :
                    /\ opening' = [opening EXCEPT ![com] = [id |-> id, module |-> module]]
                    /\ \/ id = NullId /\ LiveSessions(module)' = LiveSessions(module)
                       \/ LiveSessions(module)' = LiveSessions(module) \cup {id}
  <1>1. TypeOK /\ MuxInv /\ module \in Handlers /\ NullId \in SessionIds /\ abort = "none"
    BY TunnelConstants DEF TunnelsInv, MuxInv, CreateSession, Idle
  <1>2. CASE sess' = sess /\ list' = list
    <2>1. \A other \in Modules : LiveSessions(other)' = LiveSessions(other)
      BY <1>2 DEF LiveSessions, SessionId
    <2>2. \/ opening' = opening
          \/ opening' = [opening EXCEPT ![com] = [id |-> NullId, module |-> module]]
      BY <1>2
    <2> QED
      BY <1>1, <2>1, <2>2
  <1>3. ASSUME abort' = abort, sess[from[1]].conn \in Connections, NEW p \in Positions, NEW token \in Tokens,
               p > 0, Born(p, sess[from[1]].conn, token, module)
        PROVE  /\ \A other \in Modules : other # module => LiveSessions(other)' = LiveSessions(other)
               /\ <<p, token>> \in SessionIds
               /\ opening' = [opening EXCEPT ![com] = [id |-> <<p, token>>, module |-> module]]
               /\ LiveSessions(module)' = LiveSessions(module) \cup {<<p, token>>}
    <2> DEFINE c == sess[from[1]].conn
    <2>1. \A other \in Modules :
             LiveSessions(other)' = LiveSessions(other) \cup (IF other = module THEN {<<p, token>>} ELSE {})
      BY <1>1, <1>3, BirthsAreSeen
    <2>2. Index(p) = p /\ <<p, token>> \in SessionIds
      <3>1. Index(p) = p
        BY <1>1, IdOfPosition
      <3> QED
        BY <3>1, IdType
    <2>3. list'[c] = Append(list[c], <<p, token>>) /\ list[c] \in Seq(SessionIds)
      BY <1>1, <1>3 DEF Born, TypeOK
    <2> HIDE DEF c
    <2>4. list'[c][Len(list'[c])] = <<p, token>> /\ list'[c] # list[c]
      BY <2>2, <2>3
    <2>5. opening' = [opening EXCEPT ![com] = [id |-> list'[c][Len(list'[c])], module |-> module]]
      BY <1>1, <1>3, <2>4 DEF c
    <2> QED
      BY <2>1, <2>2, <2>4, <2>5
  <1> QED
    BY <1>1, <1>2, <1>3, CreatingRevives

(* A session is created for the tunnel, or there is none left, or the process ends. *)
LEMMA TunnelCreatedInv ==
    ASSUME NoWrap, TunnelsInv, NEW com \in Commutators, NEW module \in Attached[com], NEW from \in SessionIds,
           phase = "work", opening[com] = NoTunnel,
           threads = 1 => \A other \in Commutators : opening[other] = NoTunnel,
           UNCHANGED <<threads, phase, active, nulls>>,
           inbox' \in [Commutators -> Seq(Requests)], AskedForAttached',
           CanOpenSession(module), CreateSession(from, module),
           opening' = IF abort' # "none" THEN opening ELSE
                        [opening EXCEPT ![com] =
                            [id |-> IF list' = list THEN NullId
                                    ELSE LET c == sess[from[1]].conn
                                         IN  list'[c][Len(list'[c])],
                             module |-> module]]
    PROVE  TunnelsInv'
  <1>0. module \in Modules /\ module \in Handlers
    BY TunnelConstants
  <1>1. TypeOK' /\ MuxInv'
    <2>1. TypeOK'
      BY <1>0, CreateSessionType DEF TunnelsInv, MuxInv
    <2> QED
      BY <1>0, <2>1, CreateSessionInv DEF TunnelsInv
  <1>2. job' = NoJob /\ Cardinality(active[module]) + nulls[module] < SessionsLimit
    BY DEF CreateSession, Idle, Abort, CanOpenSession
  <1>3. \A other \in Modules : other # module => LiveSessions(other)' = LiveSessions(other)
    BY <1>0, <1>1, CreatedTunnel
  <1>4. \/ opening' = opening /\ LiveSessions(module)' = LiveSessions(module)
        \/ \E id \in SessionIds :
                  /\ opening' = [opening EXCEPT ![com] = [id |-> id, module |-> module]]
                  /\ \/ id = NullId /\ LiveSessions(module)' = LiveSessions(module)
                     \/ LiveSessions(module)' = LiveSessions(module) \cup {id}
    BY <1>0, <1>1, CreatedTunnel
  <1>5. opening \in [Commutators -> [id : SessionIds, module : Modules \cup {NoHandler}]]
    BY DEF TunnelsInv, TunnelsTypeOK
  <1>6. WithinLimit'
    BY DEF TunnelsInv, WithinLimit
  <1>7. CASE opening' = opening /\ LiveSessions(module)' = LiveSessions(module)
    <2>1. \A other \in Modules : LiveSessions(other)' = LiveSessions(other)
      BY <1>3, <1>7
    <2>2. TunnelsTypeOK'
      BY <1>1, <1>7 DEF TunnelsInv, TunnelsTypeOK
    <2>3. PlaceIsKept' /\ ThreadAlone'
      BY <1>7 DEF TunnelsInv, PlaceIsKept, ThreadAlone
    <2>4. TunnelsAreCounted' /\ NoDeadSessionCounted'
      BY <1>7, <2>1 DEF TunnelsInv, TunnelsAreCounted, NoDeadSessionCounted
    <2> QED
      BY <1>1, <1>6, <2>2, <2>3, <2>4 DEF TunnelsInv
  <1>8. ASSUME NEW id \in SessionIds,
               opening' = [opening EXCEPT ![com] = [id |-> id, module |-> module]],
               \/ id = NullId /\ LiveSessions(module)' = LiveSessions(module)
               \/ LiveSessions(module)' = LiveSessions(module) \cup {id}
        PROVE  TunnelsInv'
    <2>0. /\ opening'[com].id = id /\ opening'[com].module = module
          /\ \A other \in Commutators : other # com => opening'[other] = opening[other]
      BY <1>5, <1>8
    <2>1. TunnelsTypeOK'
      <3>1. opening' \in [Commutators -> [id : SessionIds, module : Modules \cup {NoHandler}]]
        BY <1>0, <1>5, <1>8
      <3> QED
        BY <1>1, <3>1 DEF TunnelsInv, TunnelsTypeOK
    <2>2. PlaceIsKept'
      <3> SUFFICES ASSUME NEW other \in Commutators, opening'[other] # NoTunnel
                   PROVE  /\ phase = "work" /\ opening'[other].module \in Attached[other]
                          /\ Cardinality(active[opening'[other].module]) + nulls[opening'[other].module]
                                < SessionsLimit
        BY DEF PlaceIsKept
      <3>1. CASE other = com
        BY <1>2, <2>0, <3>1
      <3>2. CASE other # com
        BY <2>0, <3>2 DEF TunnelsInv, PlaceIsKept
      <3> QED
        BY <3>1, <3>2
    <2>3. ThreadAlone'
      <3> SUFFICES ASSUME threads = 1, NEW x \in Commutators, opening'[x] # NoTunnel
                   PROVE  /\ job' = NoJob
                          /\ \A other \in Commutators : other # x => opening'[other] = NoTunnel
                          /\ \/ opening'[x].id = NullId
                             \/ opening'[x].id \in LiveSessions(opening[x].module)'
        BY DEF ThreadAlone
      <3>1. x = com
        BY <2>0
      <3>2. id = NullId \/ id \in LiveSessions(module)'
        BY <1>8
      <3> QED
        BY <1>2, <2>0, <3>1, <3>2
    <2>4. TunnelsAreCounted'
      <3> SUFFICES ASSUME NEW m \in Modules \ {RootCommutator}, NEW i \in LiveSessions(m)', i \notin active[m]
                   PROVE  \E x \in Commutators : opening'[x].module = m /\ opening'[x].id = i
        BY DEF TunnelsAreCounted
      <3>1. CASE m = module /\ i = id
        BY <2>0, <3>1
      <3>2. CASE i \in LiveSessions(m)
        <4>1. PICK x \in Commutators : opening[x].module = m /\ opening[x].id = i
          BY <3>2 DEF TunnelsInv, TunnelsAreCounted
        <4>2. x # com
          BY <4>1, TunnelConstants DEF NoTunnel
        <4> QED
          BY <2>0, <4>1, <4>2
      <3> QED
        BY <1>3, <1>8, <3>1, <3>2
    <2>5. NoDeadSessionCounted'
      <3>1. \A m \in Modules : LiveSessions(m) \subseteq LiveSessions(m)'
        BY <1>3, <1>8
      <3> QED
        BY <3>1 DEF TunnelsInv, NoDeadSessionCounted
    <2> QED
      BY <1>1, <1>6, <2>1, <2>2, <2>3, <2>4, <2>5 DEF TunnelsInv
  <1> QED
    BY <1>4, <1>7, <1>8

(* open_tunnel checks the limit and creates the session; a place is kept until openSession. *)
LEMMA OpenTunnelInv ==
    ASSUME NoWrap, TunnelsInv, NEW com \in Commutators, OnOpenTunnelRequest(com) PROVE TunnelsInv'
  <1> DEFINE module == Head(inbox[com]).open
             from == Head(inbox[com]).from
  <1>1. /\ Takes(com) /\ module # NoHandler /\ UNCHANGED <<threads, phase, active, nulls>>
    BY DEF OnOpenTunnelRequest
  <1>2. /\ phase = "work" /\ opening[com] = NoTunnel
        /\ threads = 1 => \A other \in Commutators : opening[other] = NoTunnel
        /\ from \in SessionIds /\ module \in Attached[com]
        /\ inbox' \in [Commutators -> Seq(Requests)] /\ AskedForAttached'
    BY <1>1, TakerIsFree DEF Requests
  <1>3. module \in Modules /\ module \in Handlers
    BY <1>2, TunnelConstants
  <1>4. \/ UNCHANGED <<muxVars, opening>>
        \/ /\ CanOpenSession(module)
           /\ CreateSession(from, module)
           /\ opening' = IF abort' # "none" THEN opening ELSE
                        [opening EXCEPT ![com] =
                            [id |-> IF list' = list THEN NullId
                                    ELSE LET c == sess[from[1]].conn
                                         IN  list'[c][Len(list'[c])],
                             module |-> module]]
    BY DEF OnOpenTunnelRequest
  <1> HIDE DEF module, from
  <1>5. CASE UNCHANGED <<muxVars, opening>>
    BY <1>1, <1>2, <1>5, QuietInv
  <1> QED
    BY <1>1, <1>2, <1>4, <1>5, TunnelCreatedInv

(* BaseModule::openSession: its assertion holds, as the place has been kept. *)
LEMMA OpenSessionInv ==
    ASSUME NoWrap, TunnelsInv, NEW com \in Commutators, OpenSession(com) PROVE TunnelsInv' /\ abort' = abort
  <1> DEFINE module == opening[com].module
             id == opening[com].id
  <1>1. /\ opening[com] # NoTunnel
        /\ opening' = [opening EXCEPT ![com] = NoTunnel]
        /\ UNCHANGED <<table, up, list, udp, job, destroyed, threads, phase, inbox>>
    BY DEF OpenSession
  <1>2. /\ module \in Attached[com] /\ Cardinality(active[module]) + nulls[module] < SessionsLimit
        /\ phase = "work"
    BY <1>1 DEF TunnelsInv, PlaceIsKept
  <1>3. module \in Modules /\ module # RootCommutator /\ HasRoom(module)
    BY <1>2, TunnelConstants DEF HasRoom
  <1>4. /\ active \in [Modules -> SUBSET SessionIds] /\ nulls \in [Modules -> Nat]
        /\ opening \in [Commutators -> [id : SessionIds, module : Modules \cup {NoHandler}]]
        /\ id \in SessionIds
    BY DEF TunnelsInv, TunnelsTypeOK
  <1>5. /\ active' = [active EXCEPT ![module] = IF id # NullId THEN @ \cup {id} ELSE @]
        /\ nulls' = [nulls EXCEPT ![module] = IF id = NullId THEN @ + 1 ELSE @]
        /\ abort' = abort
    BY <1>3 DEF OpenSession
  <1> HIDE DEF module, id
  <1>6. /\ opening'[com] = NoTunnel
        /\ \A other \in Commutators : other # com => opening'[other] = opening[other]
    BY <1>1, <1>4
  <1>7. /\ active'[module] = active[module] \cup (IF id # NullId THEN {id} ELSE {})
        /\ nulls'[module] = nulls[module] + (IF id = NullId THEN 1 ELSE 0)
        /\ \A m \in Modules : m # module => active'[m] = active[m] /\ nulls'[m] = nulls[m]
        /\ active' \in [Modules -> SUBSET SessionIds] /\ nulls' \in [Modules -> Nat]
    BY <1>3, <1>4, <1>5
  <1>8. \A m \in Modules : LiveSessions(m)' = LiveSessions(m)
    BY <1>1 DEF table, LiveSessions, SessionId
  <1>9. MuxInv' /\ TypeOK'
    BY <1>1, <1>5 DEF TunnelsInv, MuxInv, TypeOK, Placed, NoOrphanSessions, FreeIndexesExact, Unlinking,
                      table, IsValid, SessionId, Closing
  <1>10. TunnelsTypeOK'
    <2>1. NoTunnel \in [id : SessionIds, module : Modules \cup {NoHandler}]
      BY TunnelConstants DEF NoTunnel
    <2>2. opening' \in [Commutators -> [id : SessionIds, module : Modules \cup {NoHandler}]]
      BY <1>1, <1>4, <2>1
    <2> QED
      BY <1>1, <1>7, <1>9, <2>2 DEF TunnelsInv, TunnelsTypeOK
  <1>11. AskedForAttached'
    BY <1>1 DEF TunnelsInv, AskedForAttached
  <1>12. /\ IsFiniteSet(active'[module])
         /\ Cardinality(active'[module]) + nulls'[module] <= SessionsLimit
    <2>1. IsFiniteSet(active[module]) /\ nulls[module] \in Nat /\ SessionsLimit \in Nat
      BY <1>3, <1>4, TunnelConstants DEF TunnelsInv, WithinLimit
    <2>2. Cardinality(active[module]) \in Nat
      BY <2>1, FS_CardinalityType
    <2>3. CASE id = NullId
      <3>1. active'[module] = active[module] /\ nulls'[module] = nulls[module] + 1
        BY <1>7, <2>3
      <3> QED
        BY <1>2, <2>1, <2>2, <3>1
    <2>4. CASE id # NullId
      <3>1. active'[module] = active[module] \cup {id} /\ nulls'[module] = nulls[module]
        BY <1>7, <2>1, <2>4
      <3>2. /\ IsFiniteSet(active[module] \cup {id})
            /\ \/ Cardinality(active[module] \cup {id}) = Cardinality(active[module])
               \/ Cardinality(active[module] \cup {id}) = Cardinality(active[module]) + 1
        BY <2>1, FS_AddElement
      <3> QED
        BY <1>2, <2>1, <2>2, <3>1, <3>2
    <2> QED
      BY <2>3, <2>4
  <1>13. WithinLimit'
    BY <1>7, <1>12 DEF TunnelsInv, WithinLimit
  <1>14. PlaceIsKept'
    <2> SUFFICES ASSUME NEW other \in Commutators, opening'[other] # NoTunnel
                 PROVE  /\ phase = "work" /\ opening'[other].module \in Attached[other]
                        /\ Cardinality(active'[opening'[other].module]) + nulls'[opening'[other].module]
                                  < SessionsLimit
      BY <1>1 DEF PlaceIsKept
    <2>1. other # com /\ opening'[other] = opening[other]
      BY <1>6
    <2>2. /\ opening[other].module \in Attached[other]
          /\ Cardinality(active[opening[other].module]) + nulls[opening[other].module] < SessionsLimit
      BY <2>1 DEF TunnelsInv, PlaceIsKept
    <2>3. opening[other].module # module /\ opening[other].module \in Modules
      BY <1>2, <2>1, <2>2, TunnelsAssumption, TunnelConstants
    <2> QED
      BY <1>2, <1>7, <2>1, <2>2, <2>3
  <1>15. ThreadAlone'
    <2>1. threads = 1 => \A other \in Commutators : opening'[other] = NoTunnel
      BY <1>1, <1>6 DEF TunnelsInv, ThreadAlone
    <2> QED
      BY <1>1, <2>1 DEF ThreadAlone
  <1>16. TunnelsAreCounted'
    <2> SUFFICES ASSUME NEW m \in Modules \ {RootCommutator}, NEW i \in LiveSessions(m), i \notin active'[m]
                 PROVE  \E x \in Commutators : opening'[x].module = m /\ opening'[x].id = i
      BY <1>8 DEF TunnelsAreCounted
    <2>1. i \notin active[m]
      BY <1>7
    <2>2. PICK x \in Commutators : opening[x].module = m /\ opening[x].id = i
      BY <2>1 DEF TunnelsInv, TunnelsAreCounted
    <2>3. i # NullId
      <3>1. PICK p \in Positions : i = <<p, sess[p].token>> /\ sess[p].handler = m
        BY LiveSessionsAre DEF TunnelsInv, MuxInv
      <3>2. m # NoHandler
        BY TunnelConstants
      <3>3. p \in 1 .. size - 1 /\ size \in 1 .. SizeBound /\ SizeBound \in Nat
        BY <3>1, <3>2, ConstantTypes DEF TunnelsInv, MuxInv, Placed, IsValid, TypeOK
      <3>4. p # 0
        BY <3>3
      <3> QED
        BY <3>1, <3>4 DEF NullId
    <2>4. x # com
      BY <1>7, <2>2, <2>3 DEF module, id
    <2> QED
      BY <1>6, <2>2, <2>4
  <1>17. NoDeadSessionCounted'
    <2> SUFFICES ASSUME threads = 1, NEW m \in Modules, NEW i \in active'[m] PROVE i \in LiveSessions(m)
      BY <1>1, <1>8 DEF NoDeadSessionCounted
    <2>1. CASE i \in active[m]
      BY <2>1 DEF TunnelsInv, NoDeadSessionCounted
    <2>2. CASE m = module /\ i = id /\ id # NullId
      BY <1>1, <2>2 DEF TunnelsInv, ThreadAlone, module, id
    <2> QED
      BY <1>7, <2>1, <2>2
  <1> QED
    BY <1>5, <1>9, <1>10, <1>11, <1>13, <1>14, <1>15, <1>16, <1>17 DEF TunnelsInv

-----------------------------------------------------------------------------
(* The invariant is inductive: one step per action. *)
LEMMA TunnelsStep ==
    ASSUME NoWrap, TunnelsInv, [TunnelsNext]_vars PROVE TunnelsInv'
  <1>1. CASE MainThreadStep
    BY <1>1, MainThreadInv
  <1>2. CASE ClosingStep
    BY <1>2, ClosingInv
  <1>3. ASSUME NEW c \in Connections, NEW id \in KnownIds, OpenCommutatorSession(c, id) PROVE TunnelsInv'
    BY <1>3, OpenCommutatorInv
  <1>4. ASSUME NEW c \in Connections, NEW id \in KnownIds, BufferRequest(c, id) PROVE TunnelsInv'
    BY <1>4, BufferInv
  <1>5. CASE BeginWork \/ EndWork \/ UNCHANGED vars
    BY <1>5, StagesInv
  <1>6. ASSUME NEW com \in Commutators, OnOpenTunnelRequest(com) PROVE TunnelsInv'
    BY <1>6, OpenTunnelInv
  <1>7. ASSUME NEW com \in Commutators, OpenSession(com) PROVE TunnelsInv'
    BY <1>7, OpenSessionInv
  <1>8. ASSUME NEW com \in Commutators, OnCloseTunnelRequest(com) PROVE TunnelsInv'
    BY <1>8, CloseTunnelInv
  <1> QED
    BY <1>1, <1>2, <1>3, <1>4, <1>5, <1>6, <1>7, <1>8 DEF TunnelsNext, Stopped

(* It holds at the start. *)
LEMMA TunnelsStart ==
    ASSUME TunnelsInit PROVE TunnelsInv
  <1>1. /\ Init /\ threads \in ThreadCounts /\ phase = "receive"
        /\ inbox = [com \in Commutators |-> <<>>] /\ active = [module \in Modules |-> {}]
        /\ nulls = [module \in Modules |-> 0] /\ opening = [com \in Commutators |-> NoTunnel]
    BY DEF TunnelsInit
  <1>2. TypeOK /\ MuxInv
    BY <1>1, MuxInit DEF MuxInv
  <1>3. NoTunnel \in [id : SessionIds, module : Modules \cup {NoHandler}]
    BY TunnelConstants DEF NoTunnel
  <1>4. TunnelsTypeOK
    BY <1>1, <1>2, <1>3 DEF TunnelsTypeOK
  <1>5. AskedForAttached /\ PlaceIsKept /\ ThreadAlone
    BY <1>1 DEF AskedForAttached, PlaceIsKept, ThreadAlone
  <1>6. WithinLimit
    <2>1. IsFiniteSet({}) /\ Cardinality({}) = 0
      BY FS_EmptySet
    <2> QED
      BY <1>1, <2>1, TunnelConstants DEF WithinLimit
  <1>7. \A module \in Modules : LiveSessions(module) = {}
    <2>1. \A p \in Positions : sess[p].handler = NoHandler
      BY <1>1 DEF Init, Dead
    <2> QED
      BY <2>1, TunnelConstants DEF LiveSessions
  <1>8. TunnelsAreCounted /\ NoDeadSessionCounted
    BY <1>1, <1>7 DEF TunnelsAreCounted, NoDeadSessionCounted
  <1> QED
    BY <1>2, <1>4, <1>5, <1>6, <1>8 DEF TunnelsInv

(* What a module counts and the one tunnel that is being opened for it bound its live sessions. *)
LEMMA LimitHolds ==
    ASSUME TunnelsInv PROVE TunnelsLimit
  <1> SUFFICES ASSUME NEW module \in Modules \ {RootCommutator}
               PROVE  Cardinality(LiveSessions(module)) <= SessionsLimit
    BY DEF TunnelsLimit
  <1>1. /\ IsFiniteSet(active[module]) /\ Cardinality(active[module]) + nulls[module] <= SessionsLimit
        /\ nulls[module] \in Nat /\ SessionsLimit \in Nat
    BY TunnelConstants DEF TunnelsInv, WithinLimit, TunnelsTypeOK
  <1>2. Cardinality(active[module]) \in Nat
    BY <1>1, FS_CardinalityType
  <1>3. \A id \in LiveSessions(module) : id \in active[module]
                \/ \E x \in Commutators : opening[x].module = module /\ opening[x].id = id
    BY DEF TunnelsInv, TunnelsAreCounted
  <1>4. CASE \A x \in Commutators : opening[x].module # module
    <2>1. LiveSessions(module) \subseteq active[module]
      BY <1>3, <1>4
    <2>2. Cardinality(LiveSessions(module)) <= Cardinality(active[module]) /\ Cardinality(LiveSessions(module)) \in Nat
      BY <1>1, <2>1, FS_Subset, FS_CardinalityType
    <2> QED
      BY <1>1, <1>2, <2>2
  <1>5. ASSUME NEW com \in Commutators, opening[com].module = module
        PROVE  Cardinality(LiveSessions(module)) <= SessionsLimit
    <2> DEFINE S == active[module] \cup {opening[com].id}
    <2>1. \A x \in Commutators : opening[x].module = module => opening[x] # NoTunnel
      BY TunnelConstants DEF NoTunnel
    <2>2. /\ Cardinality(active[module]) + nulls[module] < SessionsLimit
          /\ \A x \in Commutators : opening[x].module = module => module \in Attached[x]
      BY <1>5, <2>1 DEF TunnelsInv, PlaceIsKept
    <2>3. \A x \in Commutators : opening[x].module = module => x = com
      BY <1>5, <2>2, TunnelsAssumption
    <2>4. LiveSessions(module) \subseteq S
      BY <1>3, <2>3
    <2>5. /\ IsFiniteSet(S)
          /\ Cardinality(S) = Cardinality(active[module]) \/ Cardinality(S) = Cardinality(active[module]) + 1
      BY <1>1, FS_AddElement
    <2> HIDE DEF S
    <2>6. Cardinality(LiveSessions(module)) <= Cardinality(S) /\ Cardinality(LiveSessions(module)) \in Nat
      BY <2>4, <2>5, FS_Subset, FS_CardinalityType
    <2> QED
      BY <1>1, <1>2, <2>2, <2>5, <2>6
  <1> QED
    BY <1>4, <1>5

(* Modules and SessionMux agree on the tunnels: every live tunnel of a module is counted
   by it or about to be, none that is dead is counted for ever with one thread, and the limit
   on the sessions of a module holds, however requests of clients, closing connections and the
   threads of a stage interleave (Commutator::onOpenTunnelRequest, BaseModule::openSession,
   SessionMux::createSession and closeSession). *)
THEOREM TunnelsStayExact ==
    ASSUME NoWrap PROVE TunnelsSpec => []TunnelsAreExact
  <1>1. TunnelsInit => TunnelsInv
    BY TunnelsStart
  <1>2. TunnelsInv /\ [TunnelsNext]_vars => TunnelsInv'
    BY TunnelsStep
  <1>3. TunnelsInv => TunnelsAreExact
    BY LimitHolds DEF TunnelsInv, TunnelsAreExact
  <1> QED
    BY <1>1, <1>2, <1>3, PTL DEF TunnelsSpec
==============================================================================
