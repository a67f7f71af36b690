---------------------------- MODULE NetworkProofs ----------------------------
(***************************************************************************)
(* The ways into the server, for every number of connections, slots,       *)
(* addresses and messages, and all periods that satisfy PeriodsAssumption: *)
(* the supervision of connections, the slots of the login sockets, and the *)
(* terminal with its two queues.                                           *)
(*                                                                         *)
(* Neither bound of the supervision is inductive: that a check comes often *)
(* enough to see the silence in time depends on how old the last heartbeat *)
(* is.  Ages relates the two ages of an open connection with the time      *)
(* since the last check: either the silence or the last heartbeat is       *)
(* younger than a heartbeat timeout before that check, and the silence is  *)
(* bounded by the age of the last heartbeat, by how many heartbeats were   *)
(* sent into it.                                                           *)
(***************************************************************************)
EXTENDS MCNetwork, WellFoundedInduction, SequenceTheorems, TLAPS


(* The ages of connection c, if it is open *)
Ages(c) ==
    Up(c) =>
        /\ \/ silence[c] < HeartbeatTimeout + sinceCheck
           \/ /\ sinceHeartbeat[c] < HeartbeatTimeout + sinceCheck
              /\ silence[c] < DisconnectTimeout + sinceHeartbeat[c]
        /\ missed[c] = 0 => silence[c] <= sinceHeartbeat[c]
        /\ missed[c] = 1 =>
              silence[c] < HeartbeatTimeout + CheckPeriod + sinceHeartbeat[c]

ConnectivityInv == TypeOK /\ \A c \in Connections : Ages(c)

(* The type facts about one connection *)
LEMMA ConnectionTypes ==
    ASSUME TypeOK, NEW c \in Connections
    PROVE  /\ silence[c] \in 0 .. SilenceBound
           /\ sinceHeartbeat[c] \in 0 .. AgeBound
           /\ sinceCheck \in 0 .. CheckPeriod
           /\ missed[c] \in Nat
           /\ remote[c] \in Endpoints \cup {NoEndpoint}
  BY DEF TypeOK

(* The periods and limits can be computed with. *)
LEMMA ConstantTypes ==
    /\ HeartbeatTimeout \in Nat \ {0} /\ DisconnectTimeout \in Nat \ {0}
    /\ CheckPeriod \in Nat \ {0} /\ RoundTrip \in Nat /\ AgeBound \in Nat
    /\ ConnLimit \in Nat \ {0} /\ SilenceBound \in Nat
  BY ConnectivityAssumption DEF SilenceBound

(* Without connections there is nothing to be late. *)
LEMMA ConnectivityInit == Init => ConnectivityInv
  <1> SUFFICES ASSUME Init PROVE ConnectivityInv
    OBVIOUS
  <1>1. TypeOK
    BY ConstantTypes DEF Init, TypeOK
  <1>2. \A c \in Connections : ~Up(c)
    BY DEF Init, Up
  <1> QED BY <1>1, <1>2 DEF ConnectivityInv, Ages

(* A login starts a connection with both ages at 0 (SessionMux::addConnection). *)
LEMMA ConnectInv ==
    ASSUME ConnectivityInv, NEW e \in Endpoints, Login(e)
    PROVE  ConnectivityInv'
  <1>1. PICK d \in Connections :
          /\ remote' = [remote EXCEPT ![d] = e]
          /\ silence' = [silence EXCEPT ![d] = 0]
          /\ sinceHeartbeat' = [sinceHeartbeat EXCEPT ![d] = 0]
          /\ missed' = [missed EXCEPT ![d] = 0]
    BY DEF Login
  <1>2. UNCHANGED <<sinceCheck, echoes>>
    BY DEF Login
  <1>3. TypeOK
    BY DEF ConnectivityInv
  <1>4. TypeOK'
    BY <1>1, <1>2, <1>3, ConstantTypes DEF TypeOK
  <1>5. ASSUME NEW c \in Connections PROVE Ages(c)'
    <2>1. CASE c = d
      <3>1. silence'[c] = 0 /\ sinceHeartbeat'[c] = 0 /\ missed'[c] = 0
        BY <1>1, <1>3, <2>1 DEF TypeOK
      <3> QED BY <1>2, <3>1, <1>3, ConnectionTypes, ConstantTypes DEF Ages
    <2>2. CASE c # d
      <3>1. /\ silence'[c] = silence[c] /\ sinceHeartbeat'[c] = sinceHeartbeat[c]
            /\ missed'[c] = missed[c] /\ remote'[c] = remote[c]
        BY <1>1, <1>3, <2>2 DEF TypeOK
      <3> QED BY <1>2, <3>1 DEF Ages, Up, ConnectivityInv
    <2> QED BY <2>1, <2>2
  <1> QED BY <1>4, <1>5 DEF ConnectivityInv

(* A message came over connection d *)
LEMMA MessageInv ==
    ASSUME ConnectivityInv, NEW d \in Connections, OnMessageReceived(d),
           UNCHANGED <<remote, sinceHeartbeat, sinceCheck>>
    PROVE  /\ silence' \in [Connections -> 0 .. SilenceBound]
           /\ missed' \in [Connections -> Nat]
           /\ \A c \in Connections : Ages(c)'
  <1>1. TypeOK
    BY DEF ConnectivityInv
  <1>2. /\ silence' \in [Connections -> 0 .. SilenceBound]
        /\ missed' \in [Connections -> Nat]
    BY <1>1, ConstantTypes DEF TypeOK, OnMessageReceived
  <1>3. ASSUME NEW c \in Connections PROVE Ages(c)'
    <2>1. CASE c = d
      <3>1. silence'[c] = 0 /\ missed'[c] = 0
        BY <1>1, <2>1 DEF TypeOK, OnMessageReceived
      <3> QED BY <3>1, <1>1, ConnectionTypes, ConstantTypes DEF Ages
    <2>2. CASE c # d
      <3>1. silence'[c] = silence[c] /\ missed'[c] = missed[c]
        BY <1>1, <2>2 DEF TypeOK, OnMessageReceived
      <3> QED BY <3>1 DEF Ages, Up, ConnectivityInv
    <2> QED BY <2>1, <2>2
  <1> QED BY <1>2, <1>3

(* A client that sends a heartbeat back changes nothing at the server yet. *)
LEMMA EchoInv ==
    ASSUME ConnectivityInv, NEW e \in Endpoints, Echo(e)
    PROVE  ConnectivityInv'
  <1>1. TypeOK
    BY DEF ConnectivityInv
  <1>2. echoes' \in [Endpoints -> SUBSET (0 .. RoundTrip)]
    BY <1>1 DEF Echo, TypeOK
  <1>3. UNCHANGED <<remote, sinceHeartbeat, sinceCheck>>
    BY DEF Echo
  <1>4. CASE \E c \in Connections : OnMessageReceived(c)
    <2>1. /\ silence' \in [Connections -> 0 .. SilenceBound]
          /\ missed' \in [Connections -> Nat]
          /\ \A c \in Connections : Ages(c)'
      BY <1>3, <1>4, MessageInv
    <2> QED BY <1>1, <1>2, <1>3, <2>1 DEF ConnectivityInv, TypeOK
  <1>5. CASE UNCHANGED <<silence, missed>>
    <2>1. TypeOK'
      BY <1>1, <1>2, <1>3, <1>5 DEF TypeOK
    <2>2. \A c \in Connections : Ages(c)'
      BY <1>3, <1>5 DEF ConnectivityInv, Ages, Up
    <2> QED BY <2>1, <2>2 DEF ConnectivityInv
  <1> QED BY <1>4, <1>5 DEF Echo

(* Whatever is received ends the silence of its connection (onMessageReceived). *)
LEMMA ReceiveInv ==
    ASSUME ConnectivityInv, NEW e \in Endpoints, Receive(e)
    PROVE  ConnectivityInv'
  <1>1. UNCHANGED <<remote, sinceHeartbeat, sinceCheck, echoes>>
    BY DEF Receive
  <1>2. /\ silence' \in [Connections -> 0 .. SilenceBound]
        /\ missed' \in [Connections -> Nat]
        /\ \A c \in Connections : Ages(c)'
    BY <1>1, MessageInv DEF Receive
  <1> QED BY <1>1, <1>2 DEF ConnectivityInv, TypeOK

(* A connection closed by its client has no ages. *)
LEMMA OnCloseRequestInv ==
    ASSUME ConnectivityInv, NEW e \in Endpoints, OnCloseRequest(e)
    PROVE  ConnectivityInv'
  <1>1. PICK a, d \in Connections :
          /\ remote' = [remote EXCEPT ![d] = NoEndpoint]
          /\ silence' = [silence EXCEPT ![a] = 0, ![d] = 0]
          /\ missed' = [missed EXCEPT ![a] = 0, ![d] = 0]
          /\ sinceHeartbeat' = [sinceHeartbeat EXCEPT ![d] = 0]
    BY DEF OnCloseRequest
  <1>2. UNCHANGED <<sinceCheck, echoes>>
    BY DEF OnCloseRequest
  <1>3. TypeOK
    BY DEF ConnectivityInv
  <1>4. TypeOK'
    BY <1>1, <1>2, <1>3, ConstantTypes DEF TypeOK
  <1>5. ASSUME NEW c \in Connections PROVE Ages(c)'
    <2>1. CASE c = d
      <3>1. ~Up(c)'
        BY <1>1, <1>3, <2>1 DEF TypeOK, Up
      <3> QED BY <3>1 DEF Ages
    <2>2. CASE c # d /\ c = a
      <3>1. /\ silence'[c] = 0 /\ missed'[c] = 0
            /\ sinceHeartbeat'[c] = sinceHeartbeat[c]
        BY <1>1, <1>3, <2>2 DEF TypeOK
      <3> QED BY <1>2, <1>3, <3>1, ConnectionTypes, ConstantTypes DEF Ages
    <2>3. CASE c # d /\ c # a
      <3>1. /\ silence'[c] = silence[c] /\ sinceHeartbeat'[c] = sinceHeartbeat[c]
            /\ missed'[c] = missed[c] /\ remote'[c] = remote[c]
        BY <1>1, <1>3, <2>3 DEF TypeOK
      <3> QED BY <1>2, <3>1 DEF Ages, Up, ConnectivityInv
    <2> QED BY <2>1, <2>2, <2>3
  <1> QED BY <1>4, <1>5 DEF ConnectivityInv

(* checkConnectionsActivity() sends a heartbeat, closes the connection or leaves it, by its ages. *)
LEMMA CheckInv ==
    ASSUME ConnectivityInv, CheckConnectionsActivity
    PROVE  ConnectivityInv'
  <1>1. TypeOK
    BY DEF ConnectivityInv
  <1>2. TypeOK'
    <2>1. remote' \in [Connections -> Endpoints \cup {NoEndpoint}]
      BY <1>1 DEF TypeOK, CheckConnectionsActivity
    <2>2. silence' \in [Connections -> 0 .. SilenceBound]
      BY <1>1, ConstantTypes DEF TypeOK, CheckConnectionsActivity
    <2>3. sinceHeartbeat' \in [Connections -> 0 .. AgeBound]
      BY <1>1, ConstantTypes DEF TypeOK, CheckConnectionsActivity
    <2>4. sinceCheck' \in 0 .. CheckPeriod
      BY ConstantTypes DEF CheckConnectionsActivity
    <2>5. echoes' \in [Endpoints -> SUBSET (0 .. RoundTrip)]
      BY <1>1, ConstantTypes DEF TypeOK, CheckConnectionsActivity
    <2>6. missed' \in [Connections -> Nat]
      BY <1>1 DEF TypeOK, CheckConnectionsActivity
    <2> QED BY <2>1, <2>2, <2>3, <2>4, <2>5, <2>6 DEF TypeOK
  <1>3. ASSUME NEW c \in Connections PROVE Ages(c)'
    <2>1. Ages(c)
      BY DEF ConnectivityInv
    <2>2. CASE c \in ToClose
      <3>1. ~Up(c)'
        BY <2>2 DEF CheckConnectionsActivity, Up
      <3> QED BY <3>1 DEF Ages
    <2>3. CASE c \in ToHeartbeat /\ c \notin ToClose
      <3>1. /\ silence'[c] = silence[c] /\ sinceHeartbeat'[c] = 0
            /\ missed'[c] = missed[c] + 1 /\ sinceCheck' = 0
        BY <2>3 DEF CheckConnectionsActivity
      <3>2. Up(c) /\ silence[c] < DisconnectTimeout
        BY <2>3 DEF ToHeartbeat
      <3>3. missed'[c] = 1 => silence[c] < HeartbeatTimeout + CheckPeriod
        BY <1>1, <2>1, <3>1, <3>2, ConnectionTypes, ConstantTypes DEF Ages
      <3>4. missed'[c] # 0
        BY <1>1, <3>1, ConnectionTypes
      <3> QED BY <1>1, <3>1, <3>2, <3>3, <3>4, ConnectionTypes, ConstantTypes DEF Ages
    <2>4. CASE c \notin ToClose \cup ToHeartbeat
      <3>1. /\ silence'[c] = silence[c] /\ sinceHeartbeat'[c] = sinceHeartbeat[c]
            /\ missed'[c] = missed[c] /\ sinceCheck' = 0 /\ remote'[c] = remote[c]
        BY <2>4 DEF CheckConnectionsActivity
      <3>2. Up(c) => silence[c] < HeartbeatTimeout \/ sinceHeartbeat[c] < HeartbeatTimeout
        BY <1>1, <2>4, ConnectionTypes, ConstantTypes
           DEF ToClose, ToHeartbeat, IsTimeToSendHeartbeat
      <3>3. Up(c) => silence[c] < HeartbeatTimeout \/ silence[c] < DisconnectTimeout + sinceHeartbeat[c]
        BY <1>1, <2>1, ConnectionTypes, ConstantTypes, PeriodsAssumption DEF Ages
      <3> QED BY <1>1, <2>1, <3>1, <3>2, <3>3, ConnectionTypes, ConstantTypes DEF Ages, Up
    <2> QED BY <2>2, <2>3, <2>4
  <1> QED BY <1>2, <1>3 DEF ConnectivityInv

(* All ages grow together with the time since the last check. *)
LEMMA TickInv ==
    ASSUME ConnectivityInv, Tick
    PROVE  ConnectivityInv'
  <1>1. TypeOK
    BY DEF ConnectivityInv
  <1>2. TypeOK'
    <2>1. silence' \in [Connections -> 0 .. SilenceBound]
      BY <1>1, ConstantTypes DEF TypeOK, Tick, Older
    <2>2. sinceHeartbeat' \in [Connections -> 0 .. AgeBound]
      BY <1>1, ConstantTypes DEF TypeOK, Tick, Older
    <2>3. sinceCheck' \in 0 .. CheckPeriod
      BY <1>1, ConstantTypes DEF TypeOK, Tick
    <2>4. echoes' \in [Endpoints -> SUBSET (0 .. RoundTrip)]
      <3>1. ASSUME NEW e \in Endpoints PROVE {age + 1 : age \in echoes[e]} \subseteq 0 .. RoundTrip
        BY <1>1, ConstantTypes DEF TypeOK, Tick
      <3> QED BY <3>1 DEF Tick
    <2> QED BY <1>1, <2>1, <2>2, <2>3, <2>4 DEF TypeOK, Tick
  <1>3. ASSUME NEW c \in Connections PROVE Ages(c)'
    <2> SUFFICES ASSUME Up(c) PROVE Ages(c)'
      BY DEF Ages, Up, Tick
    <2>1. /\ silence'[c] = Older(silence[c], SilenceBound)
          /\ sinceHeartbeat'[c] = Older(sinceHeartbeat[c], AgeBound)
          /\ sinceCheck' = sinceCheck + 1 /\ sinceCheck < CheckPeriod
          /\ missed'[c] = missed[c]
      BY DEF Tick
    <2>2. silence'[c] \in Nat /\ silence'[c] <= silence[c] + 1
      BY <1>1, <2>1, ConnectionTypes, ConstantTypes DEF Older
    <2>3. /\ sinceHeartbeat'[c] \in Nat
          /\ \/ sinceHeartbeat'[c] = sinceHeartbeat[c] + 1
             \/ sinceHeartbeat'[c] = AgeBound /\ sinceHeartbeat[c] = AgeBound
      BY <1>1, <2>1, ConnectionTypes, ConstantTypes DEF Older
    <2>4. Ages(c)
      BY DEF ConnectivityInv
    <2>5. CASE sinceHeartbeat'[c] = sinceHeartbeat[c] + 1
      BY <1>1, <2>1, <2>2, <2>4, <2>5, ConnectionTypes, ConstantTypes DEF Ages
    <2>6. CASE sinceHeartbeat'[c] = AgeBound /\ sinceHeartbeat[c] = AgeBound
      <3>1. silence[c] < HeartbeatTimeout + sinceCheck
        BY <1>1, <2>1, <2>4, <2>6, ConnectionTypes, ConstantTypes, PeriodsAssumption DEF Ages
      <3> QED BY <1>1, <2>1, <2>2, <2>6, <3>1, ConnectionTypes, ConstantTypes, PeriodsAssumption
              DEF Ages
    <2> QED BY <2>3, <2>5, <2>6
  <1> QED BY <1>2, <1>3 DEF ConnectivityInv

(* The inductive invariant holds in every state. *)
THEOREM ConnectivityInvariant == Spec => []ConnectivityInv
  <1>1. Init => ConnectivityInv
    BY ConnectivityInit
  <1>2. ConnectivityInv /\ [Next]_vars => ConnectivityInv'
    <2> SUFFICES ASSUME ConnectivityInv, [Next]_vars PROVE ConnectivityInv'
      OBVIOUS
    <2>1. CASE \E e \in Endpoints : Login(e)
      BY <2>1, ConnectInv
    <2>2. CASE \E e \in Endpoints : Echo(e)
      BY <2>2, EchoInv
    <2>3. CASE \E e \in Endpoints : Receive(e)
      BY <2>3, ReceiveInv
    <2>4. CASE \E e \in Endpoints : OnCloseRequest(e)
      BY <2>4, OnCloseRequestInv
    <2>5. CASE CheckConnectionsActivity
      BY <2>5, CheckInv
    <2>6. CASE Tick
      BY <2>6, TickInv
    <2>7. CASE UNCHANGED vars
      BY <2>7 DEF vars, ConnectivityInv, TypeOK, Ages, Up
    <2> QED BY <2>1, <2>2, <2>3, <2>4, <2>5, <2>6, <2>7 DEF Next
  <1> QED BY <1>1, <1>2, PTL DEF Spec

(* The ages, the slots and the expected echoes stay in their ranges. *)
THEOREM ConnectivityTypeCorrect == Spec => []TypeOK
  <1>1. ConnectivityInv => TypeOK
    BY DEF ConnectivityInv
  <1> QED BY <1>1, ConnectivityInvariant, PTL

(* No open connection is silent for longer than checkConnectionsActivity
   allows, whatever the periods, the messages and the logins. *)
THEOREM SilenceIsBounded == Spec => []SilenceBounded
  <1>1. ConnectivityInv => SilenceBounded
    <2> SUFFICES ASSUME ConnectivityInv, NEW c \in Connections, Up(c)
                 PROVE  silence[c] < SilenceBound
      BY DEF SilenceBounded
    <2>1. TypeOK /\ Ages(c)
      BY DEF ConnectivityInv
    <2> QED BY <2>1, ConnectionTypes, ConstantTypes DEF Ages, SilenceBound
  <1> QED BY <1>1, ConnectivityInvariant, PTL

(* checkConnectionsActivity closes a silent connection only after it has sent
   two heartbeats into the silence. *)
THEOREM ClosedOnlyAfterTwoHeartbeats == Spec => []ClosedAfterTwoHeartbeats
  <1>1. ConnectivityInv => ClosedAfterTwoHeartbeats
    <2> SUFFICES ASSUME ConnectivityInv, NEW c \in ToClose PROVE missed[c] >= 2
      BY DEF ClosedAfterTwoHeartbeats
    <2>1. c \in Connections /\ Up(c) /\ silence[c] >= DisconnectTimeout
      BY DEF ToClose
    <2>2. TypeOK /\ Ages(c)
      BY <2>1 DEF ConnectivityInv
    <2>3. missed[c] # 0
      BY <2>1, <2>2, ConnectionTypes, ConstantTypes, PeriodsAssumption DEF Ages
    <2>4. missed[c] # 1
      BY <2>1, <2>2, ConnectionTypes, ConstantTypes, PeriodsAssumption DEF Ages
    <2> QED BY <2>1, <2>2, <2>3, <2>4, ConnectionTypes
  <1> QED BY <1>1, ConnectivityInvariant, PTL

(* A connection is closed after two unanswered heartbeats and not sooner, and
   no silent one stays open beyond the bound (checkConnectionsActivity). *)
THEOREM SilentAreDisconnectedInTime == Spec => []DisconnectedInTime
  BY ConnectivityTypeCorrect, SilenceIsBounded, ClosedOnlyAfterTwoHeartbeats, PTL
     DEF DisconnectedInTime
-----------------------------------------------------------------------------
(* Clients that answer.  The answer to the first heartbeat that was sent into the silence of
   such a client is still on its way, and is as old as that heartbeat: that the silence was
   short when the heartbeat was sent bounds it until the answer arrives. *)

OneConnection ==
    \A c, d \in Connections :
        Up(c) /\ remote[d] = remote[c] /\ remote[c] \notin SharedEndpoints => d = c

AnswerIsComing(c) ==
    remote[c] \in Responsive \ SharedEndpoints /\ missed[c] # 0 =>
        \E age \in echoes[remote[c]] : silence[c] < HeartbeatTimeout + CheckPeriod + age

ResponsiveInv ==
    ConnectivityInv /\ OneConnection /\ \A c \in Connections : AnswerIsComing(c)

(* An echo on its way is no older than the round trip. *)
LEMMA EchoAges ==
    ASSUME TypeOK, NEW e \in Endpoints PROVE \A age \in echoes[e] : age \in 0 .. RoundTrip
  BY DEF TypeOK

(* A connection with nothing new *)
LEMMA SameAnswer ==
    ASSUME NEW c \in Connections, AnswerIsComing(c),
           remote'[c] = remote[c], silence'[c] = silence[c], missed'[c] = missed[c],
           echoes[remote[c]] \subseteq echoes'[remote[c]]
    PROVE  AnswerIsComing(c)'
  BY DEF AnswerIsComing

(* A connection that has just been heard from or opened, or is closed *)
LEMMA NoAnswerDue ==
    ASSUME NEW c \in Connections, missed'[c] = 0 \/ ~Up(c)' PROVE AnswerIsComing(c)'
  BY ConnectivityAssumption DEF AnswerIsComing, Up

(* An endpoint that is not shared has no other connection than the one its datagrams go to. *)
LEMMA RouteIsOwn ==
    ASSUME OneConnection, NEW e \in Endpoints, NEW c \in Connections, Route(e, c),
           NEW d \in Connections, d # c
    PROVE  remote[d] # e \/ e \in SharedEndpoints
  BY ConnectivityAssumption DEF OneConnection, Route, Up

(* The invariant of clients that answer is inductive, one step per action. *)
LEMMA ResponsiveStep ==
    ASSUME ResponsiveInv, Next, ConnectivityInv' PROVE ResponsiveInv'
  <1>0. TypeOK /\ TypeOK' /\ OneConnection /\ \A c \in Connections : AnswerIsComing(c)
    BY DEF ResponsiveInv, ConnectivityInv
  <1>1. ASSUME NEW e \in Endpoints, Login(e) PROVE ResponsiveInv'
    <2>1. PICK d \in Connections :
            /\ ~Up(d)
            /\ remote' = [remote EXCEPT ![d] = e]
            /\ silence' = [silence EXCEPT ![d] = 0]
            /\ missed' = [missed EXCEPT ![d] = 0]
      BY <1>1 DEF Login
    <2>2. /\ echoes' = echoes /\ remote'[d] = e /\ missed'[d] = 0
          /\ e \in SharedEndpoints \/ \A c \in Connections : remote[c] # e
          /\ \A c \in Connections : c # d => /\ remote'[c] = remote[c] /\ silence'[c] = silence[c]
                                             /\ missed'[c] = missed[c]
      BY <1>0, <1>1, <2>1 DEF Login, TypeOK
    <2>3. OneConnection'
      BY <1>0, <2>2 DEF OneConnection, Up
    <2>4. ASSUME NEW c \in Connections PROVE AnswerIsComing(c)'
      <3>1. CASE c = d
        BY <2>2, <3>1, NoAnswerDue
      <3>2. CASE c # d
        BY <1>0, <2>2, <3>2, SameAnswer
      <3> QED
        BY <3>1, <3>2
    <2> QED
      BY <2>3, <2>4 DEF ResponsiveInv
  <1>2. ASSUME NEW e \in Endpoints, Echo(e) \/ Receive(e) PROVE ResponsiveInv'
    <2>1. /\ remote' = remote
          /\ \A f \in Endpoints : f # e => echoes'[f] = echoes[f]
      BY <1>0, <1>2 DEF Echo, Receive, TypeOK
    <2>2. OneConnection'
      BY <1>0, <2>1 DEF OneConnection, Up
    <2>3. CASE (\A c \in Connections : remote[c] # e) /\ UNCHANGED <<silence, missed>>
      <3>1. ASSUME NEW c \in Connections, Up(c) PROVE AnswerIsComing(c)'
        <4>1. remote[c] \in Endpoints /\ remote[c] # e
          BY <1>0, <2>3, <3>1 DEF TypeOK, Up
        <4> QED
          BY <1>0, <2>1, <2>3, <4>1, SameAnswer
      <3>2. \A c \in Connections : ~Up(c) => AnswerIsComing(c)'
        BY <2>1, NoAnswerDue DEF Up
      <3> QED
        BY <2>2, <3>1, <3>2 DEF ResponsiveInv
    <2>4. ASSUME NEW d \in Connections, Route(e, d), OnMessageReceived(d) PROVE ResponsiveInv'
      <3>1. /\ missed'[d] = 0
            /\ \A c \in Connections : c # d => silence'[c] = silence[c] /\ missed'[c] = missed[c]
        BY <1>0, <2>4 DEF OnMessageReceived, TypeOK
      <3>2. ASSUME NEW c \in Connections, c # d, Up(c) PROVE AnswerIsComing(c)'
        <4>1. remote[c] \in Endpoints
          BY <1>0, <3>2 DEF TypeOK, Up
        <4>2. CASE remote[c] # e
          BY <1>0, <2>1, <3>1, <3>2, <4>1, <4>2, SameAnswer
        <4>3. CASE remote[c] \in SharedEndpoints
          BY <2>1, <4>3 DEF AnswerIsComing
        <4> QED
          BY <1>0, <2>4, <3>2, <4>2, <4>3, RouteIsOwn
      <3>3. \A c \in Connections : c = d \/ ~Up(c) => AnswerIsComing(c)'
        BY <2>1, <3>1, NoAnswerDue DEF Up
      <3> QED
        BY <2>2, <3>2, <3>3 DEF ResponsiveInv
    <2> QED
      BY <1>2, <2>3, <2>4 DEF Echo, Receive
  <1>3. ASSUME NEW e \in Endpoints, OnCloseRequest(e) PROVE ResponsiveInv'
    <2>1. PICK a, d \in Connections :
            /\ remote' = [remote EXCEPT ![d] = NoEndpoint]
            /\ silence' = [silence EXCEPT ![a] = 0, ![d] = 0]
            /\ missed' = [missed EXCEPT ![a] = 0, ![d] = 0]
      BY <1>3 DEF OnCloseRequest
    <2>2. /\ echoes' = echoes /\ remote'[d] = NoEndpoint /\ missed'[a] = 0 /\ missed'[d] = 0
          /\ \A c \in Connections : c # d => remote'[c] = remote[c]
          /\ \A c \in Connections : c # d /\ c # a => silence'[c] = silence[c] /\ missed'[c] = missed[c]
      BY <1>0, <1>3, <2>1 DEF OnCloseRequest, TypeOK
    <2>3. OneConnection'
      BY <1>0, <2>2 DEF OneConnection, Up
    <2>4. ASSUME NEW c \in Connections PROVE AnswerIsComing(c)'
      <3>1. CASE c = d \/ c = a
        BY <2>2, <3>1, NoAnswerDue
      <3>2. CASE c # d /\ c # a
        BY <1>0, <2>2, <3>2, SameAnswer
      <3> QED
        BY <3>1, <3>2
    <2> QED
      BY <2>3, <2>4 DEF ResponsiveInv
  <1>4. CASE CheckConnectionsActivity
    <2>1. /\ \A c \in Connections : remote'[c] = IF c \in ToClose THEN NoEndpoint ELSE remote[c]
          /\ \A c \in Connections : silence'[c] = IF c \in ToClose THEN 0 ELSE silence[c]
          /\ \A c \in Connections : missed'[c] = IF c \in ToClose THEN 0
                                                ELSE IF c \in ToHeartbeat THEN missed[c] + 1 ELSE missed[c]
          /\ \A e \in Endpoints : echoes[e] \subseteq echoes'[e]
          /\ \A e \in Endpoints : e \in Responsive /\ (\E c \in ToHeartbeat : remote[c] = e) => 0 \in echoes'[e]
      BY <1>4 DEF CheckConnectionsActivity
    <2>2. OneConnection'
      BY <1>0, <2>1 DEF OneConnection, Up
    <2>3. ASSUME NEW c \in Connections, c \notin ToClose, Up(c) PROVE AnswerIsComing(c)'
      <3>1. remote[c] \in Endpoints /\ remote'[c] = remote[c] /\ silence'[c] = silence[c]
        BY <1>0, <2>1, <2>3 DEF TypeOK, Up
      <3>2. CASE c \notin ToHeartbeat
        BY <1>0, <2>1, <2>3, <3>1, <3>2, SameAnswer
      <3>3. CASE missed[c] # 0
        BY <1>0, <2>1, <3>1, <3>3 DEF AnswerIsComing
      <3>4. CASE c \in ToHeartbeat /\ missed[c] = 0 /\ remote[c] \in Responsive
        <4>1. 0 \in echoes'[remote[c]]
          BY <2>1, <3>1, <3>4
        <4>2. silence[c] < HeartbeatTimeout + CheckPeriod
          <5>1. Ages(c)
            BY DEF ResponsiveInv, ConnectivityInv
          <5> QED
            BY <1>0, <2>3, <3>4, <5>1, ConnectionTypes, ConstantTypes DEF Ages
        <4>3. silence[c] < HeartbeatTimeout + CheckPeriod + 0
          BY <1>0, <4>2, ConnectionTypes, ConstantTypes
        <4> QED
          BY <3>1, <4>1, <4>3 DEF AnswerIsComing
      <3>5. CASE remote[c] \notin Responsive
        BY <3>1, <3>5 DEF AnswerIsComing
      <3> QED
        BY <3>2, <3>3, <3>4, <3>5
    <2>4. \A c \in Connections : c \in ToClose \/ ~Up(c) => AnswerIsComing(c)'
      BY <2>1, NoAnswerDue DEF Up
    <2> QED
      BY <2>2, <2>3, <2>4 DEF ResponsiveInv
  <1>5. CASE Tick
    <2>1. /\ remote' = remote /\ missed' = missed
          /\ \A e \in Endpoints : echoes'[e] = {age + 1 : age \in echoes[e]}
      BY <1>5 DEF Tick
    <2>2. OneConnection'
      BY <1>0, <2>1 DEF OneConnection, Up
    <2>3. ASSUME NEW c \in Connections, remote[c] \in Responsive \ SharedEndpoints, missed[c] # 0
          PROVE  \E age \in echoes'[remote[c]] : silence'[c] < HeartbeatTimeout + CheckPeriod + age
      <3>1. remote[c] \in Endpoints
        BY <2>3, ConnectivityAssumption
      <3>2. PICK age \in echoes[remote[c]] : silence[c] < HeartbeatTimeout + CheckPeriod + age
        BY <1>0, <2>3 DEF AnswerIsComing
      <3>3. age + 1 \in echoes'[remote[c]] /\ age \in 0 .. RoundTrip
        BY <1>0, <2>1, <3>1, EchoAges
      <3>4. silence'[c] <= silence[c] + 1 /\ silence'[c] \in Int
        BY <1>0, <1>5, ConnectionTypes, ConstantTypes DEF Tick, Older
      <3>5. silence'[c] < HeartbeatTimeout + CheckPeriod + (age + 1)
        BY <1>0, <3>2, <3>3, <3>4, ConnectionTypes, ConstantTypes
      <3> QED
        BY <3>3, <3>5
    <2>4. \A c \in Connections : AnswerIsComing(c)'
      BY <2>1, <2>3 DEF AnswerIsComing
    <2> QED
      BY <2>2, <2>4 DEF ResponsiveInv
  <1> QED
    BY <1>1, <1>2, <1>3, <1>4, <1>5 DEF Next

(* A client that sends heartbeats back is never disconnected for its silence: however others
   come and go, checkConnectionsActivity finds it heard from within the timeout. *)
THEOREM ResponsiveAreKept == Spec => []ResponsiveStaysConnected
  <1>1. Init => ResponsiveInv
    <2> SUFFICES ASSUME Init PROVE ResponsiveInv
      OBVIOUS
    <2>1. \A c \in Connections : remote[c] = NoEndpoint
      BY DEF Init
    <2> QED
      BY <2>1, ConnectivityInit, ConnectivityAssumption DEF ResponsiveInv, OneConnection, AnswerIsComing, Up
  <1>2. ConnectivityInv /\ ConnectivityInv' /\ ResponsiveInv /\ [Next]_vars => ResponsiveInv'
    <2>1. ResponsiveInv /\ UNCHANGED vars => ResponsiveInv'
      BY DEF vars, ResponsiveInv, ConnectivityInv, TypeOK, Ages, Up, OneConnection, AnswerIsComing
    <2> QED
      BY <2>1, ResponsiveStep
  <1>3. ResponsiveInv => ResponsiveStaysConnected
    <2> SUFFICES ASSUME ResponsiveInv, NEW c \in ToClose, remote[c] \in Responsive \ SharedEndpoints PROVE FALSE
      BY DEF ResponsiveStaysConnected
    <2>1. c \in Connections /\ Up(c) /\ silence[c] >= DisconnectTimeout
      BY DEF ToClose
    <2>2. TypeOK /\ Ages(c) /\ AnswerIsComing(c) /\ remote[c] \in Endpoints
      BY <2>1, ConnectivityAssumption DEF ResponsiveInv, ConnectivityInv
    <2>3. CASE missed[c] = 0
      BY <2>1, <2>2, <2>3, ConnectionTypes, ConstantTypes, PeriodsAssumption DEF Ages
    <2>4. CASE missed[c] # 0
      <3>1. PICK age \in echoes[remote[c]] : silence[c] < HeartbeatTimeout + CheckPeriod + age
        BY <2>2, <2>4 DEF AnswerIsComing
      <3>2. age \in 0 .. RoundTrip
        BY <2>2, EchoAges
      <3> QED
        BY <2>1, <2>2, <3>1, <3>2, ConnectionTypes, ConstantTypes, PeriodsAssumption
    <2> QED
      BY <2>3, <2>4
  <1> QED
    BY <1>1, <1>2, <1>3, ConnectivityInvariant, PTL DEF Spec
-----------------------------------------------------------------------------
(* The login socket.  Its persistent slots are never used, so a datagram takes a slot that is
   free, and a message that waits is the only one that holds its slot. *)

(* A set of natural numbers has a least element. *)
LEMMA LeastElement ==
    ASSUME NEW T, T \subseteq Nat, T # {}
    PROVE  \E x \in T : \A y \in T : x <= y
  <1> DEFINE R == OpToRel(<, Nat)
  <1>1. \A x, y \in Nat : y < x => <<y, x>> \in R
    BY DEF OpToRel
  <1>2. IsWellFoundedOn(R, Nat)
    BY NatLessThanWellFounded
  <1> HIDE DEF R
  <1>3. PICK x \in T : \A y \in T : <<y, x>> \notin R
    BY <1>2, WFMin
  <1>4. \A y \in T : ~(y < x)
    BY <1>1, <1>3
  <1> QED
    BY <1>3, <1>4

(* The search for a slot finds one, unless there is none. *)
LEMMA LowestFound ==
    ASSUME NEW S, S \subseteq Nat \ {0}
    PROVE  /\ Lowest(S) = None <=> S = {}
           /\ Lowest(S) # None => Lowest(S) \in S
           /\ S # {} => \A j \in S : Lowest(S) <= j
  <1>1. CASE S = {}
    BY <1>1 DEF Lowest
  <1>2. CASE S # {}
    <2>1. \E i \in S : \A j \in S : i <= j
      BY <1>2, LeastElement
    <2>2. Lowest(S) = CHOOSE i \in S : \A j \in S : i <= j
      BY <1>2 DEF Lowest
    <2> QED
      BY <1>2, <2>1, <2>2 DEF None
  <1> QED
    BY <1>1, <1>2

(* The slots of a socket: first the persistent ones, then the promiscuous ones. *)
LEMMA SlotConstants ==
    /\ Persistent \in Nat \ {0} /\ Total \in Nat /\ Persistent < Total /\ Free \notin Addresses
    /\ 1 .. Persistent \subseteq Nat \ {0} /\ Persistent + 1 .. Total \subseteq Nat \ {0}
    /\ 1 .. Persistent \subseteq 1 .. Total /\ Persistent + 1 .. Total \subseteq 1 .. Total
    /\ \A i \in 1 .. Total : i \in 1 .. Persistent <=> ~(i > Persistent)
    /\ \A i \in 1 .. Total : i \in Persistent + 1 .. Total <=> i > Persistent
  BY LoginAssumption

(* onDataReceived: a slot of the sender, or a free promiscuous one *)
LEMMA SlotFound ==
    ASSUME NEW slots \in [1 .. Total -> Addresses \cup {Free}], NEW e \in Addresses, Slot(slots, e) # None
    PROVE  LET i == Slot(slots, e)
           IN  \/ i \in 1 .. Persistent /\ slots[i] = e
               \/ i \in Persistent + 1 .. Total /\ slots[i] = Free
  <1> DEFINE A == {i \in 1 .. Persistent : slots[i] = e}
             B == {i \in Persistent + 1 .. Total : slots[i] = Free}
  <1>1. A \subseteq Nat \ {0} /\ B \subseteq Nat \ {0}
    BY SlotConstants
  <1>2. SenderSlot(slots, e) = Lowest(A) /\ PromiscuousSlot(slots) = Lowest(B)
    BY DEF SenderSlot, PromiscuousSlot
  <1> HIDE DEF A, B
  <1>3. /\ Lowest(A) # None => Lowest(A) \in A
        /\ Lowest(B) # None => Lowest(B) \in B
    BY <1>1, LowestFound
  <1> QED
    BY <1>2, <1>3 DEF Slot, A, B

LoginDatagrams ==
    [slot : Persistent + 1 .. Total, kind : {"wrong", "other", "login"},
     player : Players \cup {NoPlayer}, from : Addresses]

LoginInv ==
    /\ lslots \in [1 .. Total -> Addresses \cup {Free}]
    /\ lbuffer \subseteq LoginDatagrams
    /\ unowed \subseteq Persistent + 1 .. Total
    /\ \A i \in 1 .. Persistent : lslots[i] = Free
    /\ LoginSlotsAreOwed

(* A datagram takes a free slot, and is buffered with it or is not parsed. *)
LEMMA ReceiveLoginInv ==
    ASSUME LoginInv, NEW e \in Addresses, NEW m \in LoginMessages, ReceiveLogin(e, m[1], m[2])
    PROVE  LoginInv'
  <1> DEFINE i == Slot(lslots, e)
             d == [slot |-> i, kind |-> m[1], player |-> m[2], from |-> e]
  <1>1. /\ lslots \in [1 .. Total -> Addresses \cup {Free}] /\ lbuffer \subseteq LoginDatagrams
        /\ unowed \subseteq Persistent + 1 .. Total /\ \A j \in 1 .. Persistent : lslots[j] = Free
    BY DEF LoginInv
  <1>2. /\ i # None /\ lslots' = [lslots EXCEPT ![i] = e]
        /\ \/ unowed' = unowed \cup {i} /\ lbuffer' = lbuffer
           \/ /\ m[1] # "unparsable" /\ lbuffer' = lbuffer \cup {d}
              /\ unowed' = unowed
    BY DEF ReceiveLogin
  <1>3. i \in Persistent + 1 .. Total /\ lslots[i] = Free /\ i \in 1 .. Total
    BY <1>1, <1>2, SlotFound, SlotConstants
  <1>4. m[1] # "unparsable" => d \in LoginDatagrams
    BY <1>3 DEF LoginMessages, LoginDatagrams
  <1>5. d.slot = i /\ d.from = e
    OBVIOUS
  <1> HIDE DEF i, d
  <1>6. /\ {j \in 1 .. Total : lslots[j] # Free} = {x.slot : x \in lbuffer} \cup unowed
        /\ \A x \in lbuffer : lslots[x.slot] = x.from /\ x.slot \notin unowed
        /\ \A x, y \in lbuffer : y.slot = x.slot => y = x
    BY DEF LoginInv, LoginSlotsAreOwed
  <1>7. i \notin unowed /\ \A x \in lbuffer : x.slot # i
    BY <1>3, <1>6
  <1>8. /\ lslots' \in [1 .. Total -> Addresses \cup {Free}] /\ lslots'[i] = e
        /\ \A j \in 1 .. Total : j # i => lslots'[j] = lslots[j]
    BY <1>1, <1>2, <1>3
  <1>9. {j \in 1 .. Total : lslots'[j] # Free} = {j \in 1 .. Total : lslots[j] # Free} \cup {i}
    BY <1>3, <1>8, SlotConstants
  <1>10. \A j \in 1 .. Persistent : lslots'[j] = Free
    BY <1>1, <1>3, <1>8, SlotConstants
  <1>11. \A x \in lbuffer : x.slot \in 1 .. Total
    BY <1>1, SlotConstants DEF LoginDatagrams
  <1>12. CASE unowed' = unowed \cup {i} /\ lbuffer' = lbuffer
    <2>1. LoginSlotsAreOwed'
      BY <1>6, <1>7, <1>8, <1>9, <1>11, <1>12 DEF LoginSlotsAreOwed
    <2> QED
      BY <1>1, <1>3, <1>8, <1>10, <1>12, <2>1 DEF LoginInv
  <1>13. CASE m[1] # "unparsable" /\ lbuffer' = lbuffer \cup {d} /\ unowed' = unowed
    <2>1. {x.slot : x \in lbuffer'} = {x.slot : x \in lbuffer} \cup {i}
      BY <1>5, <1>13
    <2>2. \A x \in lbuffer' : lslots'[x.slot] = x.from /\ x.slot \notin unowed'
                              /\ \A y \in lbuffer' : y.slot = x.slot => y = x
      BY <1>5, <1>6, <1>7, <1>8, <1>11, <1>13
    <2>3. LoginSlotsAreOwed'
      BY <1>6, <1>9, <1>13, <2>1, <2>2 DEF LoginSlotsAreOwed
    <2> QED
      BY <1>1, <1>4, <1>8, <1>10, <1>13, <2>3 DEF LoginInv
  <1> QED
    BY <1>2, <1>12, <1>13

(* An answer gives the slot of its datagram back, and no other one. *)
LEMMA HandleLoginInv ==
    ASSUME LoginInv, NEW d \in lbuffer, HandleLogin(d) PROVE LoginInv'
  <1>1. /\ lslots \in [1 .. Total -> Addresses \cup {Free}] /\ lbuffer \subseteq LoginDatagrams
        /\ unowed \subseteq Persistent + 1 .. Total /\ \A j \in 1 .. Persistent : lslots[j] = Free
    BY DEF LoginInv
  <1>2. d.slot \in 1 .. Total /\ d.slot > Persistent
    BY <1>1, SlotConstants DEF LoginDatagrams
  <1>3. lslots' = [lslots EXCEPT ![d.slot] = Free] /\ lbuffer' = lbuffer \ {d} /\ unowed' = unowed
    BY <1>2 DEF HandleLogin, NotALogin, AfterSend, AfterClose
  <1>4. /\ {j \in 1 .. Total : lslots[j] # Free} = {x.slot : x \in lbuffer} \cup unowed
        /\ \A x \in lbuffer : lslots[x.slot] = x.from /\ x.slot \notin unowed
        /\ \A x, y \in lbuffer : y.slot = x.slot => y = x
    BY DEF LoginInv, LoginSlotsAreOwed
  <1>5. /\ lslots' \in [1 .. Total -> Addresses \cup {Free}] /\ lslots'[d.slot] = Free
        /\ \A j \in 1 .. Total : j # d.slot => lslots'[j] = lslots[j]
    BY <1>1, <1>2, <1>3
  <1>6. {j \in 1 .. Total : lslots'[j] # Free} = {j \in 1 .. Total : lslots[j] # Free} \ {d.slot}
    BY <1>5
  <1>7. {x.slot : x \in lbuffer'} = {x.slot : x \in lbuffer} \ {d.slot}
    BY <1>3, <1>4
  <1>8. \A x \in lbuffer : x.slot \in 1 .. Total
    BY <1>1, SlotConstants DEF LoginDatagrams
  <1>9. \A x \in lbuffer' : lslots'[x.slot] = x.from /\ x.slot \notin unowed'
                            /\ \A y \in lbuffer' : y.slot = x.slot => y = x
    BY <1>3, <1>4, <1>5, <1>8
  <1>10. LoginSlotsAreOwed'
    BY <1>3, <1>4, <1>6, <1>7, <1>9 DEF LoginSlotsAreOwed
  <1>11. \A j \in 1 .. Persistent : lslots'[j] = Free
    BY <1>1, <1>5, SlotConstants
  <1> QED
    BY <1>1, <1>3, <1>5, <1>10, <1>11 DEF LoginInv

(* No slot of the login socket leaks, except for what can not be parsed, and every answer goes
   to the client that asked, however long requests wait in AccessPanel and however their slots
   are reused (UdpSocket::onDataReceived, send and closeSession). *)
THEOREM LoginSlotsStayOwed == LoginSpec => []LoginSlotsAreOwed
  <1>1. LoginInit => LoginInv
    BY SlotConstants DEF LoginInit, LoginInv, LoginSlotsAreOwed, NoSessions
  <1>2. LoginInv /\ [LoginNext]_loginVars => LoginInv'
    <2> SUFFICES ASSUME LoginInv, [LoginNext]_loginVars PROVE LoginInv'
      OBVIOUS
    <2>1. ASSUME UNCHANGED <<lslots, lbuffer, unowed>> PROVE LoginInv'
      BY <2>1 DEF LoginInv, LoginSlotsAreOwed
    <2>2. CASE UNCHANGED loginVars
      BY <2>1, <2>2 DEF loginVars
    <2>3. CASE \E p \in Players, i \in 1 .. Persistent : Disconnect(p, i)
      BY <2>1, <2>3 DEF Disconnect
    <2> QED
      BY <2>2, <2>3, ReceiveLoginInv, HandleLoginInv DEF LoginNext
  <1>3. LoginInv => LoginSlotsAreOwed
    BY DEF LoginInv
  <1> QED
    BY <1>1, <1>2, <1>3, PTL DEF LoginSpec
-----------------------------------------------------------------------------
(* The administrators' socket.  Whoever holds a persistent slot has logged in once, and so has
   the sender of a message that came over one, even if the slot has passed on meanwhile. *)

AdminDatagrams ==
    [slot : 1 .. Total, kind : {"login", "wrong", "other", "command"}, token : Tokens \cup {0}, from : Addresses]

AdminTypeOK ==
    /\ aslots \in [1 .. Total -> Addresses \cup {Free}]
    /\ abuffer \subseteq AdminDatagrams
    /\ tokens \in [1 .. Persistent -> Nat]
    /\ issued \in Nat
    /\ mine \in [Addresses -> Nat]
    /\ tries \in [Addresses -> {"none", "won", "again"}]
    /\ nobodys \subseteq 1 .. Total
    /\ commands \subseteq Addresses

HoldersHaveWon == \A i \in 1 .. Persistent : aslots[i] # Free => tries[aslots[i]] # "none"
SendersHaveWon == \A d \in abuffer : d.slot <= Persistent => tries[d.from] # "none"

(* Slot by slot what AdminSlotsAreOwed says, and that nobody else holds the slot of a message *)
PromiscuousAreOwed ==
    /\ \A i \in 1 .. Total :
          i > Persistent => (aslots[i] # Free <=> i \in nobodys \/ \E d \in abuffer : d.slot = i)
    /\ \A d \in abuffer : d.slot > Persistent => d.slot \notin nobodys
    /\ \A d, other \in abuffer : d.slot > Persistent /\ other.slot = d.slot => other = d

(* An administrator that has not tried again holds one slot, with the token it was sent. *)
OneSlotEach ==
    (\A e \in Addresses : tries[e] # "again") =>
        \A e \in Addresses :
            mine[e] # 0 => \E i \in 1 .. Persistent :
                               /\ aslots[i] = e /\ tokens[i] = mine[e]
                               /\ \A j \in 1 .. Persistent : aslots[j] = e => j = i

AdminInv ==
    /\ AdminTypeOK /\ HoldersHaveWon /\ SendersHaveWon /\ CommandsAreAuthorised
    /\ PromiscuousAreOwed /\ OneSlotEach

(* A datagram gets the slot of its administrator or a free promiscuous one. *)
LEMMA ReceiveAdminInv ==
    ASSUME AdminInv, NEW e \in Addresses, NEW m \in AdminMessages, ReceiveAdmin(e, m[1], m[2])
    PROVE  AdminInv'
  <1> DEFINE i == Slot(aslots, e)
             d == [slot |-> i, kind |-> m[1], token |-> m[2], from |-> e]
  <1>1. AdminTypeOK /\ aslots \in [1 .. Total -> Addresses \cup {Free}]
    BY DEF AdminInv, AdminTypeOK
  <1>2. /\ i # None /\ aslots' = [aslots EXCEPT ![i] = e]
        /\ UNCHANGED <<tokens, issued, mine, tries, commands>>
        /\ \/ nobodys' = nobodys \cup {i} /\ abuffer' = abuffer
           \/ m[1] # "unparsable" /\ abuffer' = abuffer \cup {d} /\ nobodys' = nobodys
    BY DEF ReceiveAdmin
  <1>3. /\ i \in 1 .. Total
        /\ i <= Persistent => aslots[i] = e /\ i \in 1 .. Persistent
        /\ i > Persistent => aslots[i] = Free
    BY <1>1, <1>2, SlotFound, SlotConstants
  <1>4. m[1] # "unparsable" => d \in AdminDatagrams
    BY <1>3 DEF AdminMessages, AdminDatagrams
  <1>5. d.slot = i /\ d.from = e
    OBVIOUS
  <1> HIDE DEF i, d
  <1>6. /\ aslots' \in [1 .. Total -> Addresses \cup {Free}] /\ aslots'[i] = e
        /\ \A j \in 1 .. Total : j # i => aslots'[j] = aslots[j]
        /\ \A j \in 1 .. Persistent : aslots'[j] = aslots[j]
    BY <1>1, <1>2, <1>3, SlotConstants
  <1>7. AdminTypeOK'
    BY <1>1, <1>2, <1>3, <1>4, <1>6 DEF AdminTypeOK
  <1>8. HoldersHaveWon' /\ CommandsAreAuthorised' /\ OneSlotEach'
    BY <1>2, <1>6 DEF AdminInv, HoldersHaveWon, CommandsAreAuthorised, OneSlotEach
  <1>9. i <= Persistent => tries[e] # "none"
    BY <1>1, <1>3, SlotConstants DEF AdminInv, HoldersHaveWon
  <1>10. SendersHaveWon'
    BY <1>2, <1>5, <1>9 DEF AdminInv, SendersHaveWon
  <1>11. i > Persistent => i \notin nobodys /\ \A x \in abuffer : x.slot # i
    BY <1>3 DEF AdminInv, PromiscuousAreOwed
  <1>12. ASSUME NEW j \in 1 .. Total, j > Persistent
         PROVE  aslots'[j] # Free <=> j \in nobodys' \/ \E x \in abuffer' : x.slot = j
    <2>1. CASE j = i
      BY <1>2, <1>5, <1>6, <2>1, SlotConstants
    <2>2. CASE j # i
      <3>1. aslots[j] # Free <=> j \in nobodys \/ \E x \in abuffer : x.slot = j
        BY <1>12 DEF AdminInv, PromiscuousAreOwed
      <3> QED
        BY <1>2, <1>5, <1>6, <2>2, <3>1
    <2> QED
      BY <2>1, <2>2
  <1>13. \A x \in abuffer' : x.slot > Persistent => x.slot \notin nobodys'
    BY <1>2, <1>5, <1>11 DEF AdminInv, PromiscuousAreOwed
  <1>14. \A x, y \in abuffer' : x.slot > Persistent /\ y.slot = x.slot => y = x
    BY <1>2, <1>5, <1>11 DEF AdminInv, PromiscuousAreOwed
  <1>15. PromiscuousAreOwed'
    BY <1>12, <1>13, <1>14 DEF PromiscuousAreOwed
  <1> QED
    BY <1>7, <1>8, <1>10, <1>15 DEF AdminInv

(* A message is handled, and its slot is freed if it is a promiscuous one: what is left of the
   invariant for the slots of other messages *)
LEMMA AnsweredOwed ==
    ASSUME AdminInv, NEW d \in abuffer, abuffer' = abuffer \ {d}, nobodys' = nobodys,
           \A j \in 1 .. Total : j > Persistent => aslots'[j] = IF j = d.slot THEN Free ELSE aslots[j]
    PROVE  PromiscuousAreOwed'
  <1>1. d.slot \in 1 .. Total
    BY DEF AdminInv, AdminTypeOK, AdminDatagrams
  <1>2. ASSUME NEW j \in 1 .. Total, j > Persistent
        PROVE  aslots'[j] # Free <=> j \in nobodys' \/ \E x \in abuffer' : x.slot = j
    <2>1. /\ aslots[j] # Free <=> j \in nobodys \/ \E x \in abuffer : x.slot = j
          /\ j = d.slot => j \notin nobodys /\ \A x \in abuffer : x.slot = j => x = d
      BY <1>2 DEF AdminInv, PromiscuousAreOwed
    <2>2. CASE j = d.slot
      BY <1>2, <2>1, <2>2
    <2>3. CASE j # d.slot
      BY <1>2, <2>1, <2>3
    <2> QED
      BY <2>2, <2>3
  <1> QED
    BY <1>2 DEF AdminInv, PromiscuousAreOwed

(* What is remembered of the logins of an address. *)
LEMMA AfterTry ==
    ASSUME NEW sofar \in {"none", "won", "again"}, NEW won \in BOOLEAN
    PROVE  /\ After(sofar, won) \in {"none", "won", "again"}
           /\ sofar # "none" => After(sofar, won) = "again"
           /\ sofar = "none" => After(sofar, won) = IF won THEN "won" ELSE "none"
  BY DEF After

(* A login that is refused, or an Access message that is none, changes no slot but its own. *)
LEMMA SessionClosedInv ==
    ASSUME AdminInv, NEW d \in abuffer, abuffer' = abuffer \ {d},
           AdminLoginFailed(d) \/ AdminNotALogin(d)
    PROVE  AdminInv'
  <1>1. AdminTypeOK /\ d \in AdminDatagrams
    BY DEF AdminInv, AdminTypeOK
  <1>2. d.slot \in 1 .. Total /\ d.from \in Addresses
    BY <1>1 DEF AdminDatagrams
  <1>3. /\ aslots' = [aslots EXCEPT ![d.slot] = Free]
        /\ tries' = [tries EXCEPT ![d.from] = After(tries[d.from], FALSE)]
        /\ UNCHANGED <<tokens, issued, mine, nobodys, commands>>
    BY DEF AdminLoginFailed, AdminNotALogin, AfterClose
  <1>4. /\ aslots' \in [1 .. Total -> Addresses \cup {Free}]
        /\ \A j \in 1 .. Total : aslots'[j] = IF j = d.slot THEN Free ELSE aslots[j]
    BY <1>1, <1>2, <1>3 DEF AdminTypeOK
  <1>5. tries[d.from] \in {"none", "won", "again"}
    BY <1>1, <1>2 DEF AdminTypeOK
  <1>6. /\ tries' \in [Addresses -> {"none", "won", "again"}]
        /\ \A e \in Addresses : e # d.from => tries'[e] = tries[e]
        /\ tries[d.from] # "none" => tries'[d.from] = "again"
        /\ tries[d.from] = "none" => tries'[d.from] = "none"
    BY <1>1, <1>2, <1>3, <1>5, AfterTry DEF AdminTypeOK
  <1>7. \A e \in Addresses : tries[e] # "none" => tries'[e] # "none"
    BY <1>6
  <1>8. AdminTypeOK'
    BY <1>1, <1>3, <1>4, <1>6 DEF AdminTypeOK
  <1>9. HoldersHaveWon'
    <2>1. \A j \in 1 .. Persistent : aslots'[j] # Free => aslots'[j] = aslots[j] /\ aslots[j] \in Addresses
      BY <1>1, <1>4, SlotConstants DEF AdminTypeOK
    <2> QED
      BY <1>7, <2>1 DEF AdminInv, HoldersHaveWon
  <1>10. SendersHaveWon' /\ CommandsAreAuthorised'
    <2>1. \A x \in abuffer : x.from \in Addresses
      BY <1>1 DEF AdminTypeOK, AdminDatagrams
    <2>2. SendersHaveWon'
      BY <1>7, <2>1 DEF AdminInv, SendersHaveWon
    <2>3. CommandsAreAuthorised'
      BY <1>1, <1>3, <1>6, <1>7 DEF AdminInv, CommandsAreAuthorised, AdminTypeOK
    <2> QED
      BY <2>2, <2>3
  <1>11. PromiscuousAreOwed'
    BY <1>3, <1>4, AnsweredOwed
  <1>12. OneSlotEach'
    <2> SUFFICES ASSUME \A e \in Addresses : tries'[e] # "again" PROVE OneSlotEach'
      BY DEF OneSlotEach
    <2>1. tries[d.from] = "none" /\ \A e \in Addresses : tries[e] # "again"
      BY <1>2, <1>6
    <2>2. ~(d.slot <= Persistent)
      BY <2>1 DEF AdminInv, SendersHaveWon
    <2>3. \A j \in 1 .. Persistent : aslots'[j] = aslots[j]
      BY <1>4, <2>2, SlotConstants
    <2> QED
      BY <1>3, <2>1, <2>3 DEF AdminInv, OneSlotEach
  <1> QED
    BY <1>8, <1>9, <1>10, <1>11, <1>12 DEF AdminInv

(* createPersistentSession: a free persistent slot, unless there is none *)
LEMMA PersistentFound ==
    ASSUME NEW slots
    PROVE  PersistentSlot(slots) # None =>
               PersistentSlot(slots) \in 1 .. Persistent /\ slots[PersistentSlot(slots)] = Free
  <1> DEFINE A == {i \in 1 .. Persistent : slots[i] = Free}
  <1>1. A \subseteq Nat \ {0} /\ PersistentSlot(slots) = Lowest(A)
    BY SlotConstants DEF PersistentSlot
  <1> HIDE DEF A
  <1>2. Lowest(A) # None => Lowest(A) \in A
    BY <1>1, LowestFound
  <1> QED
    BY <1>1, <1>2 DEF A

(* A login that is accepted gets a persistent slot with the new token. *)
LEMMA LoginSucceedsInv ==
    ASSUME AdminInv, NEW d \in abuffer, abuffer' = abuffer \ {d}, AdminLoginSucceeds(d) PROVE AdminInv'
  <1> DEFINE e == aslots[d.slot]
             i == PersistentSlot(aslots)
             S == IF i = None THEN aslots ELSE [aslots EXCEPT ![i] = e]
  <1>1. AdminTypeOK /\ d \in AdminDatagrams
    BY DEF AdminInv, AdminTypeOK
  <1>2. d.slot \in 1 .. Total /\ e \in Addresses
    BY <1>1 DEF AdminDatagrams, AdminTypeOK, AdminLoginSucceeds
  <1>3. /\ aslots' = AfterSend(S, d.slot)
        /\ issued' = issued + 1
        /\ tries' = [tries EXCEPT ![e] = After(tries[e], i # None)]
        /\ i = None => UNCHANGED <<tokens, mine>>
        /\ i # None => /\ tokens' = [tokens EXCEPT ![i] = issued + 1]
                       /\ mine' = [mine EXCEPT ![e] = issued + 1]
        /\ UNCHANGED <<nobodys, commands>>
    BY DEF AdminLoginSucceeds
  <1>4. i # None => i \in 1 .. Persistent /\ aslots[i] = Free
    BY PersistentFound
  <1> HIDE DEF i
  <1>5. /\ S \in [1 .. Total -> Addresses \cup {Free}]
        /\ \A j \in 1 .. Total : S[j] = IF i # None /\ j = i THEN e ELSE aslots[j]
    BY <1>1, <1>2, <1>4, SlotConstants DEF AdminTypeOK
  <1> HIDE DEF S
  <1>6. /\ aslots' \in [1 .. Total -> Addresses \cup {Free}]
        /\ \A j \in 1 .. Total : aslots'[j] = IF j = d.slot /\ j > Persistent THEN Free
                                              ELSE IF i # None /\ j = i THEN e ELSE aslots[j]
    BY <1>2, <1>3, <1>5 DEF AfterSend
  <1> HIDE DEF e
  <1>7. tries[e] \in {"none", "won", "again"} /\ (i # None) \in BOOLEAN
    BY <1>1, <1>2 DEF AdminTypeOK
  <1>8. /\ tries' \in [Addresses -> {"none", "won", "again"}]
        /\ \A f \in Addresses : f # e => tries'[f] = tries[f]
        /\ tries[e] # "none" => tries'[e] = "again"
        /\ tries[e] = "none" => tries'[e] = IF i # None THEN "won" ELSE "none"
    BY <1>1, <1>2, <1>3, <1>7, AfterTry DEF AdminTypeOK
  <1>9. \A f \in Addresses : tries[f] # "none" => tries'[f] # "none"
    BY <1>8
  <1>10. AdminTypeOK'
    <2>1. tokens' \in [1 .. Persistent -> Nat] /\ mine' \in [Addresses -> Nat] /\ issued' \in Nat
      BY <1>1, <1>3 DEF AdminTypeOK
    <2> QED
      BY <1>1, <1>3, <1>6, <1>8, <2>1 DEF AdminTypeOK
  <1>11. HoldersHaveWon'
    <2> SUFFICES ASSUME NEW j \in 1 .. Persistent, aslots'[j] # Free PROVE tries'[aslots'[j]] # "none"
      BY DEF HoldersHaveWon
    <2>1. CASE i # None /\ j = i
      <3>1. aslots'[j] = e
        BY <1>6, <2>1, SlotConstants
      <3> QED
        BY <1>8, <2>1, <3>1
    <2>2. CASE ~(i # None /\ j = i)
      <3>1. aslots'[j] = aslots[j] /\ aslots[j] \in Addresses
        BY <1>1, <1>6, <2>2, SlotConstants DEF AdminTypeOK
      <3> QED
        BY <1>9, <3>1 DEF AdminInv, HoldersHaveWon
    <2> QED
      BY <2>1, <2>2
  <1>12. SendersHaveWon' /\ CommandsAreAuthorised'
    <2>1. \A x \in abuffer : x.from \in Addresses
      BY <1>1 DEF AdminTypeOK, AdminDatagrams
    <2>2. SendersHaveWon'
      BY <1>9, <2>1 DEF AdminInv, SendersHaveWon
    <2>3. CommandsAreAuthorised'
      BY <1>1, <1>3, <1>8, <1>9 DEF AdminInv, CommandsAreAuthorised, AdminTypeOK
    <2> QED
      BY <2>2, <2>3
  <1>13. PromiscuousAreOwed'
    <2>1. \A j \in 1 .. Total : j > Persistent => aslots'[j] = IF j = d.slot THEN Free ELSE aslots[j]
      BY <1>4, <1>6, SlotConstants
    <2> QED
      BY <1>3, <2>1, AnsweredOwed
  <1>14. OneSlotEach'
    <2> SUFFICES ASSUME \A f \in Addresses : tries'[f] # "again", NEW f \in Addresses, mine'[f] # 0
                 PROVE  \E j \in 1 .. Persistent :
                               /\ aslots'[j] = f /\ tokens'[j] = mine'[f]
                               /\ \A k \in 1 .. Persistent : aslots'[k] = f => k = j
      BY DEF OneSlotEach
    <2>1. tries[e] = "none" /\ \A g \in Addresses : tries[g] # "again"
      BY <1>2, <1>8
    <2>2. \A j \in 1 .. Persistent : aslots[j] # e
      BY <1>2, <2>1, SlotConstants DEF AdminInv, HoldersHaveWon
    <2>3. \A j \in 1 .. Persistent : aslots'[j] = IF i # None /\ j = i THEN e ELSE aslots[j]
      BY <1>6, SlotConstants
    <2>4. CASE f = e /\ i # None
      <3>1. i \in 1 .. Persistent /\ mine'[f] = issued + 1 /\ tokens'[i] = issued + 1
        BY <1>1, <1>2, <1>3, <1>4, <2>4 DEF AdminTypeOK
      <3>2. aslots'[i] = f /\ \A k \in 1 .. Persistent : aslots'[k] = f => k = i
        BY <2>2, <2>3, <2>4, <3>1
      <3> QED
        BY <3>1, <3>2
    <2>5. CASE f # e \/ i = None
      <3>1. mine'[f] = mine[f]
        BY <1>1, <1>2, <1>3, <2>5 DEF AdminTypeOK
      <3>2. PICK j \in 1 .. Persistent :
                               /\ aslots[j] = f /\ tokens[j] = mine[f]
                               /\ \A k \in 1 .. Persistent : aslots[k] = f => k = j
        BY <2>1, <3>1 DEF AdminInv, OneSlotEach
      <3>3. i # None => j # i
        BY <1>4, <3>2, SlotConstants
      <3>4. tokens'[j] = tokens[j] /\ aslots'[j] = f
        BY <1>1, <1>3, <2>3, <3>2, <3>3 DEF AdminTypeOK
      <3>5. \A k \in 1 .. Persistent : aslots'[k] = f => k = j
        BY <2>3, <2>5, <3>2
      <3> QED
        BY <3>1, <3>2, <3>4, <3>5
    <2> QED
      BY <2>4, <2>5
  <1> QED
    BY <1>10, <1>11, <1>12, <1>13, <1>14 DEF AdminInv

(* A command is obeyed with the token of its slot only. *)
LEMMA CommandInv ==
    ASSUME AdminInv, NEW d \in abuffer, abuffer' = abuffer \ {d}, AdminCommand(d) PROVE AdminInv'
  <1>1. AdminTypeOK /\ d \in AdminDatagrams /\ UNCHANGED <<aslots, tokens, issued, mine, tries>>
    BY DEF AdminInv, AdminTypeOK, AdminCommand
  <1>2. d.slot \in 1 .. Total /\ d.from \in Addresses
    BY <1>1 DEF AdminDatagrams
  <1>3. \/ d.slot <= Persistent /\ commands' = commands \cup {d.from} /\ nobodys' = nobodys
        \/ commands' = commands /\ nobodys' = IF d.slot > Persistent THEN nobodys \cup {d.slot} ELSE nobodys
    BY DEF AdminCommand, TokenFits
  <1>4. AdminTypeOK'
    BY <1>1, <1>2, <1>3 DEF AdminTypeOK
  <1>5. HoldersHaveWon' /\ SendersHaveWon' /\ OneSlotEach'
    BY <1>1 DEF AdminInv, HoldersHaveWon, SendersHaveWon, OneSlotEach
  <1>6. CommandsAreAuthorised'
    BY <1>1, <1>2, <1>3 DEF AdminInv, SendersHaveWon, CommandsAreAuthorised, AdminTypeOK
  <1>7. nobodys' = IF d.slot > Persistent THEN nobodys \cup {d.slot} ELSE nobodys
    BY <1>2, <1>3, SlotConstants
  <1>8. ASSUME NEW j \in 1 .. Total, j > Persistent
        PROVE  aslots'[j] # Free <=> j \in nobodys' \/ \E x \in abuffer' : x.slot = j
    <2>1. aslots[j] # Free <=> j \in nobodys \/ \E x \in abuffer : x.slot = j
      BY <1>8 DEF AdminInv, PromiscuousAreOwed
    <2> QED
      BY <1>1, <1>7, <1>8, <2>1
  <1>9. PromiscuousAreOwed'
    BY <1>7, <1>8 DEF AdminInv, PromiscuousAreOwed
  <1> QED
    BY <1>4, <1>5, <1>6, <1>9 DEF AdminInv

(* Only administrators that have logged in are obeyed, the token one was sent keeps working as
   long as nobody who has logged in sends another Access message, and no promiscuous slot leaks but for messages without an
   answer (AdministratorPanel::handleMessage, onLoginRequest). *)
THEOREM AdministratorsStayServed == AdminSpec => []AdministratorsAreServed
  <1>1. AdminInit => AdminInv
    <2> SUFFICES ASSUME AdminInit PROVE AdminInv
      OBVIOUS
    <2>1. AdminTypeOK
      BY SlotConstants DEF AdminInit, AdminTypeOK, NoSessions
    <2>2. \A i \in 1 .. Total : aslots[i] = Free
      BY DEF AdminInit, NoSessions
    <2> QED
      BY <2>1, <2>2, SlotConstants DEF AdminInit, AdminInv, HoldersHaveWon, SendersHaveWon,
           CommandsAreAuthorised, PromiscuousAreOwed, OneSlotEach
  <1>2. AdminInv /\ [AdminNext]_adminVars => AdminInv'
    <2>1. AdminInv /\ UNCHANGED adminVars => AdminInv'
      BY DEF adminVars, AdminInv, AdminTypeOK, HoldersHaveWon, SendersHaveWon,
           CommandsAreAuthorised, PromiscuousAreOwed, OneSlotEach
    <2> QED
      BY <2>1, ReceiveAdminInv, SessionClosedInv, LoginSucceedsInv, CommandInv DEF AdminNext, HandleAdmin
  <1>3. AdminInv => AdministratorsAreServed
    <2> SUFFICES ASSUME AdminInv PROVE AdministratorsAreServed
      OBVIOUS
    <2>1. AdminSlotsAreOwed
      <3>1. \A i \in 1 .. Total :
               i > Persistent => (aslots[i] # Free <=> i \in nobodys \/ \E d \in abuffer : d.slot = i)
        BY DEF AdminInv, PromiscuousAreOwed
      <3>2. nobodys \subseteq 1 .. Total /\ \A d \in abuffer : d.slot \in 1 .. Total
        BY DEF AdminInv, AdminTypeOK, AdminDatagrams
      <3>3. ASSUME NEW i \in Persistent + 1 .. Total, aslots[i] # Free
            PROVE  i \in ({d.slot : d \in abuffer} \cup nobodys) \ (1 .. Persistent)
        BY <3>1, <3>3, SlotConstants
      <3>4. ASSUME NEW i \in ({d.slot : d \in abuffer} \cup nobodys) \ (1 .. Persistent)
            PROVE  i \in Persistent + 1 .. Total /\ aslots[i] # Free
        <4>1. i \in 1 .. Total /\ i > Persistent
          BY <3>2, SlotConstants
        <4> QED
          BY <3>1, <4>1, SlotConstants
      <3> QED
        BY <3>3, <3>4 DEF AdminSlotsAreOwed
    <2>2. ASSUME \A e \in Addresses : tries[e] # "again", NEW e \in Addresses, mine[e] # 0
          PROVE  SenderSlot(aslots, e) # None /\ tokens[SenderSlot(aslots, e)] = mine[e]
      <3> DEFINE A == {j \in 1 .. Persistent : aslots[j] = e}
      <3>1. PICK i \in 1 .. Persistent : /\ aslots[i] = e /\ tokens[i] = mine[e]
                                         /\ \A j \in 1 .. Persistent : aslots[j] = e => j = i
        BY <2>2 DEF AdminInv, OneSlotEach
      <3>2. i \in A /\ (\A j \in A : j = i) /\ A \subseteq Nat \ {0} /\ SenderSlot(aslots, e) = Lowest(A)
        BY <3>1, SlotConstants DEF SenderSlot
      <3> HIDE DEF A
      <3>3. Lowest(A) # None /\ Lowest(A) = i
        BY <3>2, LowestFound
      <3> QED
        BY <3>1, <3>2, <3>3
    <2>3. TokenIsAccepted
      BY <2>2 DEF TokenIsAccepted
    <2> QED
      BY <2>1, <2>3 DEF AdministratorsAreServed, AdminInv
  <1> QED
    BY <1>1, <1>2, <1>3, PTL DEF AdminSpec
-----------------------------------------------------------------------------
(* The queues of a terminal.  A number is at one place of one queue, also after the queue of
   delayed messages was full; what makes a message be handled once is that the loop has not
   handled what is still ahead of it. *)

Descending(s) == \A i, j \in DOMAIN s : i < j => s[i].timestamp >= s[j].timestamp

(* Messages are where they are once; an empty one is never delayed. *)
PlacedOnce ==
    /\ \A i, j \in DOMAIN messages : i # j /\ messages[i].id # 0 => messages[i].id # messages[j].id
    /\ \A i, j \in DOMAIN delayed : i # j => delayed[i].id # delayed[j].id
    /\ \A i \in DOMAIN messages, j \in DOMAIN delayed : messages[i].id # delayed[j].id
    /\ \A i \in DOMAIN messages : messages[i].id = 0 => messages[i].timestamp = 0
    /\ \A j \in DOMAIN delayed : delayed[j].id # 0

(* What the loop has passed is handled or delayed. *)
LoopProgress ==
    /\ step = "loop" => /\ pos <= Len(messages) + 1
                        /\ \A i \in DOMAIN messages : i < pos => messages[i].id \in handled \cup {0}
    /\ step = "drain" => messages = <<>>

StillAhead ==
    ~overflow =>
        /\ again = {}
        /\ \A j \in DOMAIN delayed : delayed[j].id \notin handled
        /\ step = "idle" => \A i \in DOMAIN messages : messages[i].id \notin handled
        /\ step = "loop" => \A i \in DOMAIN messages : i >= pos => messages[i].id \notin handled

TerminalInv ==
    /\ TerminalTypeOK /\ Len(messages) <= received /\ NothingLost
    /\ Descending(delayed) /\ PlacedOnce /\ LoopProgress /\ StillAhead

(* The messages of a queue, without the empty ones. *)
LEMMA NumberIn ==
    ASSUME NEW s
    PROVE  \A x : x \in NumbersOf(s) <=> x # 0 /\ \E i \in DOMAIN s : s[i].id = x
  BY DEF NumbersOf

(* Messages and the empty one that std::move leaves. *)
LEMMA TerminalConstants ==
    /\ MessagesBound \in Nat /\ NowBound \in Nat
    /\ \A m \in Messages : m.id \in 0 .. MessagesBound /\ m.timestamp \in Nat
    /\ MovedFrom \in Messages /\ MovedFrom.id = 0 /\ MovedFrom.timestamp = 0
  BY BufferedTerminalAssumption DEF Messages, Numbers, Times, MovedFrom

With(s, k, m) == SubSeq(s, 1, k) \o <<m>> \o SubSeq(s, k + 1, Len(s))

IsWith(t, s, k, m) ==
    /\ t \in Seq(Messages) /\ Len(t) = Len(s) + 1
    /\ \A i \in 1 .. k : t[i] = s[i]
    /\ t[k + 1] = m
    /\ \A i \in k + 2 .. Len(s) + 1 : t[i] = s[i - 1]

(* A sequence with one more element after the first k. *)
LEMMA Inserted ==
    ASSUME NEW s \in Seq(Messages), NEW m \in Messages, NEW k \in 0 .. Len(s)
    PROVE  IsWith(With(s, k, m), s, k, m)
  <1> DEFINE a == SubSeq(s, 1, k)
             b == a \o <<m>>
             c == SubSeq(s, k + 1, Len(s))
             t == With(s, k, m)
  <1>1. Len(s) \in Nat /\ k \in Nat /\ k <= Len(s)
    OBVIOUS
  <1>2. a \in Seq(Messages) /\ Len(a) = k /\ \A i \in 1 .. k : a[i] = s[i]
    BY <1>1
  <1>3. c \in Seq(Messages) /\ Len(c) = Len(s) - k /\ \A i \in 1 .. Len(s) - k : c[i] = s[k + i]
    BY <1>1
  <1> HIDE DEF a, c
  <1>4. b \in Seq(Messages) /\ Len(b) = k + 1 /\ b[k + 1] = m /\ \A i \in 1 .. k : b[i] = s[i]
    BY <1>1, <1>2
  <1> HIDE DEF b
  <1>0. t = b \o c
    BY DEF a, b, c, With
  <1> HIDE DEF t
  <1>9. /\ t \in Seq(Messages) /\ Len(t) = Len(b) + Len(c)
        /\ \A i \in 1 .. Len(b) + Len(c) : t[i] = IF i <= Len(b) THEN b[i] ELSE c[i - Len(b)]
    <2>1. b \in Seq(Messages) /\ c \in Seq(Messages)
      BY <1>3, <1>4
    <2>2. /\ b \o c \in Seq(Messages) /\ Len(b \o c) = Len(b) + Len(c)
          /\ \A i \in 1 .. Len(b) + Len(c) : (b \o c)[i] = IF i <= Len(b) THEN b[i] ELSE c[i - Len(b)]
      BY <2>1, ConcatProperties, Zenon
    <2> QED
      BY <1>0, <2>2, Zenon
  <1>10. Len(b) + Len(c) = Len(s) + 1 /\ Len(b) = k + 1
    BY <1>1, <1>3, <1>4
  <1>11. /\ Len(t) = Len(s) + 1
         /\ \A i \in 1 .. Len(s) + 1 : t[i] = IF i <= k + 1 THEN b[i] ELSE c[i - (k + 1)]
    BY <1>9, <1>10
  <1>5. /\ t \in Seq(Messages) /\ Len(t) = Len(s) + 1
        /\ \A i \in 1 .. k + 1 : t[i] = b[i]
        /\ \A i \in k + 2 .. Len(s) + 1 : t[i] = c[i - (k + 1)]
    <2>1. \A i \in 1 .. k + 1 : i \in 1 .. Len(s) + 1 /\ i <= k + 1
      BY <1>1
    <2>2. \A i \in k + 2 .. Len(s) + 1 : i \in 1 .. Len(s) + 1 /\ ~(i <= k + 1)
      BY <1>1
    <2> QED
      BY <1>9, <1>11, <2>1, <2>2
  <1>6. \A i \in k + 2 .. Len(s) + 1 : i - (k + 1) \in 1 .. Len(s) - k /\ k + (i - (k + 1)) = i - 1
    BY <1>1
  <1>7. \A i \in k + 2 .. Len(s) + 1 : t[i] = s[i - 1]
    BY <1>3, <1>5, <1>6
  <1>8. (\A i \in 1 .. k : i \in 1 .. k + 1) /\ k + 1 \in 1 .. k + 1
    BY <1>1
  <1>12. IsWith(t, s, k, m)
    BY <1>4, <1>5, <1>7, <1>8 DEF IsWith
  <1> QED
    BY <1>12 DEF t

(* drawnDelayedMessage: there is one place for the message, and the queue stays sorted. *)
LEMMA DrawnInOrder ==
    ASSUME delayed \in Seq(Messages), Descending(delayed), NEW m \in Messages
    PROVE  LET t == DrawnDelayedMessage(m)
           IN  /\ t \in Seq(Messages) /\ Len(t) = Len(delayed) + 1 /\ Descending(t)
               /\ \E k \in 0 .. Len(delayed) : IsWith(t, delayed, k, m)
  <1> DEFINE n == Len(delayed)
             Fits(k) == /\ \A i \in 1 .. k : delayed[i].timestamp >= m.timestamp
                        /\ \A i \in k + 1 .. n : delayed[i].timestamp < m.timestamp
             k == CHOOSE x \in 0 .. n : Fits(x)
             t == With(delayed, k, m)
  <1>1. /\ n \in Nat /\ DOMAIN delayed = 1 .. n /\ m.timestamp \in Nat
        /\ \A i \in 1 .. n : delayed[i].timestamp \in Nat
    BY TerminalConstants
  <1>2. \E x \in 0 .. n : Fits(x)
    <2> DEFINE T == {i \in 1 .. n : delayed[i].timestamp < m.timestamp}
    <2>1. CASE T = {}
      <3>1. \A i \in 1 .. n : ~(delayed[i].timestamp < m.timestamp)
        BY <2>1
      <3>2. Fits(n)
        BY <1>1, <3>1
      <3> QED
        BY <1>1, <3>2
    <2>2. CASE T # {}
      <3>0. T \subseteq Nat
        BY <1>1
      <3>1. PICK x \in T : \A y \in T : x <= y
        <4> HIDE DEF T
        <4> QED
          BY <2>2, <3>0, LeastElement
      <3>2. x \in 1 .. n /\ x - 1 \in 0 .. n
        BY <1>1, <3>1
      <3>3. \A i \in 1 .. x - 1 : delayed[i].timestamp >= m.timestamp
        BY <1>1, <3>1, <3>2
      <3>4. \A i \in x .. n : delayed[i].timestamp < m.timestamp
        <4> SUFFICES ASSUME NEW i \in x .. n PROVE delayed[i].timestamp < m.timestamp
          OBVIOUS
        <4>1. i \in 1 .. n /\ (i = x \/ x < i)
          BY <1>1, <3>2
        <4>2. delayed[x].timestamp < m.timestamp /\ delayed[x].timestamp >= delayed[i].timestamp
          BY <1>1, <3>1, <3>2, <4>1 DEF Descending
        <4> QED
          BY <1>1, <3>2, <4>1, <4>2
      <3>5. (x - 1) + 1 = x
        BY <3>2
      <3>6. Fits(x - 1)
        BY <3>3, <3>4, <3>5
      <3> QED
        BY <3>2, <3>6
    <2> QED
      BY <2>1, <2>2
  <1>3. k \in 0 .. n /\ Fits(k)
    BY <1>2
  <1>4. t = DrawnDelayedMessage(m)
    BY DEF DrawnDelayedMessage, With
  <1> HIDE DEF k
  <1>7. IsWith(t, delayed, k, m)
    BY <1>3, Inserted
  <1> HIDE DEF t
  <1>5. /\ t \in Seq(Messages) /\ Len(t) = n + 1
        /\ \A i \in 1 .. k : t[i] = delayed[i]
        /\ t[k + 1] = m
        /\ \A i \in k + 2 .. n + 1 : t[i] = delayed[i - 1]
    BY <1>7 DEF IsWith
  <1>6. Descending(t)
    <2> SUFFICES ASSUME NEW i \in 1 .. n + 1, NEW j \in 1 .. n + 1, i < j
                 PROVE  t[i].timestamp >= t[j].timestamp
      BY <1>5 DEF Descending
    <2>1. \A x, y \in 1 .. n : x < y => delayed[x].timestamp >= delayed[y].timestamp
      BY <1>1 DEF Descending
    <2>2. CASE j <= k
      BY <1>1, <1>3, <1>5, <2>1, <2>2
    <2>3. CASE i <= k /\ j = k + 1
      <3>1. t[i] = delayed[i] /\ t[j] = m /\ i \in 1 .. k
        BY <1>1, <1>3, <1>5, <2>3
      <3> QED
        BY <1>3, <3>1
    <2>4. CASE i <= k /\ j > k + 1
      <3>1. t[i] = delayed[i] /\ t[j] = delayed[j - 1] /\ i \in 1 .. n /\ j - 1 \in 1 .. n /\ i < j - 1
        BY <1>1, <1>3, <1>5, <2>4
      <3> QED
        BY <2>1, <3>1
    <2>5. CASE i = k + 1
      <3>1. t[i] = m /\ t[j] = delayed[j - 1] /\ j - 1 \in k + 1 .. n /\ j - 1 \in 1 .. n
        BY <1>1, <1>3, <1>5, <2>5
      <3>2. delayed[j - 1].timestamp < m.timestamp
        BY <1>3, <3>1
      <3> QED
        BY <1>1, <3>1, <3>2
    <2>6. CASE i > k + 1
      <3>1. t[i] = delayed[i - 1] /\ t[j] = delayed[j - 1] /\ i - 1 \in 1 .. n /\ j - 1 \in 1 .. n /\ i - 1 < j - 1
        BY <1>1, <1>3, <1>5, <2>6
      <3> QED
        BY <2>1, <3>1
    <2> QED
      BY <1>1, <1>3, <2>2, <2>3, <2>4, <2>5, <2>6
  <1> QED
    BY <1>3, <1>4, <1>5, <1>6, <1>7

(* Every number in a queue has been received. *)
LEMMA NumbersReceived ==
    ASSUME TerminalInv
    PROVE  /\ DOMAIN messages = 1 .. Len(messages) /\ Len(messages) \in Nat
           /\ DOMAIN delayed = 1 .. Len(delayed) /\ Len(delayed) \in Nat
           /\ received \in 0 .. MessagesBound
           /\ \A i \in DOMAIN messages : messages[i] \in Messages /\ messages[i].id \in 0 .. received
           /\ \A j \in DOMAIN delayed : delayed[j] \in Messages /\ delayed[j].id \in 0 .. received
           /\ \A x \in handled : x \in 1 .. received
  <1>1. messages \in Seq(Messages) /\ delayed \in Seq(Messages) /\ received \in 0 .. MessagesBound
    BY DEF TerminalInv, TerminalTypeOK
  <1>2. \A m \in Messages : m.id \in 0 .. MessagesBound
    BY TerminalConstants
  <1>3. handled \cup NumbersOf(messages) \cup NumbersOf(delayed) = 1 .. received
    BY DEF TerminalInv, NothingLost
  <1>4. \A i \in DOMAIN messages : messages[i] \in Messages /\ messages[i].id \in 0 .. received
    <2> TAKE i \in DOMAIN messages
    <2>1. messages[i] \in Messages
      BY <1>1
    <2>2. messages[i].id # 0 => messages[i].id \in NumbersOf(messages)
      BY NumberIn
    <2> QED
      BY <1>1, <1>2, <1>3, <2>1, <2>2, TerminalConstants
  <1>5. \A j \in DOMAIN delayed : delayed[j] \in Messages /\ delayed[j].id \in 0 .. received
    <2> TAKE j \in DOMAIN delayed
    <2>1. delayed[j] \in Messages
      BY <1>1
    <2>2. delayed[j].id # 0 => delayed[j].id \in NumbersOf(delayed)
      BY NumberIn
    <2> QED
      BY <1>1, <1>2, <1>3, <2>1, <2>2, TerminalConstants
  <1> QED
    BY <1>1, <1>3, <1>4, <1>5

(* onMessageReceived() appends a message with a number of its own. *)
LEMMA BufferMessageInv ==
    ASSUME TerminalInv, NEW timestamp \in Times, BufferMessage(timestamp) PROVE TerminalInv'
  <1> DEFINE m == [id |-> received + 1, timestamp |-> timestamp]
             n == Len(messages)
  <1>1. /\ step = "idle" /\ received < MessagesBound /\ received' = received + 1
        /\ messages' = Append(messages, m)
        /\ UNCHANGED <<now, delayed, step, pos, handled, again, overflow>>
    BY DEF BufferMessage
  <1>2. TerminalTypeOK /\ n <= received /\ messages \in Seq(Messages)
    BY DEF TerminalInv, TerminalTypeOK
  <1>3. m \in Messages /\ m.id = received + 1
    BY <1>1, NumbersReceived, TerminalConstants DEF Messages, Numbers
  <1> HIDE DEF m
  <1>4. /\ messages' \in Seq(Messages) /\ Len(messages') = n + 1 /\ DOMAIN messages' = 1 .. n + 1
        /\ messages'[n + 1] = m /\ \A i \in 1 .. n : messages'[i] = messages[i]
    BY <1>1, <1>2, <1>3
  <1>5. /\ n \in Nat /\ received \in Nat /\ DOMAIN messages = 1 .. n
        /\ \A i \in 1 .. n : messages[i].id \in 0 .. received
        /\ \A j \in DOMAIN delayed : delayed[j].id \in 0 .. received
        /\ \A x \in handled : x \in 1 .. received
    BY NumbersReceived
  <1>6. \A i \in DOMAIN messages' : i = n + 1 \/ i \in DOMAIN messages
    BY <1>4, <1>5
  <1>7. TerminalTypeOK' /\ Len(messages') <= received'
    <2>1. received' \in 0 .. MessagesBound
      BY <1>1, <1>5, TerminalConstants
    <2> QED
      BY <1>1, <1>2, <1>4, <1>5, <2>1 DEF TerminalTypeOK
  <1>8. NothingLost'
    <2>1. NumbersOf(messages') = NumbersOf(messages) \cup {received + 1}
      <3>1. \A x : (\E i \in DOMAIN messages' : messages'[i].id = x)
                     <=> (\E i \in DOMAIN messages : messages[i].id = x) \/ x = received + 1
        BY <1>3, <1>4, <1>5, <1>6
      <3>2. received + 1 # 0
        BY <1>5
      <3>3. \A x : x \in NumbersOf(messages') <=> x # 0 /\ \E i \in DOMAIN messages' : messages'[i].id = x
        BY NumberIn
      <3>4. \A x : x \in NumbersOf(messages) <=> x # 0 /\ \E i \in DOMAIN messages : messages[i].id = x
        BY NumberIn
      <3> HIDE DEF NumbersOf
      <3>5. \A x : x \in NumbersOf(messages') <=> x \in NumbersOf(messages) \/ x = received + 1
        BY <3>1, <3>2, <3>3, <3>4
      <3> QED
        BY <3>5
    <2>2. 1 .. received + 1 = (1 .. received) \cup {received + 1}
      BY <1>5
    <2> QED
      BY <1>1, <2>1, <2>2 DEF TerminalInv, NothingLost
  <1>9. PlacedOnce'
    <2>0. PlacedOnce
      BY DEF TerminalInv
    <2>1. \A i \in DOMAIN messages : messages'[i] = messages[i] /\ messages[i].id # received + 1 /\ i # n + 1
      BY <1>4, <1>5
    <2>2. \A j \in DOMAIN delayed : delayed[j].id # received + 1
      BY <1>5
    <2>3. \A i, j \in DOMAIN messages' : i # j /\ messages'[i].id # 0 => messages'[i].id # messages'[j].id
      BY <1>3, <1>4, <1>6, <2>0, <2>1 DEF PlacedOnce
    <2>4. \A i \in DOMAIN messages', j \in DOMAIN delayed : messages'[i].id # delayed[j].id
      BY <1>3, <1>4, <1>6, <2>0, <2>1, <2>2 DEF PlacedOnce
    <2>5. \A i \in DOMAIN messages' : messages'[i].id = 0 => messages'[i].timestamp = 0
      BY <1>3, <1>4, <1>5, <1>6, <2>0, <2>1 DEF PlacedOnce
    <2> QED
      BY <1>1, <2>0, <2>3, <2>4, <2>5 DEF PlacedOnce
  <1>10. Descending(delayed)' /\ LoopProgress'
    BY <1>1 DEF TerminalInv, Descending, LoopProgress
  <1>11. StillAhead'
    <2>1. ~overflow => \A i \in DOMAIN messages' : messages'[i].id \notin handled
      BY <1>1, <1>3, <1>4, <1>5, <1>6 DEF TerminalInv, StillAhead
    <2> QED
      BY <1>1, <2>1 DEF TerminalInv, StillAhead
  <1> QED
    BY <1>7, <1>8, <1>9, <1>10, <1>11 DEF TerminalInv

(* Steps that move neither messages nor handle any *)
LEMMA IdleStepInv ==
    ASSUME TerminalInv, UNCHANGED <<messages, delayed, received, handled, again>>, now' \in Times,
           pos' \in 1 .. MessagesBound + 1,
           \/ step' = step /\ pos' = pos /\ overflow' = overflow
           \/ step = "idle" /\ step' = "loop" /\ pos' = 1 /\ overflow' = overflow
           \/ step = "loop" /\ step' = "idle" /\ overflow' = TRUE
           \/ step = "drain" /\ step' = "idle" /\ overflow' = overflow
    PROVE  TerminalInv'
  <1>1. DOMAIN messages = 1 .. Len(messages) /\ Len(messages) \in Nat
    BY NumbersReceived
  <1>2. TerminalTypeOK'
    BY DEF TerminalInv, TerminalTypeOK
  <1>3. NothingLost' /\ Descending(delayed)' /\ PlacedOnce'
    BY DEF TerminalInv, NothingLost, Descending, PlacedOnce
  <1>4. LoopProgress'
    BY <1>1 DEF TerminalInv, LoopProgress
  <1>5. StillAhead'
    BY <1>1 DEF TerminalInv, StillAhead, LoopProgress
  <1> QED
    BY <1>2, <1>3, <1>4, <1>5 DEF TerminalInv

(* The loop handles the message it is at, if that is due. *)
LEMMA HandleImmediatelyInv ==
    ASSUME TerminalInv, HandleImmediately PROVE TerminalInv'
  <1> DEFINE x == messages[pos].id
             n == Len(messages)
  <1>1. /\ step = "loop" /\ pos <= n /\ pos' = pos + 1
        /\ handled' = handled \cup ({x} \ {0}) /\ again' = again \cup ({x} \cap handled)
        /\ UNCHANGED <<now, messages, delayed, step, received, overflow>>
    BY DEF HandleImmediately, HandleMessage
  <1>2. TerminalTypeOK /\ n <= received
    BY DEF TerminalInv
  <1>3. n \in Nat /\ received \in 0 .. MessagesBound /\ DOMAIN messages = 1 .. n /\ MessagesBound \in Nat
    BY NumbersReceived, TerminalConstants
  <1>4. pos \in 1 .. n
    BY <1>1, <1>2, <1>3 DEF TerminalTypeOK
  <1>5. x \in 0 .. received
    BY <1>3, <1>4, NumbersReceived
  <1>6. TerminalTypeOK'
    <2>1. pos' \in 1 .. MessagesBound + 1
      BY <1>1, <1>2, <1>3, <1>4
    <2>2. {x} \ {0} \subseteq Numbers
      BY <1>3, <1>5 DEF Numbers
    <2>3. handled' \subseteq Numbers /\ again' \subseteq Numbers
      BY <1>1, <1>2, <2>2 DEF TerminalTypeOK
    <2> QED
      BY <1>1, <1>2, <2>1, <2>3 DEF TerminalTypeOK
  <1>7. NothingLost'
    <2>1. {x} \ {0} \subseteq NumbersOf(messages)
      BY <1>3, <1>4, NumberIn
    <2> QED
      BY <1>1, <2>1 DEF TerminalInv, NothingLost
  <1>8. Descending(delayed)' /\ PlacedOnce'
    BY <1>1 DEF TerminalInv, Descending, PlacedOnce
  <1>9. LoopProgress'
    <2>1. \A i \in 1 .. n : i < pos + 1 => i < pos \/ i = pos
      BY <1>4
    <2>2. \A i \in DOMAIN messages : i < pos => messages[i].id \in handled \cup {0}
      BY <1>1 DEF TerminalInv, LoopProgress
    <2>3. \A i \in DOMAIN messages : i < pos + 1 => messages[i].id \in handled' \cup {0}
      BY <1>1, <1>3, <2>1, <2>2
    <2>4. pos + 1 <= n + 1
      BY <1>1, <1>3, <1>4
    <2> QED
      BY <1>1, <2>3, <2>4 DEF LoopProgress
  <1>10. StillAhead'
    <2> SUFFICES ASSUME ~overflow PROVE StillAhead'
      BY <1>1 DEF StillAhead
    <2>1. /\ again = {} /\ \A j \in DOMAIN delayed : delayed[j].id \notin handled
          /\ \A i \in DOMAIN messages : i >= pos => messages[i].id \notin handled
      BY <1>1 DEF TerminalInv, StillAhead
    <2>2. x \notin handled
      BY <1>3, <1>4, <2>1
    <2>3. \A i \in 1 .. n : i >= pos + 1 => i >= pos /\ i # pos
      BY <1>4
    <2>4. \A i \in DOMAIN messages : i >= pos + 1 => messages[i].id \notin handled'
      <3>1. \A i \in DOMAIN messages : i # pos /\ x # 0 => x # messages[i].id
        BY <1>3, <1>4 DEF TerminalInv, PlacedOnce
      <3> QED
        BY <1>1, <1>3, <2>1, <2>3, <3>1
    <2>5. \A j \in DOMAIN delayed : delayed[j].id \notin handled'
      <3>1. \A j \in DOMAIN delayed : x # delayed[j].id
        BY <1>3, <1>4 DEF TerminalInv, PlacedOnce
      <3> QED
        BY <1>1, <2>1, <3>1
    <2> QED
      BY <1>1, <2>1, <2>2, <2>4, <2>5 DEF StillAhead
  <1> QED
    BY <1>1, <1>2, <1>6, <1>7, <1>8, <1>9, <1>10 DEF TerminalInv

(* The loop moves a message that is not due to its place in the sorted queue, as long as that has room. *)
LEMMA DelayInv ==
    ASSUME TerminalInv, Delay PROVE TerminalInv'
  <1> DEFINE m == messages[pos]
             n == Len(messages)
             d == Len(delayed)
  <1>1. /\ step = "loop" /\ pos <= n /\ now < m.timestamp
        /\ delayed' = DrawnDelayedMessage(m) /\ messages' = [messages EXCEPT ![pos] = MovedFrom]
        /\ pos' = pos + 1 /\ UNCHANGED <<now, step, received, handled, again, overflow>>
    BY DEF Delay
  <1>2. TerminalTypeOK /\ n <= received /\ messages \in Seq(Messages) /\ delayed \in Seq(Messages)
    BY DEF TerminalInv, TerminalTypeOK
  <1>3. /\ n \in Nat /\ received \in 0 .. MessagesBound /\ DOMAIN messages = 1 .. n /\ MessagesBound \in Nat
        /\ d \in Nat /\ DOMAIN delayed = 1 .. d
    BY NumbersReceived, TerminalConstants
  <1>4. pos \in 1 .. n /\ now \in Nat
    BY <1>1, <1>2, <1>3 DEF TerminalTypeOK, Times
  <1>5. m \in Messages /\ m.id \in 0 .. received /\ m.timestamp \in Nat
    BY <1>3, <1>4, NumbersReceived, TerminalConstants
  <1>6. m.id # 0
    <2>1. m.id = 0 => m.timestamp = 0
      BY <1>3, <1>4 DEF TerminalInv, PlacedOnce
    <2> QED
      BY <1>1, <1>4, <2>1
  <1>7. /\ delayed' \in Seq(Messages) /\ Descending(delayed') /\ Len(delayed') = d + 1
        /\ \E k \in 0 .. d : IsWith(delayed', delayed, k, m)
    BY <1>1, <1>2, <1>5, DrawnInOrder DEF TerminalInv
  <1>8. PICK k \in 0 .. d : IsWith(delayed', delayed, k, m)
    BY <1>7
  <1> HIDE DEF m
  <1>9. /\ \A i \in 1 .. k : delayed'[i] = delayed[i]
        /\ delayed'[k + 1] = m /\ \A i \in k + 2 .. d + 1 : delayed'[i] = delayed[i - 1]
        /\ DOMAIN delayed' = 1 .. d + 1
    <2>1. DOMAIN delayed' = 1 .. d + 1
      BY <1>7
    <2> QED
      BY <1>8, <2>1 DEF IsWith
  <1>10. \A i \in DOMAIN delayed' : \/ i <= k /\ i \in DOMAIN delayed /\ delayed'[i] = delayed[i]
                                    \/ i = k + 1
                                    \/ i > k + 1 /\ i - 1 \in DOMAIN delayed /\ delayed'[i] = delayed[i - 1]
    BY <1>3, <1>9
  <1>11. \A i \in DOMAIN delayed : \E j \in DOMAIN delayed' : delayed'[j] = delayed[i]
    <2> TAKE i \in DOMAIN delayed
    <2>1. CASE i <= k
      <3>1. i \in 1 .. k /\ i \in 1 .. d + 1
        BY <1>3, <2>1
      <3> QED
        BY <1>9, <3>1
    <2>2. CASE i > k
      <3>1. i + 1 \in k + 2 .. d + 1 /\ i + 1 \in 1 .. d + 1 /\ (i + 1) - 1 = i
        BY <1>3, <2>2
      <3> QED
        BY <1>9, <3>1
    <2> QED
      BY <1>3, <2>1, <2>2
  <1>12. /\ messages' \in Seq(Messages) /\ Len(messages') = n /\ DOMAIN messages' = DOMAIN messages
         /\ messages'[pos] = MovedFrom /\ \A i \in DOMAIN messages : i # pos => messages'[i] = messages[i]
    BY <1>1, <1>2, <1>3, <1>4, TerminalConstants
  <1>13. k + 1 \in DOMAIN delayed'
    BY <1>3, <1>9
  <1>14. TerminalTypeOK' /\ Len(messages') <= received'
    <2>1. pos' \in 1 .. MessagesBound + 1
      BY <1>1, <1>2, <1>3, <1>4
    <2> QED
      BY <1>1, <1>2, <1>7, <1>12, <2>1 DEF TerminalTypeOK
  <1>15. NothingLost'
    <2>1. NumbersOf(delayed') = NumbersOf(delayed) \cup {m.id}
      <3>1. \A y : (\E i \in DOMAIN delayed' : delayed'[i].id = y)
                    <=> (\E i \in DOMAIN delayed : delayed[i].id = y) \/ y = m.id
        <4> TAKE y
        <4>1. (\E i \in DOMAIN delayed : delayed[i].id = y) => \E i \in DOMAIN delayed' : delayed'[i].id = y
          BY <1>11
        <4>2. delayed'[k + 1].id = m.id
          BY <1>9
        <4>3. ASSUME NEW i \in DOMAIN delayed', delayed'[i].id = y
              PROVE  (\E j \in DOMAIN delayed : delayed[j].id = y) \/ y = m.id
          BY <1>10, <4>2, <4>3
        <4> QED
          BY <1>13, <4>1, <4>2, <4>3
      <3>2. ASSUME NEW y PROVE y \in NumbersOf(delayed') <=> y \in NumbersOf(delayed) \cup {m.id}
        <4>1. y \in NumbersOf(delayed') <=> y # 0 /\ \E i \in DOMAIN delayed' : delayed'[i].id = y
          BY NumberIn
        <4>2. y \in NumbersOf(delayed) <=> y # 0 /\ \E i \in DOMAIN delayed : delayed[i].id = y
          BY NumberIn
        <4> QED
          BY <1>6, <3>1, <4>1, <4>2
      <3> QED
        BY <3>2
    <2>2. NumbersOf(messages') \cup {m.id} = NumbersOf(messages)
      <3>1. \A y : y # 0 => ((\E i \in DOMAIN messages' : messages'[i].id = y) \/ y = m.id
                              <=> \E i \in DOMAIN messages : messages[i].id = y)
        BY <1>3, <1>4, <1>12, TerminalConstants DEF m
      <3> QED
        BY <1>6, <3>1, NumberIn
    <2> QED
      BY <1>1, <2>1, <2>2 DEF TerminalInv, NothingLost
  <1>16. PlacedOnce'
    <2>0. PlacedOnce
      BY DEF TerminalInv
    <2>1. \A i \in DOMAIN messages : i # pos => messages[i].id # m.id
      BY <1>3, <1>4, <1>6, <2>0 DEF PlacedOnce, m
    <2>2. \A j \in DOMAIN delayed : delayed[j].id # m.id
      BY <1>3, <1>4, <2>0 DEF PlacedOnce, m
    <2>3. \A i, j \in DOMAIN messages' : i # j /\ messages'[i].id # 0 => messages'[i].id # messages'[j].id
      BY <1>12, <2>0, TerminalConstants DEF PlacedOnce
    <2>4. \A j \in DOMAIN delayed' : delayed'[j].id # 0
      BY <1>6, <1>9, <1>10, <2>0 DEF PlacedOnce
    <2>5. \A i \in DOMAIN messages', j \in DOMAIN delayed' : messages'[i].id # delayed'[j].id
      <3> TAKE i \in DOMAIN messages', j \in DOMAIN delayed'
      <3>1. CASE i = pos
        BY <1>12, <2>4, <3>1, TerminalConstants
      <3>2. CASE i # pos
        BY <1>9, <1>10, <1>12, <2>0, <2>1, <3>2 DEF PlacedOnce
      <3> QED
        BY <3>1, <3>2
    <2>6. \A i \in DOMAIN messages' : messages'[i].id = 0 => messages'[i].timestamp = 0
      BY <1>12, <2>0, TerminalConstants DEF PlacedOnce
    <2>7. ASSUME NEW i \in DOMAIN delayed', NEW j \in DOMAIN delayed', i # j
          PROVE  delayed'[i].id # delayed'[j].id
      <3>1. i \in Int /\ j \in Int /\ k \in Int
        BY <1>3, <1>9
      <3>2. CASE i = k + 1
        <4>1. j # k + 1
          BY <2>7, <3>2
        <4>2. \E y \in DOMAIN delayed : delayed'[j] = delayed[y]
          BY <1>10, <4>1
        <4> QED
          BY <1>9, <2>2, <3>2, <4>2
      <3>3. CASE j = k + 1
        <4>1. i # k + 1
          BY <2>7, <3>3
        <4>2. \E y \in DOMAIN delayed : delayed'[i] = delayed[y]
          BY <1>10, <4>1
        <4> QED
          BY <1>9, <2>2, <3>3, <4>2
      <3>4. CASE i # k + 1 /\ j # k + 1
        <4>1. \E a, b \in DOMAIN delayed : a # b /\ delayed'[i] = delayed[a] /\ delayed'[j] = delayed[b]
          <5>1. CASE i <= k /\ j <= k
            BY <1>10, <2>7, <3>1, <3>4, <5>1
          <5>2. CASE i <= k /\ j > k + 1
            <6>1. /\ i \in DOMAIN delayed /\ delayed'[i] = delayed[i]
                  /\ j - 1 \in DOMAIN delayed /\ delayed'[j] = delayed[j - 1] /\ i # j - 1
              BY <1>10, <3>1, <3>4, <5>2
            <6> QED
              BY <6>1
          <5>3. CASE i > k + 1 /\ j <= k
            <6>1. /\ i - 1 \in DOMAIN delayed /\ delayed'[i] = delayed[i - 1]
                  /\ j \in DOMAIN delayed /\ delayed'[j] = delayed[j] /\ i - 1 # j
              BY <1>10, <3>1, <3>4, <5>3
            <6> QED
              BY <6>1
          <5>4. CASE i > k + 1 /\ j > k + 1
            <6>1. /\ i - 1 \in DOMAIN delayed /\ delayed'[i] = delayed[i - 1]
                  /\ j - 1 \in DOMAIN delayed /\ delayed'[j] = delayed[j - 1] /\ i - 1 # j - 1
              BY <1>10, <2>7, <3>1, <3>4, <5>4
            <6> QED
              BY <6>1
          <5> QED
            BY <3>1, <3>4, <5>1, <5>2, <5>3, <5>4
        <4> QED
          BY <2>0, <4>1 DEF PlacedOnce
      <3> QED
        BY <3>2, <3>3, <3>4
    <2> QED
      BY <2>3, <2>4, <2>5, <2>6, <2>7 DEF PlacedOnce
  <1>17. LoopProgress'
    <2>1. \A i \in DOMAIN messages : i < pos + 1 => i < pos \/ i = pos
      BY <1>3, <1>4
    <2>2. \A i \in DOMAIN messages : i < pos => messages[i].id \in handled \cup {0}
      BY <1>1 DEF TerminalInv, LoopProgress
    <2>3. \A i \in DOMAIN messages' : i < pos + 1 => messages'[i].id \in handled \cup {0}
      BY <1>12, <2>1, <2>2, TerminalConstants
    <2>4. pos + 1 <= Len(messages') + 1
      BY <1>3, <1>4, <1>12
    <2> QED
      BY <1>1, <2>3, <2>4 DEF LoopProgress
  <1>18. StillAhead'
    <2> SUFFICES ASSUME ~overflow PROVE StillAhead'
      BY <1>1 DEF StillAhead
    <2>1. /\ again = {} /\ \A j \in DOMAIN delayed : delayed[j].id \notin handled
          /\ \A i \in DOMAIN messages : i >= pos => messages[i].id \notin handled
      BY <1>1 DEF TerminalInv, StillAhead
    <2>2. m.id \notin handled
      BY <1>3, <1>4, <2>1 DEF m
    <2>3. \A i \in DOMAIN messages : i >= pos + 1 => i >= pos /\ i # pos
      BY <1>3, <1>4
    <2>4. \A i \in DOMAIN messages' : i >= pos + 1 => messages'[i].id \notin handled
      BY <1>12, <2>1, <2>3
    <2>5. \A j \in DOMAIN delayed' : delayed'[j].id \notin handled
      BY <1>9, <1>10, <2>1, <2>2
    <2> QED
      BY <1>1, <2>1, <2>4, <2>5 DEF StillAhead
  <1> QED
    BY <1>7, <1>14, <1>15, <1>16, <1>17, <1>18 DEF TerminalInv

(* After the loop the first queue is emptied: all of it was handled or delayed. *)
LEMMA ClearMessagesInv ==
    ASSUME TerminalInv, ClearMessages PROVE TerminalInv'
  <1>1. /\ step = "loop" /\ pos > Len(messages) /\ messages' = <<>> /\ step' = "drain"
        /\ UNCHANGED <<now, delayed, pos, received, handled, again, overflow>>
    BY DEF ClearMessages
  <1>2. messages' \in Seq(Messages) /\ Len(messages') = 0 /\ DOMAIN messages' = {}
    BY <1>1
  <1>3. /\ DOMAIN messages = 1 .. Len(messages) /\ Len(messages) \in Nat /\ received \in 0 .. MessagesBound
        /\ pos \in Nat /\ MessagesBound \in Nat
    BY NumbersReceived, TerminalConstants DEF TerminalInv, TerminalTypeOK
  <1>4. TerminalTypeOK' /\ Len(messages') <= received'
    BY <1>1, <1>2, <1>3 DEF TerminalInv, TerminalTypeOK
  <1>5. NothingLost'
    <2>1. \A i \in DOMAIN messages : i < pos
      BY <1>1, <1>3
    <2>2. NumbersOf(messages) \subseteq handled
      BY <1>1, <2>1, NumberIn DEF TerminalInv, LoopProgress
    <2>3. NumbersOf(messages') = {}
      BY <1>2, NumberIn
    <2> QED
      BY <1>1, <2>2, <2>3 DEF TerminalInv, NothingLost
  <1>6. Descending(delayed)' /\ PlacedOnce'
    BY <1>1, <1>2 DEF TerminalInv, Descending, PlacedOnce
  <1>7. LoopProgress' /\ StillAhead'
    BY <1>1, <1>2 DEF TerminalInv, LoopProgress, StillAhead
  <1> QED
    BY <1>4, <1>5, <1>6, <1>7 DEF TerminalInv

(* The delayed message that is due first is handled and taken from the queue. *)
LEMMA HandleDelayedInv ==
    ASSUME TerminalInv, HandleDelayed PROVE TerminalInv'
  <1> DEFINE d == Len(delayed)
             x == delayed[d].id
  <1>1. /\ step = "drain" /\ delayed # <<>> /\ delayed' = SubSeq(delayed, 1, d - 1)
        /\ handled' = handled \cup ({x} \ {0}) /\ again' = again \cup ({x} \cap handled)
        /\ UNCHANGED <<now, messages, step, pos, received, overflow>>
    BY DEF HandleDelayed, HandleMessage
  <1>2. TerminalTypeOK /\ delayed \in Seq(Messages)
    BY DEF TerminalInv, TerminalTypeOK
  <1>3. d \in Nat \ {0} /\ DOMAIN delayed = 1 .. d /\ d \in DOMAIN delayed
    BY <1>1, <1>2
  <1>4. /\ delayed' \in Seq(Messages) /\ Len(delayed') = d - 1 /\ DOMAIN delayed' = 1 .. d - 1
        /\ \A i \in 1 .. d - 1 : delayed'[i] = delayed[i] /\ i \in DOMAIN delayed /\ i # d
    <2>1. d - 1 \in Nat /\ d - 1 <= d /\ \A i \in 1 .. d - 1 : i \in 1 .. d /\ i # d
      <3> HIDE DEF d
      <3> QED
        BY <1>3
    <2> HIDE DEF d
    <2>2. delayed' \in Seq(Messages)
      <3>1. 1 \in 1 .. d + 1 /\ d - 1 \in 0 .. d
        BY <1>3, <2>1
      <3> QED
        BY <1>1, <1>2, <3>1 DEF d
    <2>3. Len(delayed') = d - 1 /\ DOMAIN delayed' = 1 .. d - 1
      <3>1. \A n \in Nat : n - 1 \in Nat => Len(SubSeq(delayed, 1, n - 1)) = n - 1
        BY <1>2
      <3>2. Len(delayed') = d - 1
        BY <1>1, <1>3, <2>1, <3>1
      <3> QED
        BY <2>2, <3>2
    <2>4. ASSUME NEW i \in 1 .. d - 1 PROVE delayed'[i] = delayed[i]
      BY <1>1, <1>2, <2>1, <2>4 DEF d
    <2> QED
      BY <1>3, <2>1, <2>2, <2>3, <2>4
  <1>5. x \in 1 .. received /\ x # 0 /\ received \in 0 .. MessagesBound /\ MessagesBound \in Nat
    <2>1. x # 0
      BY <1>3 DEF TerminalInv, PlacedOnce
    <2> QED
      BY <1>3, <2>1, NumbersReceived, TerminalConstants
  <1>6. \A i \in DOMAIN delayed : i = d \/ i \in 1 .. d - 1
    BY <1>3
  <1> HIDE DEF d, x
  <1>7. TerminalTypeOK'
    <2>1. x \in Numbers
      BY <1>5 DEF Numbers
    <2> QED
      BY <1>1, <1>2, <1>4, <2>1 DEF TerminalTypeOK
  <1>8. NothingLost'
    <2>1. NumbersOf(delayed) = NumbersOf(delayed') \cup {x}
      <3>1. \A y : (\E i \in DOMAIN delayed : delayed[i].id = y)
                    <=> (\E i \in DOMAIN delayed' : delayed'[i].id = y) \/ y = x
        BY <1>3, <1>4, <1>6 DEF x, d
      <3> QED
        BY <1>5, <3>1, NumberIn
    <2>2. handled' = handled \cup {x}
      BY <1>1, <1>5
    <2> QED
      BY <1>1, <2>1, <2>2 DEF TerminalInv, NothingLost
  <1>9. Descending(delayed')
    BY <1>4 DEF TerminalInv, Descending
  <1>10. PlacedOnce'
    BY <1>1, <1>4 DEF TerminalInv, PlacedOnce
  <1>11. LoopProgress'
    BY <1>1 DEF TerminalInv, LoopProgress
  <1>12. StillAhead'
    <2> SUFFICES ASSUME ~overflow PROVE StillAhead'
      BY <1>1 DEF StillAhead
    <2>1. again = {} /\ \A j \in DOMAIN delayed : delayed[j].id \notin handled
      BY DEF TerminalInv, StillAhead
    <2>2. x \notin handled
      BY <1>3, <2>1 DEF x
    <2>3. \A j \in DOMAIN delayed' : delayed'[j].id \notin handled'
      <3>1. \A j \in DOMAIN delayed : j # d => delayed[j].id # x
        BY <1>3 DEF TerminalInv, PlacedOnce, x
      <3> QED
        BY <1>1, <1>4, <2>1, <3>1
    <2> QED
      BY <1>1, <2>1, <2>2, <2>3 DEF StillAhead
  <1> QED
    BY <1>1, <1>7, <1>8, <1>9, <1>10, <1>11, <1>12 DEF TerminalInv

(* The invariant of the queues is inductive. *)
LEMMA TerminalStep ==
    ASSUME TerminalInv, [TerminalNext]_terminalVars PROVE TerminalInv'
  <1>1. 1 \in 1 .. MessagesBound + 1 /\ now \in Times /\ pos \in 1 .. MessagesBound + 1
    BY TerminalConstants DEF TerminalInv, TerminalTypeOK
  <1>2. CASE UNCHANGED terminalVars
    BY <1>1, <1>2, IdleStepInv DEF terminalVars
  <1>3. CASE ClockTick
    <2>1. now' \in Times
      BY <1>1, <1>3, TerminalConstants DEF ClockTick, Times
    <2> QED
      BY <1>1, <1>3, <2>1, IdleStepInv DEF ClockTick
  <1>4. CASE HandleBufferedMessages
    BY <1>1, <1>4, IdleStepInv DEF HandleBufferedMessages
  <1>5. CASE DropTheMessage
    BY <1>1, <1>5, IdleStepInv DEF DropTheMessage
  <1>6. CASE Return
    BY <1>1, <1>6, IdleStepInv DEF Return
  <1> QED
    BY <1>2, <1>3, <1>4, <1>5, <1>6, BufferMessageInv, HandleImmediatelyInv, DelayInv, ClearMessagesInv,
       HandleDelayedInv DEF TerminalNext, HandlingStep

(* It holds of empty queues. *)
LEMMA TerminalStart ==
    ASSUME TerminalInit PROVE TerminalInv
  <1>1. messages = <<>> /\ delayed = <<>> /\ DOMAIN messages = {} /\ DOMAIN delayed = {} /\ Len(messages) = 0
    BY DEF TerminalInit
  <1>2. TerminalTypeOK
    <2>1. 0 \in Times /\ 0 \in 0 .. MessagesBound /\ 1 \in 1 .. MessagesBound + 1
      BY TerminalConstants DEF Times
    <2>2. messages \in Seq(Messages) /\ delayed \in Seq(Messages)
      BY <1>1
    <2> QED
      BY <2>1, <2>2 DEF TerminalInit, TerminalTypeOK
  <1>3. NumbersOf(messages) = {} /\ NumbersOf(delayed) = {}
    BY <1>1, NumberIn
  <1>4. NothingLost
    BY <1>3 DEF TerminalInit, NothingLost
  <1>5. Descending(delayed) /\ PlacedOnce /\ LoopProgress /\ StillAhead
    BY <1>1 DEF TerminalInit, Descending, PlacedOnce, LoopProgress, StillAhead
  <1> QED
    BY <1>1, <1>2, <1>4, <1>5 DEF TerminalInit, TerminalInv

(* A step handles one message at most, and that one is due: a number is at one place. *)
LEMMA HandledWhenDue ==
    ASSUME TerminalInv, TerminalNext,
           NEW x \in handled', x \notin handled
    PROVE  /\ \A i \in DOMAIN messages : messages[i].id = x => messages[i].timestamp <= now
           /\ \A j \in DOMAIN delayed : delayed[j].id = x => delayed[j].timestamp <= now
  <1>1. HandleImmediately \/ HandleDelayed
    BY DEF TerminalNext, HandlingStep, BufferMessage, ClockTick, HandleBufferedMessages, Delay, DropTheMessage,
           ClearMessages, Return
  <1>2. /\ DOMAIN messages = 1 .. Len(messages) /\ Len(messages) \in Nat
        /\ DOMAIN delayed = 1 .. Len(delayed) /\ Len(delayed) \in Nat
        /\ now \in Nat /\ pos \in Nat \ {0} /\ PlacedOnce
    BY NumbersReceived, TerminalConstants DEF TerminalInv, TerminalTypeOK, Times
  <1>3. \A i \in DOMAIN messages : messages[i].timestamp \in Nat
    BY NumbersReceived, TerminalConstants
  <1>4. CASE HandleImmediately
    <2>1. pos \in DOMAIN messages /\ messages[pos].timestamp <= now
      BY <1>2, <1>3, <1>4 DEF HandleImmediately
    <2>2. x = messages[pos].id /\ x # 0
      BY <1>4 DEF HandleImmediately, HandleMessage
    <2> QED
      BY <1>2, <2>1, <2>2 DEF PlacedOnce
  <1>5. CASE HandleDelayed
    <2>1. Len(delayed) \in DOMAIN delayed
      BY <1>2, <1>5 DEF HandleDelayed, TerminalInv, TerminalTypeOK
    <2>2. /\ delayed[Len(delayed)].timestamp <= now
          /\ x = delayed[Len(delayed)].id /\ x # 0
      BY <1>5 DEF HandleDelayed, HandleMessage
    <2> QED
      BY <1>2, <2>1, <2>2 DEF PlacedOnce
  <1> QED
    BY <1>1, <1>4, <1>5

(* What is left behind the last message is due even later. *)
LEMMA RestIsLater ==
    ASSUME TerminalInv, TerminalNext, step = "drain", step' = "idle"
    PROVE  \A i \in DOMAIN delayed : delayed[i].timestamp > now
  <1>1. Return
    BY DEF TerminalNext, HandlingStep, BufferMessage, ClockTick, HandleBufferedMessages, HandleImmediately, Delay,
           DropTheMessage, ClearMessages, HandleDelayed
  <1>2. /\ DOMAIN delayed = 1 .. Len(delayed) /\ Len(delayed) \in Nat /\ delayed \in Seq(Messages)
        /\ now \in Nat /\ \A i \in DOMAIN delayed : delayed[i].timestamp \in Nat
    BY NumbersReceived, TerminalConstants DEF TerminalInv, TerminalTypeOK, Times
  <1> TAKE i \in DOMAIN delayed
  <1>3. delayed # <<>> /\ Len(delayed) \in DOMAIN delayed /\ (i = Len(delayed) \/ i < Len(delayed))
    BY <1>2
  <1>4. delayed[Len(delayed)].timestamp > now
    BY <1>1, <1>3 DEF Return
  <1>5. i < Len(delayed) => delayed[i].timestamp >= delayed[Len(delayed)].timestamp
    BY <1>3 DEF TerminalInv, Descending
  <1> QED
    BY <1>2, <1>3, <1>4, <1>5

(* The queues of BufferedProtobufTerminal lose no message, handle none twice unless the queue of
   delayed messages was full, none before its time, and leave none behind that is due, whatever
   the timestamps are and in whichever order messages are received. *)
THEOREM QueuesStayExact == TerminalSpec => QueuesAreExact
  <1>1. TerminalInit => TerminalInv
    BY TerminalStart
  <1>2. TerminalInv /\ [TerminalNext]_terminalVars => TerminalInv'
    BY TerminalStep
  <1>3. TerminalInv => TerminalTypeOK /\ NothingLost /\ HandledOnce
    <2> SUFFICES ASSUME TerminalInv PROVE HandledOnce
      BY DEF TerminalInv
    <2> QED
      BY NumberIn DEF TerminalInv, StillAhead, HandledOnce
  <1>4. TerminalInv /\ [TerminalNext]_terminalVars =>
            [\A queue \in {messages, delayed} : \A i \in DOMAIN queue :
                queue[i].id \in handled' \ handled => queue[i].timestamp <= now]_terminalVars
    BY HandledWhenDue
  <1>5. TerminalInv /\ [TerminalNext]_terminalVars =>
            [step = "drain" /\ step' = "idle" =>
                \A i \in DOMAIN delayed : delayed[i].timestamp > now]_terminalVars
    BY RestIsLater
  <1> QED
    BY <1>1, <1>2, <1>3, <1>4, <1>5, PTL DEF TerminalSpec, QueuesAreExact, NeverTooSoon, NoOverdueLeft

-----------------------------------------------------------------------------
(* The composition: what each part promises, it promises in the network. *)
LEMMA NetworkImplementsEach ==
    /\ NetworkSpec => Spec
    /\ NetworkSpec => LoginSpec
    /\ NetworkSpec => AdminSpec
    /\ NetworkSpec => TerminalSpec
  <1>1. NetworkInit => Init /\ LoginInit /\ AdminInit /\ TerminalInit
    BY DEF NetworkInit
  <1>2. [NetworkNext]_networkVars => [Next]_vars
    BY DEF NetworkNext, networkVars
  <1>3. [NetworkNext]_networkVars => [LoginNext]_loginVars
    BY DEF NetworkNext, networkVars
  <1>4. [NetworkNext]_networkVars => [AdminNext]_adminVars
    BY DEF NetworkNext, networkVars
  <1>5. [NetworkNext]_networkVars => [TerminalNext]_terminalVars
    BY DEF NetworkNext, networkVars
  <1> QED
    BY <1>1, <1>2, <1>3, <1>4, <1>5, PTL DEF NetworkSpec, Spec, LoginSpec, AdminSpec, TerminalSpec

(* In the composed specification of the run: silent connections are closed in time and
   responsive ones kept, slots are owed, administrators served, queues exact. *)
THEOREM NetworkKeepsItsPromises ==
    NetworkSpec => /\ [](DisconnectedInTime /\ ResponsiveStaysConnected)
                   /\ [](LoginSlotsAreOwed /\ AdministratorsAreServed)
                   /\ QueuesAreExact
  BY NetworkImplementsEach, SilentAreDisconnectedInTime, ResponsiveAreKept, LoginSlotsStayOwed,
     AdministratorsStayServed, QueuesStayExact, PTL
=============================================================================
