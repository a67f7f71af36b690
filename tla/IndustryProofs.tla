--------------------------- MODULE IndustryProofs ---------------------------
(***************************************************************************)
(* What a player's industry keeps to, for every number of containers, every*)
(* interval, amount and price: thrusts of engines, transfers between       *)
(* containers that all threads proceed at once, ships that are built, and, *)
(* for every configuration, what is loaded from it.                        *)
(***************************************************************************)
EXTENDS MCIndustry, FiniteSetTheorems, FunctionTheorems, SequenceTheorems,
        WellFoundedInduction, NaturalsInduction, TLAPS
-----------------------------------------------------------------------------
(* Navigation *)

(* The larger one of 0 and a number *)
LEMMA MaxZero ==
    ASSUME NEW a \in Int PROVE Max({0, a}) = IF a > 0 THEN a ELSE 0
  <1>1. \E m \in {0, a} : \A y \in {0, a} : m >= y
    OBVIOUS
  <1>2. Max({0, a}) \in {0, a} /\ \A y \in {0, a} : Max({0, a}) >= y
    BY <1>1 DEF Max
  <1> QED
    BY <1>2

(* While a thrust acts, the time it has acted and the time it has left add up
   to what was asked for, less the interval of the cycle that handled it. *)
NavigationInv ==
    /\ request \in Int /\ m_nTimeLeftUs \in Nat /\ asked \in Nat /\ handledIn \in Nat /\ acted \in Nat
    /\ force => m_nTimeLeftUs > 0 /\ acted + m_nTimeLeftUs = asked - handledIn
    /\ expired => \/ asked <= handledIn /\ acted = 0
                  \/ asked > handledIn /\ acted \in asked - handledIn .. asked - handledIn + TickUs - 1

(* The constants of navigation can be computed with *)
LEMMA NavigationNumbers == Sync \in Nat /\ TickUs \in Nat /\ TickUs > 0 /\ Sync > 0
  BY NavigationAssumption

(* A cycle without a message that the engine handles *)
LEMMA QuietCycleInv ==
    ASSUME NavigationInv, NEW interval \in {0, TickUs}, QuietCycle(interval) PROVE NavigationInv'
  <1>1. CASE ~force
    BY <1>1 DEF QuietCycle, NavigationInv
  <1>2. CASE force
    <2>1. /\ acted' = acted + interval
          /\ force' = EngineProceed(m_nTimeLeftUs, interval).force
          /\ m_nTimeLeftUs' = EngineProceed(m_nTimeLeftUs, interval).left
          /\ expired' = ~EngineProceed(m_nTimeLeftUs, interval).force
          /\ UNCHANGED <<asked, handledIn, request>>
      BY <1>2 DEF QuietCycle
    <2>2. interval \in Nat /\ interval <= TickUs
      BY NavigationNumbers
    <2>3. CASE m_nTimeLeftUs > interval
      <3>1. force' = TRUE /\ m_nTimeLeftUs' = m_nTimeLeftUs - interval /\ expired' = FALSE
        BY <2>1, <2>3 DEF EngineProceed
      <3> QED
        BY <1>2, <2>1, <2>2, <2>3, <3>1 DEF NavigationInv
    <2>4. CASE ~(m_nTimeLeftUs > interval)
      <3>1. force' = FALSE /\ m_nTimeLeftUs' = 0 /\ expired' = TRUE
        BY <2>1, <2>4 DEF EngineProceed
      <3>2. asked > handledIn /\ acted + interval \in asked - handledIn .. asked - handledIn + TickUs - 1
        BY <1>2, <2>2, <2>4, NavigationNumbers DEF NavigationInv
      <3> QED
        BY <2>1, <2>2, <3>1, <3>2 DEF NavigationInv
    <2> QED
      BY <2>3, <2>4
  <1> QED
    BY <1>1, <1>2

(* A cycle in which the engine gets a thrust and is proceeded at once *)
LEMMA ThrustCycleInv ==
    ASSUME NavigationInv, NEW interval \in {0, TickUs}, ThrustCycle(interval) PROVE NavigationInv'
  <1>1. /\ request > 0 /\ request' = NoRequest
        /\ force' = EngineProceed(request, interval).force
        /\ m_nTimeLeftUs' = EngineProceed(request, interval).left
        /\ expired' = ~EngineProceed(request, interval).force
        /\ asked' = request /\ handledIn' = interval /\ acted' = 0
    BY DEF ThrustCycle
  <1>2. interval \in Nat /\ request \in Nat /\ request' \in Int
    BY <1>1, NavigationNumbers DEF NavigationInv, NoRequest
  <1>3. CASE request > interval
    <2>1. force' = TRUE /\ m_nTimeLeftUs' = request - interval /\ expired' = FALSE
      BY <1>1, <1>3 DEF EngineProceed
    <2> QED
      BY <1>1, <1>2, <1>3, <2>1 DEF NavigationInv
  <1>4. CASE ~(request > interval)
    <2>1. force' = FALSE /\ m_nTimeLeftUs' = 0 /\ expired' = TRUE
      BY <1>1, <1>4 DEF EngineProceed
    <2> QED
      BY <1>1, <1>2, <1>4, <2>1 DEF NavigationInv
  <1> QED
    BY <1>3, <1>4

(* The invariant is inductive: requests of the pilot do not touch the engine *)
LEMMA NavigationStep ==
    ASSUME NavigationInv, [NavigationNext]_navigationVars PROVE NavigationInv'
  <1>1. CASE UNCHANGED engineVars /\ request' \in Int
    BY <1>1 DEF NavigationInv, engineVars
  <1>2. CASE UNCHANGED navigationVars
    BY <1>1, <1>2 DEF navigationVars, NavigationInv
  <1>3. ASSUME NEW duration \in {Sync, ZeroThrust}, SetThrust(duration) PROVE NavigationInv'
    <2>1. request' \in Int
      BY <1>3, NavigationNumbers DEF SetThrust, ZeroThrust
    <2> QED
      BY <1>1, <1>3, <2>1 DEF SetThrust
  <1>4. CASE MakeMoveTo \/ SkipBatch \/ SyncLater \/ NextProcedure
             \/ \E outcome \in {"eFinished", "eFailed"} : Complete(outcome)
    <2>1. UNCHANGED engineVars /\ request' = request
      BY <1>4 DEF MakeMoveTo, SkipBatch, SyncLater, NextProcedure, Complete
    <2> QED
      BY <1>1, <2>1 DEF NavigationInv
  <1>5. ASSUME NEW interval \in {0, TickUs}, Cycle(interval) PROVE NavigationInv'
    <2>1. CASE StopCycle
      BY <2>1 DEF StopCycle, NavigationInv, NoRequest
    <2> QED
      BY <1>5, <2>1, QuietCycleInv, ThrustCycleInv DEF Cycle
  <1> QED
    BY <1>2, <1>3, <1>4, <1>5 DEF NavigationNext

(* It holds at the start *)
LEMMA NavigationStart == NavigationInit => NavigationInv
  BY DEF NavigationInit, NavigationInv, NoRequest

(* A thrust moves the ship for as long as was asked for, less the cycle that handled it
   and up to a tick more, for every tick, batch and interval between requests: whatever
   requests come late, are lost with a procedure or overtake each other (Engine.cpp:15). *)
THEOREM ThrustsActAsAsked == NavigationSpec => []ThrustActsAsAsked
  <1>1. NavigationInv => ThrustActsAsAsked
    <2> SUFFICES ASSUME NavigationInv PROVE ThrustActsAsAsked
      OBVIOUS
    <2>1. asked - handledIn \in Int
      BY DEF NavigationInv
    <2> DEFINE due == Max({0, asked - handledIn})
    <2>2. due = IF asked - handledIn > 0 THEN asked - handledIn ELSE 0
      BY <2>1, MaxZero
    <2> HIDE DEF due
    <2>3. expired => acted \in due .. due + (IF due = 0 THEN 0 ELSE TickUs - 1)
      BY <2>2, NavigationNumbers DEF NavigationInv
    <2>4. force => acted < due
      BY <2>2 DEF NavigationInv
    <2> QED
      BY <2>3, <2>4 DEF ThrustActsAsAsked, due
  <1> QED
    BY <1>1, NavigationStart, NavigationStep, PTL DEF NavigationSpec

-----------------------------------------------------------------------------
(* Containers and transfers *)

(* A set of natural numbers has a least element *)
LEMMA LeastNumber ==
    ASSUME NEW T, T \subseteq Nat, T # {}
    PROVE  Min(T) \in T /\ \A y \in T : Min(T) <= y
  <1> DEFINE R == OpToRel(<, Nat)
  <1>1. \A x, y \in Nat : y < x => <<y, x>> \in R
    BY DEF OpToRel
  <1>2. IsWellFoundedOn(R, Nat)
    BY NatLessThanWellFounded
  <1> HIDE DEF R
  <1>3. PICK x \in T : \A y \in T : <<y, x>> \notin R
    BY <1>2, WFMin
  <1>4. \A y \in T : ~(y < x)
    BY <1>1, <1>3
  <1>5. \A y \in T : x <= y
    BY <1>3, <1>4
  <1> QED
    BY <1>3, <1>5 DEF Min

Someone == Containers \cup {"nobody"}
TransferRecord == [port : PortIds \cup {NoPort}, key : Nat, left : Int, reserved : Int, to : Someone]
WorkerRecord == [at : {"away", "waits"} \cup Works, n : Int, read : Int]

CargoTypeOK ==
    /\ amount \in [Containers -> Int] /\ used \in [Containers -> Int]
    /\ ports \in [PortIds -> [key : Nat, owner : Someone]]
    /\ opened \in [Containers -> PortIds \cup {NoPort}]
    /\ nextKey \in Nat \ {0}
    /\ transfer \in [Containers -> TransferRecord]
    /\ worker \in [Containers -> WorkerRecord]
    /\ dt \in Nat

(* A port that is open is known to its owner, and its key has never been used before *)
PortsInv ==
    /\ \A p \in PortIds : ports[p].key > 0 =>
          ports[p].owner \in Containers /\ opened[ports[p].owner] = p /\ ports[p].key < nextKey
    /\ \A c \in Containers : opened[c] # NoPort =>
          ports[opened[c]].owner = c /\ ports[opened[c]].key > 0
    /\ \A p, q \in PortIds : ports[p].key = ports[q].key /\ ports[p].key > 0 => p = q

(* A transfer reserves no more than it has to deliver, and the key it has kept names
   the container it is for, or nobody any more *)
TransferIsSound(t, allPorts, bound) ==
    /\ t.reserved <= t.left
    /\ t.key < bound
    /\ t # NoTransfer => t.port \in PortIds
    /\ t.port \in PortIds /\ t.key > 0 /\ allPorts[t.port].key = t.key => allPorts[t.port].owner = t.to

TransfersInv == \A c \in Containers : TransferIsSound(transfer[c], ports, nextKey)

(* Threads are in proceed() in their stage only, and past its check of the port their
   port is the one the transfer was accepted for *)
Counted == {"counted", "space read", "space taken", "amount read"}

WorkerIsSound(w, t, allPorts) ==
    /\ w.at # "away" => t.port \in PortIds
    /\ w.at \in Works => t.key > 0 /\ allPorts[t.port].key = t.key
    /\ w.at \in Counted => t.reserved + w.n <= t.left

WorkersInv ==
    /\ phase # "transfer" => \A c \in Containers : worker[c].at = "away"
    /\ \A c \in Containers : WorkerIsSound(worker[c], transfer[c], ports)

CargoInv == CargoTypeOK /\ PortsInv /\ TransfersInv /\ WorkersInv

(* With as many ids as containers there is one for a container that has no port *)
LEMMA FreePort ==
    ASSUME CargoInv, NEW c \in Containers, opened[c] = NoPort
    PROVE  /\ Min({p \in PortIds : ports[p].key = 0}) \in PortIds
           /\ ports[Min({p \in PortIds : ports[p].key = 0})].key = 0
  <1> DEFINE n == Cardinality(Containers)
             free == {p \in PortIds : ports[p].key = 0}
  <1>1. IsFiniteSet(Containers) /\ n \in Nat
    BY CargoAssumption, FS_CardinalityType
  <1>2. PortIds = 1 .. n /\ Cardinality(PortIds) = n /\ NoPort \notin PortIds
    BY <1>1, FS_Interval DEF PortIds, NoPort
  <1>3. ASSUME free = {} PROVE FALSE
    <2> DEFINE f == [p \in PortIds |-> ports[p].owner]
    <2>1. \A p \in PortIds : ports[p].key \in Nat /\ ports[p].key # 0
      BY <1>3 DEF CargoInv, CargoTypeOK
    <2>2. \A p \in PortIds : ports[p].key > 0
      BY <2>1
    <2>3. \A p \in PortIds : f[p] \in Containers /\ opened[f[p]] = p
      BY <2>2 DEF CargoInv, PortsInv
    <2>4. f \in [PortIds -> Containers]
      BY <2>3
    <2>5. f \in Injection(PortIds, Containers)
      <3>1. \A p, q \in PortIds : f[p] = f[q] => p = q
        BY <2>3
      <3> HIDE DEF f
      <3> QED
        BY <2>4, <3>1 DEF Injection, IsInjective
    <2>6. f \in Surjection(PortIds, Containers)
      BY <1>1, <1>2, <2>5, FS_Injection
    <2>7. \E p \in PortIds : f[p] = c
      BY <2>6 DEF Surjection
    <2> QED
      BY <1>2, <2>3, <2>7
  <1>4. free \subseteq Nat
    BY <1>1, <1>2
  <1>5. Min(free) \in free
    BY <1>3, <1>4, LeastNumber
  <1> QED
    BY <1>5

(* The mark of a container without a port is not the id of one *)
LEMMA NoPortIsNoId == NoPort \notin PortIds /\ PortIds \subseteq Nat
  BY CargoAssumption, FS_CardinalityType DEF PortIds, NoPort

(* A stage that only changes what containers hold *)
LEMMA HoldingsStep ==
    ASSUME CargoInv, amount' \in [Containers -> Int], used' \in [Containers -> Int],
           phase # "transfer", phase' # "transfer",
           UNCHANGED <<portsVars, transfer, worker, dt>>
    PROVE  CargoInv'
  <1>1. UNCHANGED <<ports, opened, nextKey>>
    BY DEF portsVars
  <1>2. CargoTypeOK'
    BY <1>1 DEF CargoInv, CargoTypeOK
  <1>3. PortsInv' /\ TransfersInv'
    BY <1>1 DEF CargoInv, PortsInv, TransfersInv
  <1>4. WorkersInv'
    BY <1>1 DEF CargoInv, WorkersInv
  <1> QED
    BY <1>2, <1>3, <1>4 DEF CargoInv

(* The transfer and the thread of a container that does nothing *)
LEMMA Standing ==
    /\ NoTransfer \in TransferRecord /\ Away \in WorkerRecord /\ Away.at = "away"
    /\ NoTransfer.reserved = 0 /\ NoTransfer.left = 0 /\ NoTransfer.key = 0
    /\ {"away", "waits"} \cap Works = {} /\ {"away", "waits"} \cap Counted = {}
    /\ Takes \subseteq Works /\ Adds \subseteq Works /\ Takes \cap Adds = {} /\ Counted \subseteq Takes
  BY DEF NoTransfer, Away, TransferRecord, WorkerRecord, Someone, Works, Takes, Adds, Counted

(* open_port() gives a container an id that no other port has, and a key that is new *)
LEMMA OpenPortInv ==
    ASSUME CargoInv, NEW c \in Containers, OpenPort(c) PROVE CargoInv'
  <1> DEFINE id == Min({p \in PortIds : ports[p].key = 0})
             new == [key |-> nextKey, owner |-> c]
  <1>1. /\ phase = "cargo" /\ opened[c] = NoPort
        /\ opened' = [opened EXCEPT ![c] = id]
        /\ ports' = [ports EXCEPT ![id] = new]
        /\ nextKey' = nextKey + 1
        /\ UNCHANGED <<amount, used, transfer, worker, dt, phase>>
    BY DEF OpenPort
  <1>2. id \in PortIds /\ ports[id].key = 0
    BY <1>1, FreePort
  <1> HIDE DEF id
  <1>3. nextKey \in Nat /\ nextKey > 0 /\ nextKey' \in Nat \ {0} /\ \A k \in Nat : k < nextKey => k < nextKey'
    BY <1>1 DEF CargoInv, CargoTypeOK
  <1>4. new \in [key : Nat, owner : Someone] /\ new.key = nextKey /\ new.owner = c
    BY <1>3 DEF Someone
  <1> HIDE DEF new
  <1>5. CargoTypeOK'
    BY <1>1, <1>2, <1>3, <1>4 DEF CargoInv, CargoTypeOK
  <1>6. /\ ports'[id] = new /\ \A p \in PortIds : p # id => ports'[p] = ports[p]
        /\ opened'[c] = id /\ \A d \in Containers : d # c => opened'[d] = opened[d]
    BY <1>1, <1>2 DEF CargoInv, CargoTypeOK
  <1>7. \A p \in PortIds : ports[p].key \in Nat /\ (ports[p].key > 0 => ports[p].key < nextKey)
    BY DEF CargoInv, CargoTypeOK, PortsInv
  <1>8. \A p \in PortIds : p # id /\ ports[p].key > 0 => ports[p].owner # c
    BY <1>1, NoPortIsNoId DEF CargoInv, PortsInv
  <1>9. \A d \in Containers : d # c /\ opened[d] # NoPort => opened[d] # id /\ opened[d] \in PortIds
    BY <1>2 DEF CargoInv, CargoTypeOK, PortsInv
  <1>10. PortsInv'
    <2>1. ASSUME NEW p \in PortIds, ports'[p].key > 0
          PROVE  ports'[p].owner \in Containers /\ opened'[ports'[p].owner] = p /\ ports'[p].key < nextKey'
      <3>1. CASE p = id
        BY <1>1, <1>3, <1>4, <1>6, <3>1
      <3>2. CASE p # id
        <4>1. ports'[p] = ports[p] /\ ports[p].owner \in Containers /\ opened[ports[p].owner] = p /\ ports[p].key < nextKey
          BY <1>6, <2>1, <3>2 DEF CargoInv, PortsInv
        <4>2. ports[p].owner # c
          BY <1>8, <2>1, <3>2, <4>1
        <4> QED
          BY <1>3, <1>6, <1>7, <4>1, <4>2
      <3> QED
        BY <3>1, <3>2
    <2>2. ASSUME NEW d \in Containers, opened'[d] # NoPort
          PROVE  ports'[opened'[d]].owner = d /\ ports'[opened'[d]].key > 0
      <3>1. CASE d = c
        BY <1>3, <1>4, <1>6, <3>1
      <3>2. CASE d # c
        BY <1>6, <1>9, <2>2, <3>2 DEF CargoInv, PortsInv
      <3> QED
        BY <3>1, <3>2
    <2>3. ASSUME NEW p \in PortIds, NEW q \in PortIds, ports'[p].key = ports'[q].key, ports'[p].key > 0 PROVE p = q
      <3>1. CASE p = id /\ q # id
        BY <1>3, <1>4, <1>6, <1>7, <2>3, <3>1
      <3>2. CASE p # id /\ q = id
        BY <1>3, <1>4, <1>6, <1>7, <2>3, <3>2
      <3>3. CASE p # id /\ q # id
        BY <1>6, <2>3, <3>3 DEF CargoInv, PortsInv
      <3> QED
        BY <3>1, <3>2, <3>3
    <2> QED
      BY <2>1, <2>2, <2>3 DEF PortsInv
  <1>11. TransfersInv'
    <2> SUFFICES ASSUME NEW d \in Containers PROVE TransferIsSound(transfer[d], ports', nextKey')
      BY <1>1 DEF TransfersInv
    <2>1. TransferIsSound(transfer[d], ports, nextKey) /\ transfer[d].key \in Nat
      BY DEF CargoInv, TransfersInv, CargoTypeOK, TransferRecord
    <2>2. transfer[d].key < nextKey' /\ transfer[d].key # nextKey
      BY <1>3, <2>1 DEF TransferIsSound
    <2>3. CASE transfer[d].port = id
      BY <1>4, <1>6, <2>1, <2>2, <2>3 DEF TransferIsSound
    <2>4. CASE transfer[d].port # id
      BY <1>6, <2>1, <2>2, <2>4 DEF TransferIsSound
    <2> QED
      BY <2>3, <2>4
  <1>12. WorkersInv'
    <2>1. \A d \in Containers : worker[d].at = "away" /\ transfer[d] = transfer'[d]
      BY <1>1 DEF CargoInv, WorkersInv
    <2> QED
      BY <1>1, <2>1, Standing DEF WorkersInv, WorkerIsSound
  <1> QED
    BY <1>5, <1>10, <1>11, <1>12 DEF CargoInv

(* close_port() gives the id back; transfers to it keep a key that fits no port *)
LEMMA ClosePortInv ==
    ASSUME CargoInv, NEW c \in Containers, ClosePort(c) PROVE CargoInv'
  <1> DEFINE id == opened[c]
  <1>1. /\ phase = "cargo" /\ id # NoPort
        /\ opened' = [opened EXCEPT ![c] = NoPort]
        /\ ports' = [ports EXCEPT ![id] = Closed]
        /\ UNCHANGED <<amount, used, nextKey, transfer, worker, dt, phase>>
    BY DEF ClosePort
  <1>2. id \in PortIds /\ ports[id].owner = c
    BY <1>1 DEF CargoInv, CargoTypeOK, PortsInv
  <1>3. Closed \in [key : Nat, owner : Someone] /\ Closed.key = 0
    BY DEF Closed, Someone
  <1>4. CargoTypeOK'
    BY <1>1, <1>2, <1>3 DEF CargoInv, CargoTypeOK
  <1>5. /\ ports'[id] = Closed /\ \A p \in PortIds : p # id => ports'[p] = ports[p]
        /\ opened'[c] = NoPort /\ \A d \in Containers : d # c => opened'[d] = opened[d]
    BY <1>1, <1>2 DEF CargoInv, CargoTypeOK
  <1>6. \A d \in Containers : d # c /\ opened[d] # NoPort => opened[d] # id
    BY <1>2 DEF CargoInv, PortsInv
  <1>7. \A p \in PortIds : ports'[p].key > 0 => p # id
    BY <1>3, <1>5
  <1>8. PortsInv'
    <2>1. ASSUME NEW p \in PortIds, ports'[p].key > 0
          PROVE  ports'[p].owner \in Containers /\ opened'[ports'[p].owner] = p /\ ports'[p].key < nextKey'
      <3>1. p # id /\ ports'[p] = ports[p] /\ ports[p].owner \in Containers /\ opened[ports[p].owner] = p
            /\ ports[p].key < nextKey
        BY <1>5, <1>7, <2>1 DEF CargoInv, PortsInv
      <3> QED
        BY <1>1, <1>5, <3>1
    <2>2. ASSUME NEW d \in Containers, opened'[d] # NoPort
          PROVE  ports'[opened'[d]].owner = d /\ ports'[opened'[d]].key > 0
      <3>1. d # c /\ opened'[d] = opened[d] /\ opened[d] # id /\ opened[d] \in PortIds
        BY <1>5, <1>6, <2>2 DEF CargoInv, CargoTypeOK
      <3> QED
        BY <1>5, <2>2, <3>1 DEF CargoInv, PortsInv
    <2>3. \A p, q \in PortIds : ports'[p].key = ports'[q].key /\ ports'[p].key > 0 => p = q
      BY <1>5, <1>7 DEF CargoInv, PortsInv
    <2> QED
      BY <2>1, <2>2, <2>3 DEF PortsInv
  <1>9. TransfersInv'
    <2> SUFFICES ASSUME NEW d \in Containers PROVE TransferIsSound(transfer[d], ports', nextKey)
      BY <1>1 DEF TransfersInv
    <2>1. transfer[d].port \in PortIds /\ transfer[d].key > 0 /\ ports'[transfer[d].port].key = transfer[d].key
            => ports'[transfer[d].port] = ports[transfer[d].port]
      BY <1>5, <1>7
    <2> QED
      BY <2>1 DEF CargoInv, TransfersInv, TransferIsSound
  <1>10. WorkersInv'
    <2>1. \A d \in Containers : worker[d].at = "away" /\ transfer[d] = transfer'[d]
      BY <1>1 DEF CargoInv, WorkersInv
    <2> QED
      BY <1>1, <2>1, Standing DEF WorkersInv, WorkerIsSound
  <1> QED
    BY <1>4, <1>8, <1>9, <1>10 DEF CargoInv

(* A step of one container's transfer and thread, the ports being as they were *)
LEMMA OneContainerStep ==
    ASSUME CargoInv, NEW c \in Containers, NEW t, NEW w,
           t \in TransferRecord, w \in WorkerRecord,
           TransferIsSound(t, ports, nextKey), WorkerIsSound(w, t, ports),
           transfer' = [transfer EXCEPT ![c] = t], worker' = [worker EXCEPT ![c] = w],
           phase = "transfer" \/ w.at = "away",
           amount' \in [Containers -> Int], used' \in [Containers -> Int], UNCHANGED <<portsVars, dt, phase>>
    PROVE  CargoInv'
  <1>1. UNCHANGED <<ports, opened, nextKey>>
    BY DEF portsVars
  <1>2. CargoTypeOK'
    BY <1>1 DEF CargoInv, CargoTypeOK
  <1>3. PortsInv'
    BY <1>1 DEF CargoInv, PortsInv
  <1>4. /\ transfer'[c] = t /\ \A d \in Containers : d # c => transfer'[d] = transfer[d]
        /\ worker'[c] = w /\ \A d \in Containers : d # c => worker'[d] = worker[d]
    BY DEF CargoInv, CargoTypeOK
  <1>5. \A d \in Containers : TransferIsSound(transfer[d], ports, nextKey) /\ WorkerIsSound(worker[d], transfer[d], ports)
    BY DEF CargoInv, TransfersInv, WorkersInv
  <1>6. \A d \in Containers : TransferIsSound(transfer'[d], ports', nextKey') /\ WorkerIsSound(worker'[d], transfer'[d], ports')
    BY <1>1, <1>4, <1>5
  <1>7. TransfersInv'
    BY <1>6 DEF TransfersInv
  <1>8. phase' # "transfer" => \A d \in Containers : worker'[d].at = "away"
    BY <1>4 DEF CargoInv, WorkersInv
  <1>9. WorkersInv'
    BY <1>6, <1>8 DEF WorkersInv
  <1> QED
    BY <1>2, <1>3, <1>7, <1>9 DEF CargoInv

(* What the invariant says, container by container *)
LEMMA SoundContainers ==
    ASSUME CargoInv, NEW c \in Containers
    PROVE  /\ transfer[c] \in TransferRecord /\ worker[c] \in WorkerRecord
           /\ TransferIsSound(transfer[c], ports, nextKey) /\ WorkerIsSound(worker[c], transfer[c], ports)
           /\ transfer = [transfer EXCEPT ![c] = transfer[c]] /\ worker = [worker EXCEPT ![c] = worker[c]]
           /\ amount \in [Containers -> Int] /\ used \in [Containers -> Int]
           /\ amount[c] \in Int /\ used[c] \in Int /\ dt \in Nat
           /\ transfer[c].left \in Int /\ transfer[c].reserved \in Int /\ worker[c].n \in Int /\ worker[c].read \in Int
           /\ worker[c].at # "away" => phase = "transfer"
  <1>1. transfer[c] \in TransferRecord /\ worker[c] \in WorkerRecord /\ amount[c] \in Int /\ used[c] \in Int
        /\ amount \in [Containers -> Int] /\ used \in [Containers -> Int] /\ dt \in Nat
    BY DEF CargoInv, CargoTypeOK
  <1>2. TransferIsSound(transfer[c], ports, nextKey) /\ WorkerIsSound(worker[c], transfer[c], ports)
        /\ (worker[c].at # "away" => phase = "transfer")
    BY DEF CargoInv, TransfersInv, WorkersInv
  <1>3. transfer = [transfer EXCEPT ![c] = transfer[c]] /\ worker = [worker EXCEPT ![c] = worker[c]]
    BY DEF CargoInv, CargoTypeOK
  <1>4. transfer[c].left \in Int /\ transfer[c].reserved \in Int /\ worker[c].n \in Int /\ worker[c].read \in Int
    BY <1>1 DEF TransferRecord, WorkerRecord
  <1> QED
    BY <1>1, <1>2, <1>3, <1>4

(* A container that does nothing is sound *)
LEMMA NothingIsSound ==
    ASSUME CargoInv
    PROVE  TransferIsSound(NoTransfer, ports, nextKey) /\ \A t : WorkerIsSound(Away, t, ports)
  <1>1. nextKey > 0
    BY DEF CargoInv, CargoTypeOK
  <1> QED
    BY <1>1, Standing DEF TransferIsSound, WorkerIsSound

(* A transfer starts with nothing reserved, for a port that is open *)
LEMMA TransferInv ==
    ASSUME CargoInv, NEW c \in Containers, NEW id \in PortIds, NEW n \in Orders, Transfer(c, id, n) PROVE CargoInv'
  <1> DEFINE t == [port |-> id, key |-> ports[id].key, left |-> n, reserved |-> 0, to |-> ports[id].owner]
  <1>1. /\ phase = "cargo" /\ ports[id].key > 0 /\ transfer' = [transfer EXCEPT ![c] = t]
        /\ UNCHANGED <<amount, used, portsVars, worker, dt, phase>>
    BY DEF Transfer
  <1>2. n \in Nat
    BY CargoAssumption
  <1>3. ports[id].key \in Nat /\ ports[id].owner \in Someone /\ ports[id].key < nextKey
    BY <1>1 DEF CargoInv, CargoTypeOK, PortsInv
  <1>4. t \in TransferRecord
    BY <1>2, <1>3 DEF TransferRecord
  <1>5. t.reserved <= t.left /\ t.port = id /\ t.key = ports[id].key /\ t.to = ports[id].owner
    BY <1>2
  <1> HIDE DEF t
  <1>6. TransferIsSound(t, ports, nextKey)
    BY <1>3, <1>5 DEF TransferIsSound
  <1>7. worker[c].at = "away"
    BY <1>1 DEF CargoInv, WorkersInv
  <1>8. WorkerIsSound(worker[c], t, ports)
    BY <1>7, Standing DEF WorkerIsSound
  <1>9. worker[c] \in WorkerRecord /\ worker' = [worker EXCEPT ![c] = worker[c]]
    BY <1>1, SoundContainers
  <1>10. amount' \in [Containers -> Int] /\ used' \in [Containers -> Int]
    BY <1>1, SoundContainers
  <1> QED
    BY <1>1, <1>4, <1>6, <1>7, <1>8, <1>9, <1>10, OneContainerStep

(* What putResource() accepts is not more than it is given, and fits *)
LEMMA FitsNumbers ==
    ASSUME NEW n \in Int, NEW u \in Int
    PROVE  /\ Fits(n, u) \in Int /\ Fits(n, u) <= n
           /\ n >= 0 /\ u >= 0 => u + Fits(n, u) >= 0
  BY CargoAssumption DEF Fits, Least

(* The same for a natural number, as it is used by the miner *)
LEMMA FitsMined ==
    ASSUME NEW n \in Nat, NEW u \in Int
    PROVE  /\ Fits(n, u) \in Int
           /\ u >= 0 => u + Fits(n, u) >= 0
  BY CargoAssumption DEF Fits, Least

(* A transfer ends early: its port is closed, given to another container or too far away *)
LEMMA ProceedAbortsInv ==
    ASSUME CargoInv, NEW c \in Containers, ProceedAborts(c) PROVE CargoInv'
  <1> DEFINE reserved == transfer[c].reserved
             back == IF reserved > 0 THEN Fits(reserved, used[c]) ELSE 0
  <1>1. /\ amount' = [amount EXCEPT ![c] = @ + back] /\ used' = [used EXCEPT ![c] = @ + back]
        /\ transfer' = [transfer EXCEPT ![c] = NoTransfer] /\ worker' = [worker EXCEPT ![c] = Away]
        /\ UNCHANGED <<portsVars, dt, phase>>
    BY DEF ProceedAborts, Terminate
  <1>2. back \in Int
    BY SoundContainers, FitsNumbers
  <1> HIDE DEF back
  <1>3. amount[c] + back \in Int /\ used[c] + back \in Int
    BY <1>2, SoundContainers
  <1>4. amount' \in [Containers -> Int] /\ used' \in [Containers -> Int]
    BY <1>1, <1>3, SoundContainers
  <1> QED
    BY <1>1, <1>4, Standing, NothingIsSound, OneContainerStep

(* How much a transfer will have reserved when it has consumed: not more than it has to
   deliver, and not less than nothing if there is enough, also when it gives back *)
LEMMA CountedNumbers ==
    ASSUME NEW a \in Int, NEW left \in Int, NEW reserved \in Int, NEW d \in Nat
    PROVE  LET n == Least(a, Least(d, left) - reserved)
           IN  /\ n \in Int /\ reserved + n <= left /\ n <= a
               /\ a >= 0 /\ reserved >= 0 /\ left >= 0 => reserved + n >= 0
  BY DEF Least

(* The thread counts what consumeResource() will take *)
LEMMA ProceedCountsInv ==
    ASSUME CargoInv, NEW c \in Containers, ProceedCounts(c) PROVE CargoInv'
  <1> DEFINE n == Least(amount[c], Portion(c))
             w == [at |-> "counted", n |-> n, read |-> 0]
  <1>1. /\ worker[c].at = "waits" /\ PortIsMine(c) /\ worker' = [worker EXCEPT ![c] = w]
        /\ UNCHANGED <<amount, used, portsVars, transfer, dt, phase>>
    BY DEF ProceedCounts, MayStart
  <1>2. n \in Int /\ transfer[c].reserved + n <= transfer[c].left
    BY SoundContainers, CountedNumbers DEF Portion
  <1> HIDE DEF n
  <1>3. w \in WorkerRecord /\ w.at = "counted" /\ w.n = n
    BY <1>2 DEF WorkerRecord, Works, Takes
  <1> HIDE DEF w
  <1>4. WorkerIsSound(w, transfer[c], ports)
    BY <1>1, <1>2, <1>3, SoundContainers DEF WorkerIsSound, PortIsMine
  <1>5. transfer' = [transfer EXCEPT ![c] = transfer[c]] /\ phase = "transfer"
    BY <1>1, SoundContainers
  <1>6. amount' \in [Containers -> Int] /\ used' \in [Containers -> Int]
    BY <1>1, SoundContainers
  <1> QED
    BY <1>1, <1>3, <1>4, <1>5, <1>6, SoundContainers, OneContainerStep

(* A thread past the check of its port delivers to the container of the transfer *)
LEMMA ReceiverIsMeant ==
    ASSUME CargoInv, NEW c \in Containers, worker[c].at \in Works
    PROVE  /\ Receiver(c) = transfer[c].to /\ Receiver(c) \in Containers
           /\ transfer[c].port \in PortIds /\ transfer[c].key > 0 /\ ports[transfer[c].port].key = transfer[c].key
  <1>0. worker[c].at # "away"
    BY Standing
  <1>1. transfer[c].port \in PortIds /\ transfer[c].key > 0 /\ ports[transfer[c].port].key = transfer[c].key
    BY <1>0 DEF CargoInv, WorkersInv, WorkerIsSound
  <1>2. Receiver(c) = transfer[c].to
    BY <1>1 DEF CargoInv, TransfersInv, TransferIsSound, Receiver
  <1>3. Receiver(c) \in Containers
    BY <1>1 DEF CargoInv, PortsInv, Receiver
  <1> QED
    BY <1>1, <1>2, <1>3

(* A step of a thread that is past the check of its port: only what it has at hand, what
   its transfer still has to do and what containers hold can change *)
LEMMA WorkingStep ==
    ASSUME CargoInv, NEW c \in Containers, worker[c].at \in Works,
           NEW w, NEW t, w \in WorkerRecord, t \in TransferRecord,
           t.port = transfer[c].port, t.key = transfer[c].key, t.to = transfer[c].to,
           t.reserved <= t.left, w.at \in Counted => t.reserved + w.n <= t.left,
           transfer' = [transfer EXCEPT ![c] = t], worker' = [worker EXCEPT ![c] = w],
           amount' \in [Containers -> Int], used' \in [Containers -> Int], UNCHANGED <<portsVars, dt, phase>>
    PROVE  CargoInv'
  <1>1. transfer[c].port \in PortIds /\ transfer[c].key > 0 /\ ports[transfer[c].port].key = transfer[c].key
    BY ReceiverIsMeant
  <1>2. TransferIsSound(t, ports, nextKey)
    BY <1>1, SoundContainers DEF TransferIsSound
  <1>3. WorkerIsSound(w, t, ports)
    BY <1>1 DEF WorkerIsSound
  <1>4. phase = "transfer"
    BY SoundContainers, Standing
  <1> QED
    BY <1>2, <1>3, <1>4, OneContainerStep

(* Its reads *)
LEMMA LoadInv ==
    ASSUME CargoInv, NEW c \in Containers, NEW before, NEW after, NEW value, Load(c, before, after, value),
           value \in Int, before \in Works, after \in Works, after \in Counted => before \in Counted
    PROVE  CargoInv'
  <1> DEFINE w == [worker[c] EXCEPT !.at = after, !.read = value]
  <1>1. worker[c].at = before /\ UNCHANGED <<amount, used, portsVars, transfer, dt, phase>>
    BY DEF Load
  <1>2. worker' = [worker EXCEPT ![c] = w]
    BY DEF Load
  <1>3. w \in WorkerRecord /\ w.at = after /\ w.n = worker[c].n
    BY SoundContainers DEF WorkerRecord
  <1> HIDE DEF w
  <1>4. transfer[c].reserved <= transfer[c].left
        /\ (worker[c].at \in Counted => transfer[c].reserved + worker[c].n <= transfer[c].left)
    BY SoundContainers DEF TransferIsSound, WorkerIsSound
  <1>5. /\ amount' \in [Containers -> Int] /\ used' \in [Containers -> Int]
        /\ transfer' = [transfer EXCEPT ![c] = transfer[c]] /\ transfer[c] \in TransferRecord
    BY <1>1, SoundContainers
  <1> QED
    BY <1>1, <1>2, <1>3, <1>4, <1>5, WorkingStep

(* What a thread reads is a number *)
LEMMA ProceedLoadsInv ==
    ASSUME CargoInv, NEW c \in Containers, ProceedLoads(c) PROVE CargoInv'
  <1>1. amount[c] \in Int /\ used[c] \in Int
    BY SoundContainers
  <1>2. worker[c].at \in Works => amount[Receiver(c)] \in Int /\ used[Receiver(c)] \in Int
    BY ReceiverIsMeant DEF CargoInv, CargoTypeOK
  <1>3. CASE Load(c, "counted", "space read", used[c])
    BY <1>1, <1>3, LoadInv DEF Works, Takes, Counted
  <1>4. CASE Load(c, "space taken", "amount read", amount[c])
    BY <1>1, <1>4, LoadInv DEF Works, Takes, Counted
  <1>5. CASE Load(c, "locked", "amount found", amount[Receiver(c)])
    <2>1. worker[c].at \in Works
      BY <1>5 DEF Load, Works, Adds
    <2> QED
      BY <1>2, <1>5, <2>1, LoadInv DEF Works, Adds, Counted
  <1>6. CASE Load(c, "amount added", "space found", used[Receiver(c)])
    <2>1. worker[c].at \in Works
      BY <1>6 DEF Load, Works, Adds
    <2> QED
      BY <1>2, <1>6, <2>1, LoadInv DEF Works, Adds, Counted
  <1> QED
    BY <1>3, <1>4, <1>5, <1>6 DEF ProceedLoads

(* It takes from the used space ... *)
LEMMA ProceedTakesSpaceInv ==
    ASSUME CargoInv, NEW c \in Containers, ProceedTakesSpace(c) PROVE CargoInv'
  <1> DEFINE w == [worker[c] EXCEPT !.at = "space taken"]
             rest == worker[c].read - worker[c].n
  <1>1. /\ worker[c].at = "space read" /\ used' = [used EXCEPT ![c] = rest]
        /\ UNCHANGED <<amount, portsVars, transfer, dt, phase>>
    BY DEF ProceedTakesSpace
  <1>2. worker' = [worker EXCEPT ![c] = w]
    BY DEF ProceedTakesSpace
  <1>3. w \in WorkerRecord /\ w.at = "space taken" /\ w.n = worker[c].n
    BY SoundContainers DEF WorkerRecord, Works, Takes
  <1>4. rest \in Int
    BY SoundContainers
  <1> HIDE DEF w, rest
  <1>5. worker[c].at \in Works /\ worker[c].at \in Counted
    BY <1>1 DEF Works, Takes, Counted
  <1>6. /\ amount' \in [Containers -> Int] /\ used' \in [Containers -> Int]
        /\ transfer' = [transfer EXCEPT ![c] = transfer[c]] /\ transfer[c] \in TransferRecord
        /\ transfer[c].reserved <= transfer[c].left /\ transfer[c].reserved + worker[c].n <= transfer[c].left
    BY <1>1, <1>4, <1>5, SoundContainers DEF TransferIsSound, WorkerIsSound
  <1> QED
    BY <1>1, <1>2, <1>3, <1>5, <1>6, WorkingStep

(* ... and from the amount, and reserves it *)
LEMMA ProceedTakesAmountInv ==
    ASSUME CargoInv, NEW c \in Containers, ProceedTakesAmount(c) PROVE CargoInv'
  <1> DEFINE w == [worker[c] EXCEPT !.at = "amount taken"]
             t == [transfer[c] EXCEPT !.reserved = @ + worker[c].n]
             rest == worker[c].read - worker[c].n
  <1>1. /\ worker[c].at = "amount read" /\ amount' = [amount EXCEPT ![c] = rest]
        /\ UNCHANGED <<used, portsVars, dt, phase>>
    BY DEF ProceedTakesAmount
  <1>2. worker' = [worker EXCEPT ![c] = w]
    BY DEF ProceedTakesAmount
  <1>3. transfer' = [transfer EXCEPT ![c] = t]
    BY DEF ProceedTakesAmount, CargoInv, CargoTypeOK
  <1>4. w \in WorkerRecord /\ w.at = "amount taken"
    BY SoundContainers DEF WorkerRecord, Works, Takes
  <1>5. rest \in Int /\ transfer[c].reserved + worker[c].n \in Int
    BY SoundContainers
  <1>6. t \in TransferRecord /\ t.reserved = transfer[c].reserved + worker[c].n /\ t.left = transfer[c].left
        /\ t.port = transfer[c].port /\ t.key = transfer[c].key /\ t.to = transfer[c].to
    BY <1>5, SoundContainers DEF TransferRecord
  <1> HIDE DEF w, t, rest
  <1>7. worker[c].at \in Works /\ worker[c].at \in Counted /\ w.at \notin Counted
    BY <1>1, <1>4 DEF Works, Takes, Counted
  <1>8. /\ amount' \in [Containers -> Int] /\ used' \in [Containers -> Int]
        /\ transfer[c].reserved + worker[c].n <= transfer[c].left
    BY <1>1, <1>5, <1>7, SoundContainers DEF WorkerIsSound
  <1> QED
    BY <1>1, <1>2, <1>3, <1>4, <1>6, <1>7, <1>8, WorkingStep

(* Neither stays negative *)
LEMMA ProceedClampsInv ==
    ASSUME CargoInv, NEW c \in Containers, ProceedClamps(c) PROVE CargoInv'
  <1> DEFINE w == [worker[c] EXCEPT !.at = "puts"]
             a == Max({amount[c], 0})
             u == Max({used[c], 0})
  <1>1. /\ worker[c].at = "amount taken" /\ amount' = [amount EXCEPT ![c] = a] /\ used' = [used EXCEPT ![c] = u]
        /\ UNCHANGED <<portsVars, transfer, dt, phase>>
    BY DEF ProceedClamps
  <1>2. worker' = [worker EXCEPT ![c] = w]
    BY DEF ProceedClamps
  <1>3. w \in WorkerRecord /\ w.at = "puts"
    BY SoundContainers DEF WorkerRecord, Works
  <1>4. a \in Int /\ u \in Int
    <2>1. {amount[c], 0} = {0, amount[c]} /\ {used[c], 0} = {0, used[c]}
      OBVIOUS
    <2>2. amount[c] \in Int /\ used[c] \in Int
      BY SoundContainers
    <2> QED
      BY <2>1, <2>2, MaxZero
  <1> HIDE DEF w, a, u
  <1>5. worker[c].at \in Works /\ w.at \notin Counted
    BY <1>1, <1>3 DEF Works, Takes, Counted
  <1>6. /\ amount' \in [Containers -> Int] /\ used' \in [Containers -> Int]
        /\ transfer' = [transfer EXCEPT ![c] = transfer[c]] /\ transfer[c] \in TransferRecord
        /\ transfer[c].reserved <= transfer[c].left
    BY <1>1, <1>4, SoundContainers DEF TransferIsSound
  <1> QED
    BY <1>1, <1>2, <1>3, <1>5, <1>6, WorkingStep

(* It looks how much fits into the receiver, under its mutex *)
LEMMA ProceedLocksInv ==
    ASSUME CargoInv, NEW c \in Containers, ProceedLocks(c) PROVE CargoInv'
  <1> DEFINE n == Fits(transfer[c].reserved, used[Receiver(c)])
             w == [at |-> "locked", n |-> n, read |-> 0]
  <1>1. /\ worker[c].at = "puts" /\ worker' = [worker EXCEPT ![c] = w]
        /\ UNCHANGED <<amount, used, portsVars, transfer, dt, phase>>
    BY DEF ProceedLocks
  <1>2. worker[c].at \in Works
    BY <1>1 DEF Works
  <1>3. n \in Int
    <2>1. used[Receiver(c)] \in Int
      BY <1>2, ReceiverIsMeant DEF CargoInv, CargoTypeOK
    <2> QED
      BY <2>1, SoundContainers, FitsNumbers
  <1> HIDE DEF n
  <1>4. w \in WorkerRecord /\ w.at = "locked"
    BY <1>3 DEF WorkerRecord, Works, Adds
  <1> HIDE DEF w
  <1>5. w.at \notin Counted
    BY <1>4 DEF Counted
  <1>6. /\ amount' \in [Containers -> Int] /\ used' \in [Containers -> Int]
        /\ transfer' = [transfer EXCEPT ![c] = transfer[c]] /\ transfer[c] \in TransferRecord
        /\ transfer[c].reserved <= transfer[c].left
    BY <1>1, SoundContainers DEF TransferIsSound
  <1> QED
    BY <1>1, <1>2, <1>4, <1>5, <1>6, WorkingStep

(* It adds it to the amount, and has that much less to deliver ... *)
LEMMA ProceedAddsAmountInv ==
    ASSUME CargoInv, NEW c \in Containers, ProceedAddsAmount(c) PROVE CargoInv'
  <1> DEFINE w == [worker[c] EXCEPT !.at = "amount added"]
             n == worker[c].n
             t == [transfer[c] EXCEPT !.left = transfer[c].left - n, !.reserved = transfer[c].reserved - n]
             sum == worker[c].read + n
  <1>1. /\ worker[c].at = "amount found" /\ amount' = [amount EXCEPT ![Receiver(c)] = sum]
        /\ UNCHANGED <<used, portsVars, dt, phase>>
    BY DEF ProceedAddsAmount
  <1>2. worker' = [worker EXCEPT ![c] = w]
    BY DEF ProceedAddsAmount
  <1>3. transfer' = [transfer EXCEPT ![c] = t]
    BY DEF ProceedAddsAmount, CargoInv, CargoTypeOK
  <1>4. w \in WorkerRecord /\ w.at = "amount added"
    BY SoundContainers DEF WorkerRecord, Works, Adds
  <1>5. sum \in Int /\ transfer[c].left - n \in Int /\ transfer[c].reserved - n \in Int
        /\ transfer[c].reserved - n <= transfer[c].left - n
    BY SoundContainers DEF TransferIsSound
  <1>6. t \in TransferRecord /\ t.reserved = transfer[c].reserved - n /\ t.left = transfer[c].left - n
        /\ t.port = transfer[c].port /\ t.key = transfer[c].key /\ t.to = transfer[c].to
    BY <1>5, SoundContainers DEF TransferRecord
  <1> HIDE DEF w, t, n, sum
  <1>7. worker[c].at \in Works /\ w.at \notin Counted
    BY <1>1, <1>4 DEF Works, Adds, Counted
  <1>8. amount' \in [Containers -> Int] /\ used' \in [Containers -> Int]
    BY <1>1, <1>5, SoundContainers
  <1> QED
    BY <1>1, <1>2, <1>3, <1>4, <1>5, <1>6, <1>7, <1>8, WorkingStep

(* ... and to the used space, and ends the transfer when nothing is left *)
LEMMA ProceedAddsSpaceInv ==
    ASSUME CargoInv, NEW c \in Containers, ProceedAddsSpace(c) PROVE CargoInv'
  <1> DEFINE new == IF transfer[c].left = 0 THEN NoTransfer ELSE transfer[c]
             sum == worker[c].read + worker[c].n
  <1>1. /\ worker' = [worker EXCEPT ![c] = Away] /\ used' = [used EXCEPT ![Receiver(c)] = sum]
        /\ UNCHANGED <<amount, portsVars, dt, phase>>
    BY DEF ProceedAddsSpace
  <1>2. transfer' = [transfer EXCEPT ![c] = new]
    BY SoundContainers DEF ProceedAddsSpace
  <1>3. sum \in Int
    BY SoundContainers
  <1>4. new \in TransferRecord /\ TransferIsSound(new, ports, nextKey)
    BY SoundContainers, Standing, NothingIsSound
  <1> HIDE DEF new, sum
  <1>5. amount' \in [Containers -> Int] /\ used' \in [Containers -> Int]
    BY <1>1, <1>3, SoundContainers
  <1> QED
    BY <1>1, <1>2, <1>4, <1>5, Standing, NothingIsSound, OneContainerStep

(* The stage of the containers begins and ends *)
LEMMA StageCargoInv ==
    ASSUME CargoInv, (\E span \in Spans : StartCargo(span)) \/ StopCargo PROVE CargoInv'
  <1>1. ASSUME NEW span \in Spans, StartCargo(span) PROVE CargoInv'
    <2> DEFINE w(c) == IF transfer[c] # NoTransfer /\ span > 0 THEN [Away EXCEPT !.at = "waits"] ELSE Away
    <2>1. /\ phase' = "transfer" /\ dt' = span /\ worker' = [c \in Containers |-> w(c)]
          /\ UNCHANGED <<amount, used, ports, opened, nextKey, transfer>>
      BY <1>1 DEF StartCargo, portsVars
    <2>2. span \in Nat
      BY CargoAssumption
    <2>3. [Away EXCEPT !.at = "waits"] \in WorkerRecord /\ [Away EXCEPT !.at = "waits"].at = "waits"
      BY DEF Away, WorkerRecord
    <2>4. \A c \in Containers : w(c) \in WorkerRecord /\ w(c).at \notin Works /\ w(c).at \notin Counted
                                /\ (w(c).at # "away" => transfer[c] # NoTransfer)
      BY <2>3, Standing
    <2> HIDE DEF w
    <2>5. \A c \in Containers : worker'[c] = w(c)
      BY <2>1
    <2>6. worker' \in [Containers -> WorkerRecord]
      BY <2>1, <2>4
    <2>7. CargoTypeOK'
      BY <2>1, <2>2, <2>6 DEF CargoInv, CargoTypeOK
    <2>8. PortsInv' /\ TransfersInv'
      BY <2>1 DEF CargoInv, PortsInv, TransfersInv
    <2>9. WorkersInv'
      BY <2>1, <2>4, <2>5 DEF CargoInv, TransfersInv, TransferIsSound, WorkersInv, WorkerIsSound
    <2> QED
      BY <2>7, <2>8, <2>9 DEF CargoInv
  <1>2. CASE StopCargo
    <2>1. /\ phase' = "mine" /\ dt' = 0 /\ \A c \in Containers : worker[c] = Away
          /\ UNCHANGED <<amount, used, ports, opened, nextKey, transfer, worker>>
      BY <1>2 DEF StopCargo, portsVars
    <2>2. CargoTypeOK'
      BY <2>1 DEF CargoInv, CargoTypeOK
    <2>3. PortsInv' /\ TransfersInv'
      BY <2>1 DEF CargoInv, PortsInv, TransfersInv
    <2>4. WorkersInv'
      BY <2>1, Standing DEF CargoInv, WorkersInv
    <2> QED
      BY <2>2, <2>3, <2>4 DEF CargoInv
  <1> QED
    BY <1>1, <1>2

(* The invariant of containers is inductive: one step per action *)
LEMMA CargoStep ==
    ASSUME CargoInv, CargoNext PROVE CargoInv'
  BY OpenPortInv, ClosePortInv, TransferInv, ProceedAbortsInv, ProceedCountsInv, ProceedLoadsInv,
     ProceedTakesSpaceInv, ProceedTakesAmountInv, ProceedClampsInv, ProceedLocksInv, ProceedAddsAmountInv,
     ProceedAddsSpaceInv, StageCargoInv DEF CargoNext

-----------------------------------------------------------------------------
(* What containers hold while nobody has taken from one into which another one put *)

(* The container whose amount and used space a thread is changing *)
AtWork(c) == worker[c].at \in Takes \cup Adds
Touched(c) == IF worker[c].at \in Takes THEN c ELSE Receiver(c)

(* How far it is: `a` and `u` are the amount and the used space of that container *)
Moving(w, t, a, u) ==
    /\ w.at \in {"counted", "space read"} => u = a /\ w.n <= a /\ t.reserved + w.n >= 0
    /\ w.at \in {"space taken", "amount read"} => u = a - w.n /\ w.n <= a /\ t.reserved + w.n >= 0
    /\ w.at = "amount taken" => u = a
    /\ w.at \in {"locked", "amount found"} => u = a /\ w.n <= t.reserved /\ a + w.n >= 0
    /\ w.at \in {"amount added", "space found"} => a = u + w.n
    /\ w.at \in {"space read", "space found"} => w.read = u
    /\ w.at \in {"amount read", "amount found"} => w.read = a

Calm ==
    /\ \A c, d \in Containers : AtWork(c) /\ AtWork(d) /\ Touched(c) = Touched(d) => c = d
    /\ \A c \in Containers : amount[c] >= 0 /\ transfer[c].reserved >= 0
    /\ \A c \in Containers : AtWork(c) => Moving(worker[c], transfer[c], amount[Touched(c)], used[Touched(c)])
    /\ \A x \in Containers : (\A c \in Containers : AtWork(c) => Touched(c) # x) => used[x] = amount[x]

CalmInv == raced \/ Calm

(* When no thread is in proceed(), the used space is what the resources take *)
LEMMA RestIsExact ==
    ASSUME CargoInv, Calm, \A c \in Containers : worker[c].at \notin Works
    PROVE  used = amount
  <1>1. \A c \in Containers : ~AtWork(c)
    BY Standing DEF AtWork
  <1>2. \A x \in Containers : used[x] = amount[x]
    BY <1>1 DEF Calm
  <1> QED
    BY <1>2 DEF CargoInv, CargoTypeOK

(* And the other way round *)
LEMMA CalmRestNext ==
    ASSUME \A c \in Containers : worker'[c].at \notin Works, used' = amount',
           \A c \in Containers : amount'[c] >= 0 /\ transfer'[c].reserved >= 0
    PROVE  Calm'
  <1>1. \A c \in Containers : ~AtWork(c)'
    BY Standing DEF AtWork
  <1> QED
    BY <1>1 DEF Calm

(* What a thread changes is a container *)
LEMMA TouchedIsContainer ==
    ASSUME CargoInv, NEW c \in Containers, AtWork(c) PROVE Touched(c) \in Containers
  BY ReceiverIsMeant, Standing DEF AtWork, Touched

(* A thread changes its target, and no other thread has the same one *)
LEMMA CalmWork ==
    ASSUME CargoInv, Calm, NEW c \in Containers, NEW w, NEW t, NEW x \in Containers,
           worker' = [worker EXCEPT ![c] = w], transfer' = [transfer EXCEPT ![c] = t], ports' = ports,
           \A y \in Containers : y # x => amount'[y] = amount[y] /\ used'[y] = used[y],
           AtWork(c) => Touched(c) = x,
           ~AtWork(c) => \A d \in Containers : AtWork(d) => Touched(d) # x,
           amount'[x] >= 0, t.reserved >= 0,
           w.at \in Takes \cup Adds => Touched(c)' = x /\ Moving(w, t, amount'[x], used'[x]),
           w.at \notin Takes \cup Adds => used'[x] = amount'[x]
    PROVE  Calm'
  <1>1. /\ worker'[c] = w /\ transfer'[c] = t
        /\ \A d \in Containers : d # c => worker'[d] = worker[d] /\ transfer'[d] = transfer[d]
    BY DEF CargoInv, CargoTypeOK
  <1>2. ASSUME NEW d \in Containers, d # c
        PROVE  (AtWork(d)' <=> AtWork(d)) /\ Touched(d)' = Touched(d) /\ (AtWork(d) => Touched(d) # x)
    <2>1. worker'[d] = worker[d] /\ transfer'[d] = transfer[d]
      BY <1>1, <1>2
    <2>2. (AtWork(d)' <=> AtWork(d)) /\ Touched(d)' = Touched(d)
      BY <2>1 DEF AtWork, Touched, Receiver
    <2>3. AtWork(d) => Touched(d) # x
      BY <1>2 DEF Calm
    <2> QED
      BY <2>2, <2>3
  <1>3. AtWork(c)' <=> w.at \in Takes \cup Adds
    BY <1>1 DEF AtWork
  <1>4. ASSUME NEW d \in Containers, NEW e \in Containers, AtWork(d)', AtWork(e)', Touched(d)' = Touched(e)'
        PROVE  d = e
    <2>1. CASE d # c /\ e # c
      BY <1>2, <1>4, <2>1 DEF Calm
    <2>2. CASE d = c /\ e # c
      BY <1>2, <1>3, <1>4, <2>2
    <2>3. CASE d # c /\ e = c
      BY <1>2, <1>3, <1>4, <2>3
    <2> QED
      BY <2>1, <2>2, <2>3
  <1>5. \A d \in Containers : amount'[d] >= 0 /\ transfer'[d].reserved >= 0
    BY <1>1 DEF Calm
  <1>6. ASSUME NEW d \in Containers, AtWork(d)'
        PROVE  Moving(worker'[d], transfer'[d], amount'[Touched(d)'], used'[Touched(d)'])
    <2>1. CASE d = c
      BY <1>1, <1>3, <1>6, <2>1
    <2>2. CASE d # c
      <3>1. AtWork(d) /\ Touched(d)' = Touched(d) /\ Touched(d) # x
        BY <1>2, <1>6, <2>2
      <3>2. Touched(d) \in Containers
        BY <3>1, TouchedIsContainer
      <3>3. amount'[Touched(d)] = amount[Touched(d)] /\ used'[Touched(d)] = used[Touched(d)]
        BY <3>1, <3>2
      <3>4. Moving(worker[d], transfer[d], amount[Touched(d)], used[Touched(d)])
        BY <3>1 DEF Calm
      <3> QED
        BY <1>1, <2>2, <3>1, <3>3, <3>4
    <2> QED
      BY <2>1, <2>2
  <1>7. ASSUME NEW y \in Containers, \A d \in Containers : AtWork(d)' => Touched(d)' # y PROVE used'[y] = amount'[y]
    <2>1. CASE y = x
      BY <1>3, <1>7, <2>1
    <2>2. CASE y # x
      <3>1. \A d \in Containers : AtWork(d) => Touched(d) # y
        BY <1>2, <1>7, <2>2
      <3> QED
        BY <2>2, <3>1 DEF Calm
    <2> QED
      BY <2>1, <2>2
  <1> QED
    BY <1>4, <1>5, <1>6, <1>7 DEF Calm

(* Nobody changes a container into which nobody puts and whose own thread does not take *)
LEMMA NobodyIsAt ==
    ASSUME NEW x \in Containers, worker[x].at \notin Takes, ~Locked(x)
    PROVE  \A d \in Containers : AtWork(d) => Touched(d) # x
  BY DEF AtWork, Touched, Locked

(* A transfer that ends gives back what fits *)
LEMMA AbortsCalm ==
    ASSUME CargoInv, Calm, NEW c \in Containers, ProceedAborts(c) PROVE Calm'
  <1> DEFINE reserved == transfer[c].reserved
             back == IF reserved > 0 THEN Fits(reserved, used[c]) ELSE 0
  <1>1. /\ worker[c].at = "waits" /\ ~Locked(c)
        /\ amount' = [amount EXCEPT ![c] = @ + back] /\ used' = [used EXCEPT ![c] = @ + back]
        /\ transfer' = [transfer EXCEPT ![c] = NoTransfer] /\ worker' = [worker EXCEPT ![c] = Away]
        /\ ports' = ports
    BY DEF ProceedAborts, MayStart, Terminate, portsVars
  <1>2. worker[c].at \notin Takes /\ ~AtWork(c) /\ Away.at \notin Takes \cup Adds
    BY <1>1, Standing DEF AtWork
  <1>3. \A d \in Containers : AtWork(d) => Touched(d) # c
    BY <1>1, <1>2, NobodyIsAt
  <1>4. used[c] = amount[c] /\ amount[c] >= 0
    BY <1>3 DEF Calm
  <1>5. back \in Int /\ amount[c] + back >= 0
    BY <1>4, SoundContainers, FitsNumbers
  <1> HIDE DEF back
  <1>6. /\ amount'[c] = amount[c] + back /\ used'[c] = used[c] + back
        /\ \A y \in Containers : y # c => amount'[y] = amount[y] /\ used'[y] = used[y]
    BY <1>1, SoundContainers
  <1>7. amount'[c] >= 0 /\ used'[c] = amount'[c]
    BY <1>4, <1>5, <1>6
  <1>8. NoTransfer.reserved >= 0
    BY Standing
  <1> QED
    BY <1>1, <1>2, <1>3, <1>6, <1>7, <1>8, CalmWork

(* It is counted what is there *)
LEMMA CountsCalm ==
    ASSUME CargoInv, Calm, NEW c \in Containers, ProceedCounts(c), ~raced' PROVE Calm'
  <1> DEFINE n == Least(amount[c], Portion(c))
             w == [at |-> "counted", n |-> n, read |-> 0]
  <1>1. /\ worker[c].at = "waits" /\ ~Locked(c) /\ worker' = [worker EXCEPT ![c] = w]
        /\ UNCHANGED <<amount, used, transfer, ports>>
    BY DEF ProceedCounts, MayStart, portsVars
  <1>2. worker[c].at \notin Takes /\ ~AtWork(c)
    BY <1>1, Standing DEF AtWork
  <1>3. \A d \in Containers : AtWork(d) => Touched(d) # c
    BY <1>1, <1>2, NobodyIsAt
  <1>4. used[c] = amount[c] /\ amount[c] >= 0 /\ transfer[c].reserved >= 0
    BY <1>3 DEF Calm
  <1>5. transfer[c].left >= 0
    BY <1>4, SoundContainers DEF TransferIsSound
  <1>6. n \in Int /\ n <= amount[c] /\ transfer[c].reserved + n >= 0
    BY <1>4, <1>5, SoundContainers, CountedNumbers DEF Portion
  <1> HIDE DEF n
  <1>7. w.at = "counted" /\ w.n = n
    OBVIOUS
  <1> HIDE DEF w
  <1>8. Moving(w, transfer[c], amount'[c], used'[c])
    BY <1>1, <1>4, <1>6, <1>7 DEF Moving
  <1>9. w.at \in Takes /\ Touched(c)' = c
    <2>1. worker'[c] = w
      BY <1>1 DEF CargoInv, CargoTypeOK
    <2> QED
      BY <1>7, <2>1 DEF Touched, Takes
  <1>10. transfer' = [transfer EXCEPT ![c] = transfer[c]]
    BY <1>1, SoundContainers
  <1> QED
    BY <1>1, <1>2, <1>3, <1>4, <1>8, <1>9, <1>10, CalmWork

(* A step of a thread that is at work and stays at work on the same container *)
LEMMA CalmGoesOn ==
    ASSUME CargoInv, Calm, NEW c \in Containers, NEW w, NEW t, AtWork(c),
           w.at \in Takes <=> worker[c].at \in Takes, w.at \in Takes \cup Adds, t.port = transfer[c].port,
           worker' = [worker EXCEPT ![c] = w], transfer' = [transfer EXCEPT ![c] = t], ports' = ports,
           \A y \in Containers : y # Touched(c) => amount'[y] = amount[y] /\ used'[y] = used[y],
           amount'[Touched(c)] >= 0, t.reserved >= 0,
           Moving(w, t, amount'[Touched(c)], used'[Touched(c)])
    PROVE  Calm'
  <1>1. worker'[c] = w /\ transfer'[c] = t
    BY DEF CargoInv, CargoTypeOK
  <1>2. Touched(c)' = Touched(c)
    BY <1>1 DEF Touched, Receiver
  <1> DEFINE x == Touched(c)
  <1>3. x \in Containers
    BY TouchedIsContainer
  <1> HIDE DEF x
  <1>4. AtWork(c) => Touched(c) = x
    BY DEF x
  <1>5. Touched(c)' = x /\ Moving(w, t, amount'[x], used'[x]) /\ amount'[x] >= 0
        /\ \A y \in Containers : y # x => amount'[y] = amount[y] /\ used'[y] = used[y]
    BY <1>2 DEF x
  <1> QED
    BY <1>3, <1>4, <1>5, CalmWork

(* What is read is what is there *)
LEMMA LoadCalm ==
    ASSUME CargoInv, Calm, NEW c \in Containers, NEW before, NEW after, NEW value, Load(c, before, after, value),
           \/ before = "counted" /\ after = "space read" /\ value = used[Touched(c)]
           \/ before = "space taken" /\ after = "amount read" /\ value = amount[Touched(c)]
           \/ before = "locked" /\ after = "amount found" /\ value = amount[Touched(c)]
           \/ before = "amount added" /\ after = "space found" /\ value = used[Touched(c)]
    PROVE  Calm'
  <1> DEFINE w == [worker[c] EXCEPT !.at = after, !.read = value]
  <1>1. worker[c].at = before /\ UNCHANGED <<amount, used, transfer, ports>>
    BY DEF Load, portsVars
  <1>2. worker' = [worker EXCEPT ![c] = w]
    BY DEF Load
  <1>3. w.at = after /\ w.n = worker[c].n /\ w.read = value
    BY SoundContainers DEF WorkerRecord
  <1> HIDE DEF w
  <1>4. AtWork(c) /\ w.at \in Takes \cup Adds /\ (w.at \in Takes <=> worker[c].at \in Takes)
    BY <1>1, <1>3 DEF AtWork, Takes, Adds
  <1>5. Moving(worker[c], transfer[c], amount[Touched(c)], used[Touched(c)])
    BY <1>4 DEF Calm
  <1>6. Moving(w, transfer[c], amount[Touched(c)], used[Touched(c)])
    BY <1>1, <1>3, <1>5 DEF Moving
  <1>7. transfer' = [transfer EXCEPT ![c] = transfer[c]]
    BY <1>1, SoundContainers
  <1>8. amount[Touched(c)] >= 0 /\ transfer[c].reserved >= 0
    BY <1>4, TouchedIsContainer DEF Calm
  <1> QED
    BY <1>1, <1>2, <1>4, <1>6, <1>7, <1>8, CalmGoesOn

(* The four reads of a thread *)
LEMMA LoadsCalm ==
    ASSUME CargoInv, Calm, NEW c \in Containers, ProceedLoads(c) PROVE Calm'
  <1>1. CASE Load(c, "counted", "space read", used[c])
    <2>1. Touched(c) = c
      BY <1>1 DEF Load, Touched, Takes
    <2> QED
      BY <1>1, <2>1, LoadCalm
  <1>2. CASE Load(c, "space taken", "amount read", amount[c])
    <2>1. Touched(c) = c
      BY <1>2 DEF Load, Touched, Takes
    <2> QED
      BY <1>2, <2>1, LoadCalm
  <1>3. CASE Load(c, "locked", "amount found", amount[Receiver(c)])
    <2>1. Touched(c) = Receiver(c)
      BY <1>3 DEF Load, Touched, Takes
    <2> QED
      BY <1>3, <2>1, LoadCalm
  <1>4. CASE Load(c, "amount added", "space found", used[Receiver(c)])
    <2>1. Touched(c) = Receiver(c)
      BY <1>4 DEF Load, Touched, Takes
    <2> QED
      BY <1>4, <2>1, LoadCalm
  <1> QED
    BY <1>1, <1>2, <1>3, <1>4 DEF ProceedLoads

(* The used space shrinks first *)
LEMMA TakesSpaceCalm ==
    ASSUME CargoInv, Calm, NEW c \in Containers, ProceedTakesSpace(c) PROVE Calm'
  <1> DEFINE w == [worker[c] EXCEPT !.at = "space taken"]
  <1>1. /\ worker[c].at = "space read" /\ used' = [used EXCEPT ![c] = worker[c].read - worker[c].n]
        /\ UNCHANGED <<amount, transfer, ports>>
    BY DEF ProceedTakesSpace, portsVars
  <1>2. worker' = [worker EXCEPT ![c] = w]
    BY DEF ProceedTakesSpace
  <1>3. w.at = "space taken" /\ w.n = worker[c].n
    BY SoundContainers DEF WorkerRecord
  <1> HIDE DEF w
  <1>4. /\ AtWork(c) /\ Touched(c) = c /\ w.at \in Takes \cup Adds /\ (w.at \in Takes <=> worker[c].at \in Takes)
    BY <1>1, <1>3 DEF AtWork, Touched, Takes, Adds
  <1>5. Moving(worker[c], transfer[c], amount[c], used[c])
    BY <1>4 DEF Calm
  <1>6. used'[c] = worker[c].read - worker[c].n /\ \A y \in Containers : y # c => used'[y] = used[y]
    BY <1>1, SoundContainers
  <1>7. Moving(w, transfer[c], amount[c], used'[c])
    BY <1>1, <1>3, <1>5, <1>6 DEF Moving
  <1>8. transfer' = [transfer EXCEPT ![c] = transfer[c]]
    BY <1>1, SoundContainers
  <1>9. amount[c] >= 0 /\ transfer[c].reserved >= 0
    BY DEF Calm
  <1> QED
    BY <1>1, <1>2, <1>4, <1>6, <1>7, <1>8, <1>9, CalmGoesOn

(* The numbers of the second half *)
LEMMA TakenNumbers ==
    ASSUME NEW a \in Int, NEW u \in Int, NEW n \in Int, NEW r \in Int, r = a, u = a - n, n <= a
    PROVE  r - n = u /\ r - n >= 0
  OBVIOUS

(* Then the amount, by as much *)
LEMMA TakesAmountCalm ==
    ASSUME CargoInv, Calm, NEW c \in Containers, ProceedTakesAmount(c) PROVE Calm'
  <1> DEFINE w == [worker[c] EXCEPT !.at = "amount taken"]
             t == [transfer[c] EXCEPT !.reserved = @ + worker[c].n]
  <1>1. /\ worker[c].at = "amount read" /\ amount' = [amount EXCEPT ![c] = worker[c].read - worker[c].n]
        /\ UNCHANGED <<used, ports>>
    BY DEF ProceedTakesAmount, portsVars
  <1>2. worker' = [worker EXCEPT ![c] = w]
    BY DEF ProceedTakesAmount
  <1>3. transfer' = [transfer EXCEPT ![c] = t]
    BY DEF ProceedTakesAmount, CargoInv, CargoTypeOK
  <1>4. w.at = "amount taken" /\ t.reserved = transfer[c].reserved + worker[c].n /\ t.port = transfer[c].port
    BY SoundContainers DEF WorkerRecord, TransferRecord
  <1> HIDE DEF w, t
  <1>5. AtWork(c) /\ Touched(c) = c /\ w.at \in Takes \cup Adds /\ (w.at \in Takes <=> worker[c].at \in Takes)
    BY <1>1, <1>4 DEF AtWork, Touched, Takes, Adds
  <1>6. Moving(worker[c], transfer[c], amount[c], used[c])
    BY <1>5 DEF Calm
  <1>7. /\ used[c] = amount[c] - worker[c].n /\ worker[c].n <= amount[c] /\ worker[c].read = amount[c]
        /\ transfer[c].reserved + worker[c].n >= 0
    BY <1>1, <1>6 DEF Moving
  <1>8. amount'[c] = worker[c].read - worker[c].n /\ \A y \in Containers : y # c => amount'[y] = amount[y]
    BY <1>1, SoundContainers
  <1>9. amount'[c] = used[c] /\ amount'[c] >= 0
    BY <1>7, <1>8, SoundContainers, TakenNumbers
  <1>10. Moving(w, t, amount'[c], used[c])
    BY <1>4, <1>9 DEF Moving
  <1>11. t.reserved >= 0
    BY <1>4, <1>7
  <1> QED
    BY <1>1, <1>2, <1>3, <1>4, <1>5, <1>8, <1>9, <1>10, <1>11, CalmGoesOn

(* Nothing is negative that would have to be corrected *)
LEMMA ClampsNothing ==
    ASSUME CargoInv, Calm, NEW c \in Containers, ProceedClamps(c)
    PROVE  amount' = amount /\ used' = used /\ used[c] = amount[c] /\ amount[c] >= 0
  <1>1. worker[c].at = "amount taken"
    BY DEF ProceedClamps
  <1>2. AtWork(c) /\ Touched(c) = c
    BY <1>1 DEF AtWork, Touched, Takes
  <1>3. used[c] = amount[c] /\ amount[c] >= 0
    BY <1>1, <1>2 DEF Calm, Moving
  <1>4. {amount[c], 0} = {0, amount[c]} /\ amount[c] \in Int
    BY SoundContainers
  <1>5. Max({amount[c], 0}) = amount[c]
    BY <1>3, <1>4, MaxZero
  <1>6. amount' = [amount EXCEPT ![c] = amount[c]] /\ used' = [used EXCEPT ![c] = used[c]]
    BY <1>3, <1>5 DEF ProceedClamps
  <1>7. amount' = amount /\ used' = used
    BY <1>6, SoundContainers
  <1> QED
    BY <1>3, <1>7

(* After that the container is as it should be *)
LEMMA ClampsCalm ==
    ASSUME CargoInv, Calm, NEW c \in Containers, ProceedClamps(c) PROVE Calm'
  <1> DEFINE w == [worker[c] EXCEPT !.at = "puts"]
  <1>1. worker[c].at = "amount taken" /\ UNCHANGED <<transfer, ports>>
    BY DEF ProceedClamps, portsVars
  <1>2. worker' = [worker EXCEPT ![c] = w]
    BY DEF ProceedClamps
  <1>3. w.at = "puts"
    BY SoundContainers DEF WorkerRecord
  <1> HIDE DEF w
  <1>4. AtWork(c) /\ Touched(c) = c /\ w.at \notin Takes \cup Adds
    BY <1>1, <1>3 DEF AtWork, Touched, Takes, Adds
  <1>5. transfer' = [transfer EXCEPT ![c] = transfer[c]] /\ transfer[c].reserved >= 0
    BY <1>1, SoundContainers DEF Calm
  <1>6. amount' = amount /\ used' = used /\ used[c] = amount[c] /\ amount[c] >= 0
    BY ClampsNothing
  <1> QED
    BY <1>1, <1>2, <1>4, <1>5, <1>6, CalmWork

(* What will be put is reserved and fits *)
LEMMA LocksCalm ==
    ASSUME CargoInv, Calm, NEW c \in Containers, ProceedLocks(c), ~raced' PROVE Calm'
  <1> DEFINE r == Receiver(c)
             n == Fits(transfer[c].reserved, used[r])
             w == [at |-> "locked", n |-> n, read |-> 0]
  <1>1. /\ worker[c].at = "puts" /\ ~Locked(r) /\ worker[r].at \notin Takes
        /\ worker' = [worker EXCEPT ![c] = w] /\ UNCHANGED <<amount, used, transfer, ports>>
    BY DEF ProceedLocks, portsVars
  <1>2. r \in Containers
    BY <1>1, ReceiverIsMeant DEF Works
  <1>3. ~AtWork(c)
    BY <1>1 DEF AtWork, Takes, Adds
  <1> HIDE DEF r
  <1>4. \A d \in Containers : AtWork(d) => Touched(d) # r
    BY <1>1, <1>2, NobodyIsAt
  <1>5. used[r] = amount[r] /\ amount[r] >= 0 /\ transfer[c].reserved >= 0
    BY <1>2, <1>4 DEF Calm
  <1>6. used[r] \in Int /\ transfer[c].reserved \in Int
    BY <1>2, SoundContainers
  <1>7. n \in Int /\ n <= transfer[c].reserved /\ used[r] + n >= 0
    BY <1>5, <1>6, FitsNumbers
  <1> HIDE DEF n
  <1>8. w.at = "locked" /\ w.n = n
    OBVIOUS
  <1> HIDE DEF w
  <1>9. Moving(w, transfer[c], amount'[r], used'[r])
    BY <1>1, <1>5, <1>7, <1>8 DEF Moving
  <1>10. w.at \in Adds /\ w.at \notin Takes /\ Touched(c)' = r
    <2>1. worker'[c] = w
      BY <1>1 DEF CargoInv, CargoTypeOK
    <2>2. w.at \in Adds /\ w.at \notin Takes
      BY <1>8 DEF Adds, Takes
    <2> QED
      BY <1>1, <2>1, <2>2 DEF Touched, Receiver, r
  <1>11. transfer' = [transfer EXCEPT ![c] = transfer[c]]
    BY <1>1, SoundContainers
  <1> QED
    BY <1>1, <1>2, <1>3, <1>4, <1>5, <1>9, <1>10, <1>11, CalmWork

(* The amount grows first *)
LEMMA AddsAmountCalm ==
    ASSUME CargoInv, Calm, NEW c \in Containers, ProceedAddsAmount(c) PROVE Calm'
  <1> DEFINE w == [worker[c] EXCEPT !.at = "amount added"]
             n == worker[c].n
             r == Receiver(c)
             t == [transfer[c] EXCEPT !.left = transfer[c].left - n, !.reserved = transfer[c].reserved - n]
  <1>1. /\ worker[c].at = "amount found" /\ amount' = [amount EXCEPT ![r] = worker[c].read + n]
        /\ UNCHANGED <<used, ports>>
    BY DEF ProceedAddsAmount, portsVars
  <1>2. worker' = [worker EXCEPT ![c] = w]
    BY DEF ProceedAddsAmount
  <1>3. transfer' = [transfer EXCEPT ![c] = t]
    BY DEF ProceedAddsAmount, CargoInv, CargoTypeOK
  <1>4. w.at = "amount added" /\ w.n = n /\ t.reserved = transfer[c].reserved - n /\ t.port = transfer[c].port
    BY SoundContainers DEF WorkerRecord, TransferRecord
  <1> HIDE DEF w, t
  <1>5. AtWork(c) /\ Touched(c) = r /\ w.at \in Takes \cup Adds /\ (w.at \in Takes <=> worker[c].at \in Takes)
    BY <1>1, <1>4 DEF AtWork, Touched, Takes, Adds
  <1>6. r \in Containers
    BY <1>5, TouchedIsContainer
  <1> HIDE DEF r
  <1>7. Moving(worker[c], transfer[c], amount[r], used[r])
    BY <1>5 DEF Calm
  <1>8. used[r] = amount[r] /\ n <= transfer[c].reserved /\ amount[r] + n >= 0 /\ worker[c].read = amount[r]
    BY <1>1, <1>7 DEF Moving
  <1>9. amount'[r] = worker[c].read + n /\ \A y \in Containers : y # r => amount'[y] = amount[y]
    BY <1>1, <1>6, SoundContainers
  <1>10. amount'[r] = used[r] + n /\ amount'[r] >= 0 /\ transfer[c].reserved - n >= 0
    BY <1>8, <1>9, SoundContainers
  <1> HIDE DEF n
  <1>11. Moving(w, t, amount'[r], used[r])
    BY <1>4, <1>10 DEF Moving
  <1> QED
    BY <1>1, <1>2, <1>3, <1>4, <1>5, <1>9, <1>10, <1>11, CalmGoesOn

(* Then the used space, by as much *)
LEMMA AddsSpaceCalm ==
    ASSUME CargoInv, Calm, NEW c \in Containers, ProceedAddsSpace(c) PROVE Calm'
  <1> DEFINE r == Receiver(c)
             new == IF transfer[c].left = 0 THEN NoTransfer ELSE transfer[c]
  <1>1. /\ worker[c].at = "space found" /\ worker' = [worker EXCEPT ![c] = Away]
        /\ used' = [used EXCEPT ![r] = worker[c].read + worker[c].n] /\ UNCHANGED <<amount, ports>>
    BY DEF ProceedAddsSpace, portsVars
  <1>2. transfer' = [transfer EXCEPT ![c] = new] /\ new.reserved >= 0
    <2>1. transfer' = [transfer EXCEPT ![c] = new]
      BY SoundContainers DEF ProceedAddsSpace
    <2>2. transfer[c].reserved >= 0 /\ NoTransfer.reserved >= 0
      BY Standing DEF Calm
    <2> QED
      BY <2>1, <2>2
  <1>3. AtWork(c) /\ Touched(c) = r /\ Away.at \notin Takes \cup Adds
    BY <1>1, Standing DEF AtWork, Touched, Takes, Adds
  <1>4. r \in Containers
    BY <1>3, TouchedIsContainer
  <1> HIDE DEF r, new
  <1>5. amount[r] = used[r] + worker[c].n /\ worker[c].read = used[r] /\ amount[r] >= 0
    BY <1>1, <1>3, <1>4 DEF Calm, Moving
  <1>6. used'[r] = amount[r] /\ \A y \in Containers : y # r => used'[y] = used[y]
    BY <1>1, <1>4, <1>5, SoundContainers
  <1> QED
    BY <1>1, <1>2, <1>3, <1>4, <1>5, <1>6, CalmWork

(* A step outside of proceed() that leaves amounts and reserves natural *)
LEMMA RestCalm ==
    ASSUME CargoInv, CalmInv, ~raced', raced' = raced,
           \A c \in Containers : worker[c].at \notin Works /\ worker'[c].at \notin Works,
           UNCHANGED <<amount, used>>, \A c \in Containers : transfer'[c].reserved \in {transfer[c].reserved, 0}
    PROVE  Calm'
  <1>1. Calm
    BY DEF CalmInv
  <1>2. used' = amount'
    BY <1>1, RestIsExact
  <1>3. \A c \in Containers : amount'[c] >= 0 /\ transfer'[c].reserved >= 0
    BY <1>1 DEF Calm
  <1>4. \A c \in Containers : worker'[c].at \notin Works
    OBVIOUS
  <1> QED
    BY <1>2, <1>3, <1>4, CalmRestNext

(* No thread is in proceed() outside of the stage of the containers *)
LEMMA NobodyWorks ==
    ASSUME CargoInv, phase # "transfer"
    PROVE  \A c \in Containers : worker[c].at \notin Works
  BY Standing DEF CargoInv, WorkersInv

(* The steps of containers *)
LEMMA CargoCalm ==
    ASSUME CargoInv, CalmInv, CargoNext PROVE CalmInv'
  <1> SUFFICES ASSUME ~raced' PROVE Calm'
    BY DEF CalmInv
  <1>1. ASSUME NEW c \in Containers, OpenPort(c) \/ ClosePort(c) PROVE Calm'
    <2>1. phase = "cargo" /\ UNCHANGED <<amount, used, transfer, worker, raced>>
      BY <1>1 DEF OpenPort, ClosePort
    <2> QED
      BY <2>1, NobodyWorks, RestCalm
  <1>2. ASSUME NEW c \in Containers, NEW id \in PortIds, NEW n \in Orders, Transfer(c, id, n) PROVE Calm'
    <2>1. /\ phase = "cargo" /\ UNCHANGED <<amount, used, worker, raced>>
          /\ transfer' = [transfer EXCEPT ![c] = [port |-> id, key |-> ports[id].key, left |-> n,
                                                  reserved |-> 0, to |-> ports[id].owner]]
      BY <1>2 DEF Transfer
    <2>2. \A d \in Containers : transfer'[d].reserved \in {transfer[d].reserved, 0}
      BY <2>1 DEF CargoInv, CargoTypeOK
    <2> QED
      BY <2>1, <2>2, NobodyWorks, RestCalm
  <1>3. ASSUME NEW span \in Spans, StartCargo(span) PROVE Calm'
    <2>1. /\ phase = "cargo" /\ UNCHANGED <<amount, used, transfer, raced>>
          /\ worker' = [c \in Containers |-> IF transfer[c] # NoTransfer /\ span > 0
                                             THEN [Away EXCEPT !.at = "waits"] ELSE Away]
      BY <1>3 DEF StartCargo
    <2>2. \A c \in Containers : worker'[c].at \in {"waits", "away"}
      BY <2>1 DEF Away
    <2>3. \A c \in Containers : worker'[c].at \notin Works
      BY <2>2, Standing
    <2> QED
      BY <2>1, <2>3, NobodyWorks, RestCalm
  <1>4. CASE StopCargo
    <2>1. UNCHANGED <<amount, used, transfer, worker, raced>> /\ \A c \in Containers : worker[c] = Away
      BY <1>4 DEF StopCargo
    <2>2. \A c \in Containers : worker[c].at \notin Works /\ worker'[c].at \notin Works
      BY <2>1, Standing
    <2> QED
      BY <2>1, <2>2, RestCalm
  <1>5. ASSUME NEW c \in Containers, Calm,
               \/ ProceedAborts(c) \/ ProceedCounts(c) \/ ProceedLoads(c) \/ ProceedTakesSpace(c)
               \/ ProceedTakesAmount(c) \/ ProceedClamps(c) \/ ProceedLocks(c)
               \/ ProceedAddsAmount(c) \/ ProceedAddsSpace(c)
        PROVE  Calm'
    BY <1>5, AbortsCalm, CountsCalm, LoadsCalm, TakesSpaceCalm, TakesAmountCalm, ClampsCalm, LocksCalm,
       AddsAmountCalm, AddsSpaceCalm
  <1>6. ASSUME NEW c \in Containers,
               \/ ProceedAborts(c) \/ ProceedCounts(c) \/ ProceedLoads(c) \/ ProceedTakesSpace(c)
               \/ ProceedTakesAmount(c) \/ ProceedClamps(c) \/ ProceedLocks(c)
               \/ ProceedAddsAmount(c) \/ ProceedAddsSpace(c)
        PROVE  Calm
    <2>1. ~raced
      BY <1>6 DEF ProceedAborts, ProceedCounts, ProceedLoads, Load, ProceedTakesSpace, ProceedTakesAmount,
         ProceedClamps, ProceedLocks, ProceedAddsAmount, ProceedAddsSpace
    <2> QED
      BY <2>1 DEF CalmInv
  <1> QED
    BY <1>1, <1>2, <1>3, <1>4, <1>5, <1>6 DEF CargoNext

-----------------------------------------------------------------------------
(* The miner and the shipyard *)

Box == Aboard \cup {NoBox}

(* The miner has a container while it mines *)
MinerInv ==
    /\ mass \in Nat
    /\ miner \in [active : BOOLEAN, box : Box, progress : Int]
    /\ miner.active => miner.box \in Aboard

(* A ship in building has cost what has been built of it *)
YardInv ==
    /\ yard \in [active : BOOLEAN, box : Box, progress : 0 .. Labor, sinceInd : Int]
    /\ spent \in Int /\ ships \in Nat
    /\ ShipsArePaid

ProductionInv == CargoInv /\ CalmInv /\ MinerInv /\ YardInv

(* The constants of production can be computed with *)
LEMMA ProductionNumbers ==
    /\ Aboard \subseteq Containers /\ Mass \in Nat /\ CycleTime \in Nat /\ YieldPerCycle \in Nat
    /\ Labor \in Nat /\ IndPeriod \in Nat /\ IndPeriod # 0 /\ Spans \subseteq Nat
  BY ProductionAssumption, CargoAssumption

(* It holds at the start *)
LEMMA CargoStart == CargoInit => CargoInv /\ CalmInv
  <1> SUFFICES ASSUME CargoInit PROVE CargoInv /\ CalmInv
    OBVIOUS
  <1>1. amount \in [Containers -> Nat] /\ used = amount
    BY CargoAssumption DEF CargoInit
  <1>2. Closed \in [key : Nat, owner : Someone] /\ Closed.key = 0
    BY DEF Closed, Someone
  <1>3. /\ ports = [p \in PortIds |-> Closed] /\ opened = [c \in Containers |-> NoPort] /\ nextKey = 1 /\ dt = 0
        /\ transfer = [c \in Containers |-> NoTransfer] /\ worker = [c \in Containers |-> Away] /\ phase = "cargo"
    BY DEF CargoInit
  <1>4. transfer \in [Containers -> TransferRecord] /\ worker \in [Containers -> WorkerRecord]
    BY <1>3, Standing
  <1>5. ports \in [PortIds -> [key : Nat, owner : Someone]] /\ \A p \in PortIds : ports[p].key = 0
    BY <1>2, <1>3
  <1>6. CargoTypeOK
    BY <1>1, <1>3, <1>4, <1>5 DEF CargoTypeOK
  <1>7. PortsInv
    BY <1>3, <1>5 DEF PortsInv
  <1>8. TransfersInv
    BY <1>3, Standing DEF TransfersInv, TransferIsSound
  <1>9. WorkersInv
    BY <1>3, Standing DEF WorkersInv, WorkerIsSound
  <1>10. Calm
    <2>1. \A c \in Containers : ~AtWork(c) /\ transfer[c].reserved = 0
      BY <1>3, Standing DEF AtWork
    <2> QED
      BY <1>1, <2>1 DEF Calm
  <1> QED
    BY <1>6, <1>7, <1>8, <1>9, <1>10 DEF CargoInv, CalmInv

(* Nothing happens in the containers *)
LEMMA CargoStands ==
    ASSUME CargoInv, CalmInv, UNCHANGED cargoVars PROVE CargoInv' /\ CalmInv'
  <1>1. UNCHANGED <<amount, used, ports, opened, nextKey, transfer, worker, dt, phase, raced>>
    BY DEF cargoVars
  <1>2. CargoInv'
    BY <1>1 DEF CargoInv, CargoTypeOK, PortsInv, TransfersInv, WorkersInv
  <1>3. CalmInv'
    BY <1>1 DEF CalmInv, Calm, AtWork, Touched, Receiver
  <1> QED
    BY <1>2, <1>3

(* What a stage without threads does to one container *)
LEMMA HoldingsCalm ==
    ASSUME CargoInv, CalmInv, NEW c \in Containers, NEW a \in Int, NEW u \in Int,
           used = amount => a = u, used = amount /\ amount[c] >= 0 => a >= 0,
           amount' = [amount EXCEPT ![c] = a], used' = [used EXCEPT ![c] = u],
           phase # "transfer", UNCHANGED <<transfer, worker, raced>>
    PROVE  CalmInv'
  <1> SUFFICES ASSUME ~raced' PROVE Calm'
    BY DEF CalmInv
  <1>1. Calm
    BY DEF CalmInv
  <1>2. \A d \in Containers : worker[d].at \notin Works
    BY NobodyWorks
  <1>3. used = amount
    BY <1>1, <1>2, RestIsExact
  <1>4. used' = amount' /\ \A d \in Containers : worker'[d].at \notin Works
    BY <1>2, <1>3
  <1>5. \A d \in Containers : amount'[d] >= 0 /\ transfer'[d].reserved >= 0
    BY <1>1, <1>3, SoundContainers DEF Calm
  <1> QED
    BY <1>4, <1>5, CalmRestNext

(* A stage that leaves all containers alone *)
LEMMA StageCalm ==
    ASSUME CalmInv, UNCHANGED <<amount, used, portsVars, transfer, worker, raced>> PROVE CalmInv'
  BY DEF CalmInv, Calm, AtWork, Touched, Receiver, portsVars

(* So do those of the miner and the shipyard *)
LEMMA ProductionStart == ProductionInit => ProductionInv
  <1> SUFFICES ASSUME ProductionInit PROVE ProductionInv
    OBVIOUS
  <1>1. CargoInv /\ CalmInv
    BY CargoStart DEF ProductionInit
  <1>2. MinerInv
    BY ProductionNumbers DEF ProductionInit, MinerInv, Box
  <1>3. /\ yard = [active |-> FALSE, box |-> NoBox, progress |-> 0, sinceInd |-> 0] /\ ships = 0 /\ spent = 0
    BY DEF ProductionInit
  <1>4. yard \in [active : BOOLEAN, box : Box, progress : 0 .. Labor, sinceInd : Int] /\ yard.active = FALSE
    BY <1>3, ProductionNumbers DEF Box
  <1>5. spent = Labor * ships
    BY <1>3, ProductionNumbers
  <1>6. YardInv
    BY <1>3, <1>4, <1>5 DEF YardInv, ShipsArePaid
  <1> QED
    BY <1>1, <1>2, <1>6 DEF ProductionInv

(* Commands to the miner change nothing in the containers *)
LEMMA MinerCommandsInv ==
    ASSUME ProductionInv, (\E c \in Aboard : BindMiner(c)) \/ StartMining \/ StopMining PROVE ProductionInv'
  <1>1. UNCHANGED <<cargoVars, mass, yard, ships, spent>>
    BY DEF BindMiner, StartMining, StopMining
  <1>2. CargoInv' /\ CalmInv'
    BY <1>1, CargoStands DEF ProductionInv
  <1>3. YardInv'
    BY <1>1 DEF ProductionInv, YardInv, ShipsArePaid
  <1>4. MinerInv'
    <2>1. ASSUME NEW c \in Aboard, BindMiner(c) PROVE MinerInv'
      BY <1>1, <2>1 DEF BindMiner, ProductionInv, MinerInv, Box
    <2>2. CASE StartMining
      BY <1>1, <2>2 DEF StartMining, ProductionInv, MinerInv, Box
    <2>3. CASE StopMining
      BY <1>1, <2>3 DEF StopMining, ProductionInv, MinerInv, Box
    <2> QED
      BY <2>1, <2>2, <2>3
  <1> QED
    BY <1>2, <1>3, <1>4 DEF ProductionInv

(* A portion of the asteroid: no more than there is, and not less than its stones *)
LEMMA YieldNumbers ==
    ASSUME mass \in Nat, NEW stones \in Nat, stones <= Least(YieldPerCycle, mass)
    PROVE  Yield(stones).left \in Nat /\ Yield(stones).mined \in Nat
  BY ProductionNumbers DEF Yield, Least

(* The miner puts what it has mined into its container, or stops *)
LEMMA MineInv ==
    ASSUME ProductionInv, NEW span \in Spans, NEW stones \in 0 .. YieldPerCycle, Mine(span, stones)
    PROVE  ProductionInv'
  <1> DEFINE progress == miner.progress + span
             yield == Yield(stones)
             put == IF yield.mined > 0 THEN Fits(yield.mined, used[miner.box]) ELSE 0
             cycle == miner.active /\ progress >= CycleTime
  <1>1. /\ phase = "mine" /\ phase' = "build" /\ stones <= Least(YieldPerCycle, mass)
        /\ UNCHANGED <<portsVars, transfer, worker, dt, team, raced, yard, ships, spent>>
    BY DEF Mine
  <1>2. YardInv'
    BY <1>1 DEF ProductionInv, YardInv, ShipsArePaid
  <1>3. /\ mass \in Nat /\ miner \in [active : BOOLEAN, box : Box, progress : Int]
        /\ miner.active => miner.box \in Aboard
    BY DEF ProductionInv, MinerInv
  <1>4. progress \in Int /\ progress - CycleTime \in Int
    BY <1>3, ProductionNumbers
  <1>5. stones \in Nat
    BY ProductionNumbers
  <1>6. yield.left \in Nat /\ yield.mined \in Nat
    BY <1>1, <1>3, <1>5, YieldNumbers
  <1>7. amount \in [Containers -> Int] /\ used \in [Containers -> Int]
    BY DEF ProductionInv, CargoInv, CargoTypeOK
  <1>8. CASE cycle
    <2>1. /\ mass' = yield.left
          /\ amount' = [amount EXCEPT ![miner.box] = @ + put]
          /\ used' = [used EXCEPT ![miner.box] = @ + put]
          /\ miner' = [miner EXCEPT !.progress = progress - CycleTime, !.active = put >= yield.mined]
      BY <1>8 DEF Mine
    <2>2. miner.box \in Containers
      BY <1>3, <1>8, ProductionNumbers
    <2> HIDE DEF yield, progress
    <2>9. used[miner.box] \in Int /\ amount[miner.box] \in Int
      BY <1>7, <2>2
    <2>10. put \in Int /\ (used[miner.box] >= 0 => used[miner.box] + put >= 0)
      <3> DEFINE fit == Fits(yield.mined, used[miner.box])
      <3>1. fit \in Int /\ (used[miner.box] >= 0 => used[miner.box] + fit >= 0)
        BY <1>6, <2>9, FitsMined
      <3>2. put = fit \/ put = 0
        OBVIOUS
      <3> HIDE DEF fit, put
      <3> QED
        BY <2>9, <3>1, <3>2
    <2> HIDE DEF put
    <2>3. amount[miner.box] + put \in Int /\ used[miner.box] + put \in Int
      BY <2>9, <2>10
    <2>4. amount' \in [Containers -> Int] /\ used' \in [Containers -> Int]
      BY <1>7, <2>1, <2>2, <2>3
    <2>11. CargoInv'
      BY <1>1, <2>4, HoldingsStep DEF ProductionInv
    <2>12. used = amount => amount[miner.box] + put = used[miner.box] + put
      OBVIOUS
    <2>13. used = amount /\ amount[miner.box] >= 0 => amount[miner.box] + put >= 0
      BY <2>10
    <2>14. /\ amount' = [amount EXCEPT ![miner.box] = amount[miner.box] + put]
           /\ used' = [used EXCEPT ![miner.box] = used[miner.box] + put]
      BY <2>1
    <2>15. CalmInv'
      BY <1>1, <2>2, <2>3, <2>12, <2>13, <2>14, HoldingsCalm DEF ProductionInv
    <2>5. CargoInv' /\ CalmInv'
      BY <2>11, <2>15
    <2> DEFINE full == put >= yield.mined
    <2>6. miner' = [miner EXCEPT !.progress = progress - CycleTime, !.active = full] /\ full \in BOOLEAN
      BY <2>1
    <2> HIDE DEF full
    <2>7. miner' \in [active : BOOLEAN, box : Box, progress : Int] /\ miner'.box = miner.box
      BY <1>3, <1>4, <2>6
    <2>8. MinerInv'
      BY <1>3, <1>6, <1>8, <2>1, <2>7 DEF MinerInv
    <2> QED
      BY <1>2, <2>5, <2>8 DEF ProductionInv
  <1>9. CASE ~cycle
    <2>1. /\ miner' = IF miner.active THEN [miner EXCEPT !.progress = progress] ELSE miner
          /\ UNCHANGED <<mass, amount, used>>
      BY <1>9 DEF Mine
    <2> HIDE DEF progress
    <2>2. miner' \in [active : BOOLEAN, box : Box, progress : Int] /\ miner'.box = miner.box /\ miner'.active = miner.active
      BY <1>3, <1>4, <2>1
    <2>3. MinerInv'
      BY <1>3, <2>1, <2>2 DEF MinerInv
    <2>4. amount' \in [Containers -> Int] /\ used' \in [Containers -> Int]
      BY <1>7, <2>1
    <2>5. CargoInv'
      BY <1>1, <2>4, HoldingsStep DEF ProductionInv
    <2>6. CalmInv'
      BY <1>1, <2>1, StageCalm DEF ProductionInv
    <2> QED
      BY <1>2, <2>3, <2>5, <2>6 DEF ProductionInv
  <1> QED
    BY <1>8, <1>9

(* Commands to the shipyard: a building process starts with nothing built *)
LEMMA YardCommandsInv ==
    ASSUME ProductionInv, (\E c \in Box : BindYard(c)) \/ (\E found \in BOOLEAN : StartBuild(found))
    PROVE  ProductionInv'
  <1> USE DEF ProductionInv
  <1>1. UNCHANGED <<cargoVars, mass, miner, ships, spent>>
    BY DEF BindYard, StartBuild
  <1>2. CargoInv' /\ CalmInv'
    BY <1>1, CargoStands
  <1>3. MinerInv'
    BY <1>1 DEF MinerInv
  <1>4. ASSUME NEW c \in Box, BindYard(c) PROVE YardInv'
    <2>1. yard' = [yard EXCEPT !.box = c]
      BY <1>4 DEF BindYard
    <2>2. yard' \in [active : BOOLEAN, box : Box, progress : 0 .. Labor, sinceInd : Int]
          /\ yard'.active = yard.active /\ yard'.progress = yard.progress
      BY <2>1 DEF YardInv
    <2> QED
      BY <1>1, <2>2 DEF YardInv, ShipsArePaid
  <1>5. ASSUME NEW found \in BOOLEAN, StartBuild(found) PROVE YardInv'
    <2>1. yard' = [yard EXCEPT !.active = found, !.progress = 0, !.sinceInd = 0] /\ ~yard.active
      BY <1>5 DEF StartBuild
    <2>2. 0 \in 0 .. Labor
      BY ProductionNumbers
    <2>3. yard' \in [active : BOOLEAN, box : Box, progress : 0 .. Labor, sinceInd : Int] /\ yard'.progress = 0
      <3>1. yard \in [active : BOOLEAN, box : Box, progress : 0 .. Labor, sinceInd : Int]
        BY DEF YardInv
      <3>2. yard' = [active |-> found, box |-> yard.box, progress |-> 0, sinceInd |-> 0]
        BY <2>1, <3>1
      <3> QED
        BY <2>2, <3>1, <3>2
    <2>4. spent = Labor * ships /\ Labor * ships \in Int
      BY <2>1, ProductionNumbers DEF YardInv, ShipsArePaid
    <2>5. spent = Labor * ships + (IF yard'.active THEN yard'.progress ELSE 0)
      BY <2>3, <2>4
    <2> QED
      BY <1>1, <2>3, <2>5 DEF YardInv, ShipsArePaid
  <1> QED
    BY <1>2, <1>3, <1>4, <1>5

(* What is built in an interval never exceeds the labor of the ship *)
LEMMA BuildNumbers ==
    ASSUME NEW span \in Nat, NEW p \in 0 .. Labor
    PROVE  Least(span, Labor - p) \in Nat /\ p + Least(span, Labor - p) \in 0 .. Labor
  BY ProductionNumbers DEF Least

(* The price of ships, when one is finished *)
LEMMA PriceOfOneMore ==
    ASSUME NEW n \in Nat PROVE Labor * (n + 1) = Labor * n + Labor /\ Labor * n \in Int
  BY ProductionNumbers

(* Fields of the shipyard after an interval *)
LEMMA YardGoesOn ==
    ASSUME NEW y \in [active : BOOLEAN, box : Box, progress : 0 .. Labor, sinceInd : Int],
           NEW p \in 0 .. Labor, NEW a \in BOOLEAN
    PROVE  /\ [y EXCEPT !.progress = p, !.active = a]
                 \in [active : BOOLEAN, box : Box, progress : 0 .. Labor, sinceInd : Int]
           /\ [y EXCEPT !.progress = p, !.active = a].progress = p
           /\ [y EXCEPT !.progress = p, !.active = a].active = a
  OBVIOUS

(* The shipyard pays for what it builds in an interval, or builds nothing *)
LEMMA BuildInv ==
    ASSUME ProductionInv, NEW span \in Spans, Build(span) PROVE ProductionInv'
  <1> DEFINE inc == Least(span, Labor - yard.progress)
             since == yard.sinceInd + span
             report == since > IndPeriod
             ind == IF report THEN since % IndPeriod ELSE since
             task == [yard EXCEPT !.sinceInd = ind]
             done == report /\ IsBuilt(yard.progress + inc)
             Yard == [active : BOOLEAN, box : Box, progress : 0 .. Labor, sinceInd : Int]
  <1>1. /\ phase = "build" /\ phase' = "cargo"
        /\ UNCHANGED <<portsVars, transfer, worker, dt, team, raced, mass, miner, lost>>
    BY DEF Build
  <1>2. MinerInv'
    BY <1>1 DEF ProductionInv, MinerInv
  <1>3. yard \in Yard /\ spent \in Int /\ ships \in Nat /\ ShipsArePaid
    BY DEF ProductionInv, YardInv
  <1>4. span \in Nat /\ yard.progress \in 0 .. Labor /\ yard.sinceInd \in Int
    BY <1>3, ProductionNumbers
  <1>5. inc \in Nat /\ yard.progress + inc \in 0 .. Labor
    BY <1>4, BuildNumbers
  <1>6. since \in Int /\ since % IndPeriod \in Int
    BY <1>4, ProductionNumbers
  <1>7. ind \in Int
    BY <1>6
  <1>8. amount \in [Containers -> Int] /\ used \in [Containers -> Int]
    BY DEF ProductionInv, CargoInv, CargoTypeOK
  <1> HIDE DEF ind, inc, since
  <1>9. task \in Yard /\ task.active = yard.active /\ task.progress = yard.progress /\ task.box = yard.box
    BY <1>3, <1>7
  <1>10. CASE yard.active /\ CanConsume(inc)
    <2> DEFINE rest == Max({amount[yard.box] - inc, 0})
               goesOn == ~done
               built == task.progress + inc
               new == [task EXCEPT !.progress = built, !.active = goesOn]
    <2>1. /\ amount' = [amount EXCEPT ![yard.box] = rest]
          /\ used' = [used EXCEPT ![yard.box] = amount'[yard.box]]
          /\ spent' = spent + inc
          /\ yard' = new
          /\ ships' = IF done THEN ships + 1 ELSE ships
      BY <1>10 DEF Build, inc, ind, since
    <2>2. yard.box \in Containers
      BY <1>3, <1>10, ProductionNumbers DEF CanConsume, Box
    <2>3. amount[yard.box] \in Int /\ amount[yard.box] - inc \in Int
      BY <1>5, <1>8, <2>2
    <2>4. {amount[yard.box] - inc, 0} = {0, amount[yard.box] - inc}
      OBVIOUS
    <2>5. rest \in Int /\ rest >= 0
      BY <2>3, <2>4, MaxZero
    <2> HIDE DEF rest
    <2>6. amount' \in [Containers -> Int] /\ used' = [used EXCEPT ![yard.box] = rest]
      BY <1>8, <2>1, <2>2, <2>5
    <2>7. used' \in [Containers -> Int]
      BY <1>8, <2>2, <2>5, <2>6
    <2>19. CargoInv'
      BY <1>1, <2>6, <2>7, HoldingsStep DEF ProductionInv
    <2>20. CalmInv'
      BY <1>1, <2>1, <2>2, <2>5, <2>6, HoldingsCalm DEF ProductionInv
    <2>8. CargoInv' /\ CalmInv'
      BY <2>19, <2>20
    <2>9. done \in BOOLEAN /\ (done <=> report /\ yard.progress + inc = Labor)
      BY DEF IsBuilt
    <2>16. goesOn \in BOOLEAN /\ (goesOn <=> ~done)
      BY <2>9
    <2>17. built = yard.progress + inc
      BY <1>9
    <2> HIDE DEF done, task, report, goesOn, built
    <2>10. built \in 0 .. Labor /\ goesOn \in BOOLEAN /\ task \in Yard
      BY <1>5, <1>9, <2>16, <2>17
    <2>18. new \in Yard /\ new.progress = built /\ new.active = goesOn
      BY <2>10, YardGoesOn
    <2> HIDE DEF new
    <2>11. new \in Yard /\ new.progress = yard.progress + inc
      BY <2>17, <2>18
    <2>12. new.active <=> ~done
      BY <2>16, <2>18
    <2>13. spent = Labor * ships + yard.progress
      BY <1>3, <1>10 DEF ShipsArePaid
    <2>14. CASE done
      <3>1. ships' = ships + 1 /\ ~yard'.active
        BY <2>1, <2>12, <2>14
      <3>2. spent + inc = Labor * (ships + 1)
        BY <1>3, <1>4, <1>5, <2>9, <2>13, <2>14, PriceOfOneMore
      <3>3. ShipsArePaid'
        BY <1>3, <2>1, <3>1, <3>2, ProductionNumbers DEF ShipsArePaid
      <3> QED
        BY <1>2, <1>3, <1>5, <2>1, <2>8, <2>11, <3>1, <3>3 DEF ProductionInv, YardInv
    <2>15. CASE ~done
      <3>1. ships' = ships /\ yard'.active
        BY <2>1, <2>12, <2>15
      <3>2. spent + inc = Labor * ships + (yard.progress + inc)
        BY <1>3, <1>4, <1>5, <2>13, PriceOfOneMore
      <3>3. ShipsArePaid'
        BY <2>1, <2>11, <3>1, <3>2 DEF ShipsArePaid
      <3> QED
        BY <1>2, <1>3, <1>5, <2>1, <2>8, <2>11, <3>1, <3>3 DEF ProductionInv, YardInv
    <2> QED
      BY <2>14, <2>15
  <1>11. CASE ~(yard.active /\ CanConsume(inc))
    <2>1. yard' \in {task, yard} /\ UNCHANGED <<amount, used, spent, ships>>
      BY <1>11 DEF Build, inc, ind, since
    <2> HIDE DEF task
    <2>2. yard' \in Yard /\ yard'.active = yard.active /\ yard'.progress = yard.progress
      BY <1>3, <1>9, <2>1
    <2>3. YardInv'
      BY <1>3, <2>1, <2>2 DEF YardInv, ShipsArePaid
    <2>4. amount' \in [Containers -> Int] /\ used' \in [Containers -> Int]
      BY <1>8, <2>1
    <2>5. CargoInv'
      BY <1>1, <2>4, HoldingsStep DEF ProductionInv
    <2>6. CalmInv'
      BY <1>1, <2>1, StageCalm DEF ProductionInv
    <2> QED
      BY <1>2, <2>3, <2>5, <2>6 DEF ProductionInv
  <1> QED
    BY <1>10, <1>11

(* The invariant of all three is inductive *)
LEMMA ProductionStep ==
    ASSUME ProductionInv, [ProductionNext]_productionVars PROVE ProductionInv'
  <1>1. CASE CargoNext /\ UNCHANGED <<mass, miner, yard, ships, spent>>
    <2>1. CargoInv' /\ CalmInv'
      BY <1>1, CargoStep, CargoCalm DEF ProductionInv
    <2>2. MinerInv' /\ YardInv'
      BY <1>1 DEF ProductionInv, MinerInv, YardInv, ShipsArePaid
    <2> QED
      BY <2>1, <2>2 DEF ProductionInv
  <1>2. CASE UNCHANGED productionVars
    <2>1. UNCHANGED <<cargoVars, mass, miner, yard, ships, spent>>
      BY <1>2 DEF productionVars
    <2>2. CargoInv' /\ CalmInv'
      BY <2>1, CargoStands DEF ProductionInv
    <2>3. MinerInv' /\ YardInv'
      BY <2>1 DEF ProductionInv, MinerInv, YardInv, ShipsArePaid
    <2> QED
      BY <2>2, <2>3 DEF ProductionInv
  <1> QED
    BY <1>1, <1>2, MinerCommandsInv, MineInv, YardCommandsInv, BuildInv DEF ProductionNext, Box

(* The invariant gives what the runs check *)
LEMMA ProductionGives == ProductionInv => TransfersAreExact /\ ShipsArePaid
  <1> SUFFICES ASSUME ProductionInv PROVE TransfersAreExact /\ ShipsArePaid
    OBVIOUS
  <1>1. PortsAreExact
    BY DEF ProductionInv, CargoInv, PortsInv, PortsAreExact
  <1>2. DeliveredToOwner
    BY ReceiverIsMeant DEF ProductionInv, DeliveredToOwner
  <1>3. NothingOverReserved
    BY SoundContainers DEF ProductionInv, CalmInv, Calm, TransferIsSound, NothingOverReserved
  <1> QED
    BY <1>1, <1>2, <1>3 DEF ProductionInv, YardInv, TransfersAreExact

(* However many containers transfer at once in however many threads, and however ports
   are closed and opened again in between, a transfer delivers what it has reserved to
   the container it was accepted for; ports and keys are never mixed up
   (ResourceContainer.cpp:42), and no transfer reserves more than it has left to deliver.
   A race for a container spoils amounts, which may become negative, but not this. *)
THEOREM TransfersStayExact == ProductionSpec => []TransfersAreExact
  BY ProductionStart, ProductionStep, ProductionGives, PTL DEF ProductionSpec

(* A ship costs what its blueprint says, for every labor, interval and period of reports,
   whenever the process is frozen, finished or started anew (Shipyard.cpp:28). *)
THEOREM ShipsStayPaid == ProductionSpec => []ShipsArePaid
  BY ProductionStart, ProductionStep, ProductionGives, PTL DEF ProductionSpec

-----------------------------------------------------------------------------
(* Sums over the containers.  SumFunctionOnSet folds a function over a set in an order
   that the set alone determines, so sums of different functions are compared step by
   step. The induction is on the set of the subsets of which a claim holds. *)

PickOf(s) == CHOOSE x \in s : TRUE

Sums(f, S, sum) ==
    sum = [s \in SUBSET S |-> IF s = {} THEN 0 ELSE f[PickOf(s)] + sum[s \ {PickOf(s)}]]

(* Induction on natural numbers *)
LEMMA NumbersInduction ==
    ASSUME NEW T, T \subseteq Nat, 0 \in T, \A n \in T : n + 1 \in T PROVE T = Nat
  <1> SUFFICES ASSUME Nat \ T # {} PROVE FALSE
    OBVIOUS
  <1> DEFINE m == Min(Nat \ T)
  <1>1. m \in Nat \ T /\ \A y \in Nat \ T : m <= y
    <2>1. Nat \ T \subseteq Nat
      OBVIOUS
    <2> QED
      BY <2>1, LeastNumber
  <1> HIDE DEF m
  <1>2. m # 0 /\ m - 1 \in Nat
    BY <1>1
  <1>3. m - 1 \in T
    BY <1>1, <1>2
  <1>4. (m - 1) + 1 = m
    BY <1>1
  <1> QED
    BY <1>1, <1>3, <1>4

(* Of a finite set something can be taken; what is left is smaller *)
LEMMA PickFacts ==
    ASSUME NEW S, IsFiniteSet(S), NEW s \in SUBSET S
    PROVE  /\ IsFiniteSet(s) /\ Cardinality(s) \in Nat /\ Cardinality(s) <= Cardinality(S)
           /\ s # {} => /\ PickOf(s) \in s /\ s \ {PickOf(s)} \in SUBSET S
                        /\ Cardinality(s \ {PickOf(s)}) = Cardinality(s) - 1
                        /\ Cardinality(s) > 0
           /\ Cardinality(S) \in Nat
  <1>1. IsFiniteSet(s) /\ Cardinality(s) \in Nat /\ Cardinality(s) <= Cardinality(S) /\ Cardinality(S) \in Nat
    BY FS_Subset, FS_CardinalityType
  <1>2. s # {} => PickOf(s) \in s /\ Cardinality(s) # 0
    BY <1>1, FS_EmptySet DEF PickOf
  <1>3. s # {} => Cardinality(s \ {PickOf(s)}) = Cardinality(s) - 1
    BY <1>1, <1>2, FS_RemoveElement
  <1> QED
    BY <1>1, <1>2, <1>3

(* Induction on the subsets of a finite set, in the order of picking *)
LEMMA SubsetsInduction ==
    ASSUME NEW S, IsFiniteSet(S), NEW T, {} \in T,
           \A s \in SUBSET S : s # {} /\ s \ {PickOf(s)} \in T => s \in T
    PROVE  SUBSET S \subseteq T
  <1> DEFINE N == {n \in Nat : \A s \in SUBSET S : Cardinality(s) = n => s \in T}
  <1>1. 0 \in N
    <2>1. \A s \in SUBSET S : Cardinality(s) = 0 => s = {}
      BY FS_Subset, FS_EmptySet
    <2> QED
      BY <2>1
  <1>2. ASSUME NEW n \in N PROVE n + 1 \in N
    <2> SUFFICES ASSUME NEW s \in SUBSET S, Cardinality(s) = n + 1 PROVE s \in T
      OBVIOUS
    <2>1. s # {} /\ s \ {PickOf(s)} \in SUBSET S /\ Cardinality(s \ {PickOf(s)}) = n
      <3>1. s # {}
        BY FS_EmptySet
      <3> QED
        BY <3>1, PickFacts
    <2> QED
      BY <2>1
  <1>3. N = Nat
    <2> HIDE DEF N
    <2>1. N \subseteq Nat
      BY DEF N
    <2> QED
      BY <1>1, <1>2, <2>1, NumbersInduction
  <1> QED
    BY <1>3, PickFacts

(* There is a sum of every subset *)
LEMMA SumsExist ==
    ASSUME NEW S, IsFiniteSet(S), NEW f \in [S -> Int]
    PROVE  \E sum \in [SUBSET S -> Int] : Sums(f, S, sum)
  <1> DEFINE Small(n) == {s \in SUBSET S : Cardinality(s) <= n}
             Next1(s, sum) == IF s = {} THEN 0 ELSE f[PickOf(s)] + sum[s \ {PickOf(s)}]
             N == {n \in Nat : \E sum \in [Small(n) -> Int] : \A s \in Small(n) : sum[s] = Next1(s, sum)}
  <1>1. 0 \in N
    <2> DEFINE sum == [s \in Small(0) |-> 0]
    <2>1. \A s \in Small(0) : s = {}
      <3>1. \A s \in SUBSET S : Cardinality(s) \in Nat /\ (s # {} => Cardinality(s) > 0)
        BY PickFacts
      <3> QED
        BY <3>1
    <2>2. sum \in [Small(0) -> Int] /\ \A s \in Small(0) : sum[s] = Next1(s, sum)
      BY <2>1
    <2> QED
      BY <2>2
  <1>2. ASSUME NEW n \in N PROVE n + 1 \in N
    <2>1. PICK old \in [Small(n) -> Int] : \A s \in Small(n) : old[s] = Next1(s, old)
      OBVIOUS
    <2> DEFINE new == [s \in Small(n + 1) |-> Next1(s, old)]
    <2>2. \A s \in Small(n + 1) : s # {} => PickOf(s) \in S /\ s \ {PickOf(s)} \in Small(n) /\ s \ {PickOf(s)} \in Small(n + 1)
      BY PickFacts
    <2>3. new \in [Small(n + 1) -> Int]
      BY <2>2
    <2>4. \A s \in Small(n) : s \in Small(n + 1) /\ new[s] = old[s]
      BY <2>1, PickFacts
    <2>5. \A s \in Small(n + 1) : new[s] = Next1(s, new)
      <3> HIDE DEF Small
      <3> SUFFICES ASSUME NEW s \in Small(n + 1) PROVE new[s] = Next1(s, new)
        OBVIOUS
      <3>1. s # {} => new[s \ {PickOf(s)}] = old[s \ {PickOf(s)}]
        BY <2>2, <2>4
      <3> QED
        BY <3>1
    <2> HIDE DEF new, Small, Next1
    <2> QED
      BY <2>3, <2>5
  <1>3. N = Nat
    <2> HIDE DEF N
    <2>1. N \subseteq Nat
      BY DEF N
    <2> QED
      BY <1>1, <1>2, <2>1, NumbersInduction
  <1>4. Cardinality(S) \in Nat /\ Small(Cardinality(S)) = SUBSET S
    BY PickFacts, FS_CardinalityType
  <1>5. PICK sum \in [SUBSET S -> Int] : \A s \in SUBSET S : sum[s] = Next1(s, sum)
    <2> HIDE DEF Small, Next1
    <2> QED
      BY <1>3, <1>4
  <1>6. sum = [s \in SUBSET S |-> Next1(s, sum)]
    BY <1>5
  <1> QED
    BY <1>6 DEF Sums

(* SumFunctionOnSet is such a sum *)
LEMMA SumIs ==
    ASSUME NEW S, IsFiniteSet(S), NEW f \in [S -> Int]
    PROVE  \E sum \in [SUBSET S -> Int] : Sums(f, S, sum) /\ SumFunctionOnSet(f, S) = sum[S]
  <1> DEFINE P(sum) == sum = [s \in SUBSET S |-> IF s = {} THEN 0
                                 ELSE f[CHOOSE x \in s : TRUE] + sum[s \ {CHOOSE x \in s : TRUE}]]
             total == CHOOSE sum : P(sum)
  <1>1. \E sum : P(sum)
    <2>1. PICK sum \in [SUBSET S -> Int] : Sums(f, S, sum)
      BY SumsExist
    <2>2. P(sum)
      BY <2>1 DEF Sums, PickOf
    <2> HIDE DEF P
    <2> QED
      BY <2>2
  <1>2. P(total)
    BY <1>1, Zenon
  <1>3. SumFunctionOnSet(f, S) = total[S]
    BY DEF SumFunctionOnSet, FoldFunctionOnSet, MapThenFoldSet
  <1>4. Sums(f, S, total)
    BY <1>2 DEF Sums, PickOf
  <1> HIDE DEF total
  <1>5. total \in [SUBSET S -> Int]
    <2> DEFINE T == {s \in SUBSET S : total[s] \in Int}
    <2>1. {} \in T
      BY <1>4 DEF Sums
    <2>2. ASSUME NEW s \in SUBSET S, s # {}, s \ {PickOf(s)} \in T PROVE s \in T
      <3>1. PickOf(s) \in S /\ total[s] = f[PickOf(s)] + total[s \ {PickOf(s)}]
        BY <1>4, <2>2, PickFacts DEF Sums
      <3> QED
        BY <2>2, <3>1
    <2>3. SUBSET S \subseteq T
      <3> HIDE DEF T
      <3> QED
        BY <2>1, <2>2, SubsetsInduction
    <2>4. total = [s \in SUBSET S |-> total[s]]
      BY <1>4 DEF Sums
    <2> QED
      BY <2>3, <2>4
  <1> QED
    BY <1>3, <1>4, <1>5

(* The equations of a sum *)
LEMMA SumOfSubset ==
    ASSUME NEW S, IsFiniteSet(S), NEW f, NEW sum, Sums(f, S, sum)
    PROVE  /\ sum[{}] = 0
           /\ \A s \in SUBSET S : s # {} => sum[s] = f[PickOf(s)] + sum[s \ {PickOf(s)}]
  BY DEF Sums

(* A sum changes by what one of its terms changes *)
LEMMA SumChanges ==
    ASSUME NEW S, IsFiniteSet(S), NEW f \in [S -> Int], NEW g \in [S -> Int], NEW c \in S,
           \A x \in S : x # c => g[x] = f[x]
    PROVE  /\ SumFunctionOnSet(f, S) \in Int
           /\ SumFunctionOnSet(g, S) = SumFunctionOnSet(f, S) + g[c] - f[c]
  <1>1. PICK a \in [SUBSET S -> Int] : Sums(f, S, a) /\ SumFunctionOnSet(f, S) = a[S]
    BY SumIs
  <1>2. PICK b \in [SUBSET S -> Int] : Sums(g, S, b) /\ SumFunctionOnSet(g, S) = b[S]
    BY SumIs
  <1> DEFINE T == {s \in SUBSET S : b[s] = a[s] + (IF c \in s THEN g[c] - f[c] ELSE 0)}
  <1>3. {} \in T
    BY <1>1, <1>2, SumOfSubset
  <1>4. ASSUME NEW s \in SUBSET S, s # {}, s \ {PickOf(s)} \in T PROVE s \in T
    <2> DEFINE p == PickOf(s)
    <2>1. p \in s /\ p \in S /\ s \ {p} \in SUBSET S
      BY <1>4, PickFacts
    <2>2. a[s] = f[p] + a[s \ {p}] /\ b[s] = g[p] + b[s \ {p}]
      BY <1>1, <1>2, <1>4, SumOfSubset
    <2>3. a[s \ {p}] \in Int /\ f[p] \in Int /\ g[p] \in Int /\ f[c] \in Int /\ g[c] \in Int
      BY <2>1
    <2>4. b[s \ {p}] = a[s \ {p}] + (IF c \in s \ {p} THEN g[c] - f[c] ELSE 0)
      BY <1>4
    <2> HIDE DEF p
    <2>5. CASE p = c
      <3>1. c \notin s \ {p} /\ c \in s
        BY <2>1, <2>5
      <3> QED
        BY <2>2, <2>3, <2>4, <2>5, <3>1
    <2>6. CASE p # c
      <3>1. (c \in s \ {p} <=> c \in s) /\ g[p] = f[p]
        BY <2>1, <2>6
      <3> QED
        BY <2>2, <2>3, <2>4, <3>1
    <2> QED
      BY <2>5, <2>6
  <1>5. SUBSET S \subseteq T
    <2> HIDE DEF T
    <2> QED
      BY <1>3, <1>4, SubsetsInduction
  <1>6. S \in SUBSET S
    OBVIOUS
  <1> QED
    BY <1>1, <1>2, <1>5, <1>6

(* The sum of a function that is v on some elements and 0 on the others *)
LEMMA SumOfEqual ==
    ASSUME NEW S, IsFiniteSet(S), NEW F \in SUBSET S, NEW v \in Nat
    PROVE  SumFunctionOnSet([x \in S |-> IF x \in F THEN v ELSE 0], S) = v * Cardinality(F)
  <1> DEFINE f == [x \in S |-> IF x \in F THEN v ELSE 0]
  <1>0. f \in [S -> Int]
    OBVIOUS
  <1>1. PICK a \in [SUBSET S -> Int] : Sums(f, S, a) /\ SumFunctionOnSet(f, S) = a[S]
    <2> HIDE DEF f
    <2> QED
      BY <1>0, SumIs
  <1> DEFINE T == {s \in SUBSET S : a[s] = v * Cardinality(s \cap F)}
  <1>3. {} \in T
    <2>1. {} \cap F = {} /\ v * 0 = 0
      OBVIOUS
    <2> QED
      BY <1>1, <2>1, SumOfSubset, FS_EmptySet
  <1>4. ASSUME NEW s \in SUBSET S, s # {}, s \ {PickOf(s)} \in T PROVE s \in T
    <2> DEFINE p == PickOf(s)
    <2>1. p \in s /\ p \in S /\ s \ {p} \in SUBSET S /\ s \cap F \in SUBSET S /\ IsFiniteSet(s \cap F)
      BY <1>4, PickFacts
    <2>2. a[s] = f[p] + a[s \ {p}]
      BY <1>1, <1>4, SumOfSubset
    <2>3. a[s \ {p}] = v * Cardinality((s \ {p}) \cap F)
      BY <1>4
    <2>4. (s \ {p}) \cap F = (s \cap F) \ {p}
      OBVIOUS
    <2>5. /\ Cardinality(s \cap F) \in Nat
          /\ Cardinality((s \cap F) \ {p}) = IF p \in F THEN Cardinality(s \cap F) - 1 ELSE Cardinality(s \cap F)
      BY <2>1, FS_RemoveElement, FS_CardinalityType
    <2>6. f[p] = IF p \in F THEN v ELSE 0
      BY <2>1
    <2> HIDE DEF p, f
    <2> DEFINE n == Cardinality(s \cap F)
    <2>7. n \in Nat => v + v * (n - 1) = v * n /\ 0 + v * n = v * n
      <3> HIDE DEF n
      <3> QED
        BY Z3
    <2>8. a[s] = v * Cardinality(s \cap F)
      BY <2>2, <2>3, <2>4, <2>5, <2>6, <2>7
    <2> QED
      BY <2>8
  <1>5. SUBSET S \subseteq T
    <2> HIDE DEF T
    <2> QED
      BY <1>3, <1>4, SubsetsInduction
  <1>6. S \in SUBSET S /\ S \cap F = F
    OBVIOUS
  <1> HIDE DEF f
  <1>7. SumFunctionOnSet(f, S) = v * Cardinality(F)
    BY <1>1, <1>5, <1>6
  <1> QED
    BY <1>7 DEF f

-----------------------------------------------------------------------------
(* Conservation of resources *)

Total == Stored(Containers) + Reserved(Containers) + mass + spent + lost

(* While no two threads have raced, nothing has been made or lost unnoticed *)
BalanceInv ==
    /\ lost \in Int
    /\ ~raced => Total = Mass + Volume * Cardinality(Filled)

(* One thread is in proceed() of one container at a time, and races with nobody *)
SoloInv ==
    team = 1 =>
        /\ ~raced
        /\ \A c, d \in Containers : worker[c].at \in Works /\ worker[d].at \in Works => c = d

ConservationInv == ProductionInv /\ BalanceInv /\ SoloInv

(* The total when one container's amount and one container's reserve have changed *)
LEMMA TotalKept ==
    ASSUME ProductionInv, ProductionInv', lost \in Int, lost' \in Int,
           NEW c \in Containers, NEW d \in Containers,
           \A x \in Containers : x # c => amount'[x] = amount[x],
           \A x \in Containers : x # d => transfer'[x].reserved = transfer[x].reserved,
           amount'[c] + transfer'[d].reserved + mass' + spent' + lost'
              = amount[c] + transfer[d].reserved + mass + spent + lost
    PROVE  Total' = Total
  <1> DEFINE f == [x \in Containers |-> transfer[x].reserved]
             g == [x \in Containers |-> transfer'[x].reserved]
  <1>1. IsFiniteSet(Containers)
    BY CargoAssumption
  <1>2. /\ amount \in [Containers -> Int] /\ amount' \in [Containers -> Int]
        /\ mass \in Int /\ mass' \in Int /\ spent \in Int /\ spent' \in Int
    BY DEF ProductionInv, CargoInv, CargoTypeOK, MinerInv, YardInv
  <1>3. f \in [Containers -> Int] /\ g \in [Containers -> Int]
    BY DEF ProductionInv, CargoInv, CargoTypeOK, TransferRecord
  <1>4. f[d] = transfer[d].reserved /\ g[d] = transfer'[d].reserved /\ \A x \in Containers : x # d => g[x] = f[x]
    OBVIOUS
  <1> HIDE DEF f, g
  <1>5. /\ SumFunctionOnSet(amount, Containers) \in Int
        /\ SumFunctionOnSet(amount', Containers) = SumFunctionOnSet(amount, Containers) + amount'[c] - amount[c]
    BY <1>1, <1>2, SumChanges
  <1>6. /\ SumFunctionOnSet(f, Containers) \in Int
        /\ SumFunctionOnSet(g, Containers) = SumFunctionOnSet(f, Containers) + g[d] - f[d]
    BY <1>1, <1>3, <1>4, SumChanges
  <1>7. amount[c] \in Int /\ amount'[c] \in Int /\ f[d] \in Int /\ g[d] \in Int
    BY <1>2, <1>3
  <1> DEFINE A == SumFunctionOnSet(amount, Containers)
             B == SumFunctionOnSet(amount', Containers)
             F == SumFunctionOnSet(f, Containers)
             G == SumFunctionOnSet(g, Containers)
  <1>8. Total = A + F + mass + spent + lost /\ Total' = B + G + mass' + spent' + lost'
    BY DEF Total, Stored, Reserved, f, g
  <1>9. A \in Int /\ F \in Int /\ B = A + amount'[c] - amount[c] /\ G = F + g[d] - f[d]
    BY <1>5, <1>6
  <1> HIDE DEF A, B, F, G
  <1> QED
    BY <1>2, <1>4, <1>7, <1>8, <1>9

(* The total when nothing has moved *)
LEMMA TotalSame ==
    ASSUME UNCHANGED <<amount, mass, spent, lost>>,
           \A x \in Containers : transfer'[x].reserved = transfer[x].reserved
    PROVE  Total' = Total
  <1>1. [x \in Containers |-> transfer'[x].reserved] = [x \in Containers |-> transfer[x].reserved]
    OBVIOUS
  <1> QED
    BY <1>1 DEF Total, Stored, Reserved

(* Commands, and steps that only read *)
LEMMA QuietBalance ==
    ASSUME ConservationInv, UNCHANGED <<amount, mass, spent, lost, raced>>,
           \A x \in Containers : transfer'[x].reserved = transfer[x].reserved
    PROVE  BalanceInv'
  BY TotalSame DEF ConservationInv, BalanceInv

(* proceed() ends a transfer: what was reserved goes back or is lost *)
LEMMA AbortsBalance ==
    ASSUME ConservationInv, ProductionInv', NEW c \in Containers, ProceedAborts(c),
           UNCHANGED <<mass, spent>>
    PROVE  BalanceInv'
  <1> DEFINE reserved == transfer[c].reserved
             back == IF reserved > 0 THEN Fits(reserved, used[c]) ELSE 0
  <1>1. /\ amount' = [amount EXCEPT ![c] = @ + back]
        /\ transfer' = [transfer EXCEPT ![c] = NoTransfer]
        /\ lost' = lost + reserved - back /\ raced' = raced
    BY DEF ProceedAborts, Terminate
  <1>2. /\ amount \in [Containers -> Int] /\ used[c] \in Int /\ reserved \in Int /\ lost \in Int
        /\ mass \in Int /\ spent \in Int
    BY SoundContainers DEF ConservationInv, ProductionInv, BalanceInv, MinerInv, YardInv
  <1>3. back \in Int
    <2>1. Fits(reserved, used[c]) \in Int
      BY <1>2, FitsNumbers
    <2> QED
      BY <2>1
  <1>4. transfer'[c].reserved = 0 /\ \A x \in Containers : x # c => transfer'[x].reserved = transfer[x].reserved
    BY <1>1, Standing DEF ConservationInv, ProductionInv, CargoInv, CargoTypeOK
  <1> HIDE DEF back, reserved
  <1>5. amount'[c] = amount[c] + back /\ \A x \in Containers : x # c => amount'[x] = amount[x]
    BY <1>1, <1>2
  <1>6. lost' \in Int /\ amount[c] \in Int
    BY <1>1, <1>2, <1>3
  <1>7. amount'[c] + transfer'[c].reserved + mass' + spent' + lost'
           = amount[c] + reserved + mass + spent + lost
    BY <1>1, <1>2, <1>3, <1>4, <1>5, <1>6
  <1>8. Total' = Total
    BY <1>2, <1>4, <1>5, <1>6, <1>7, TotalKept DEF ConservationInv, reserved
  <1> QED
    BY <1>1, <1>6, <1>8 DEF ConservationInv, BalanceInv

(* What a thread has read is still there when it writes *)
LEMMA ReadIsThere ==
    ASSUME CargoInv, Calm, NEW c \in Containers
    PROVE  /\ worker[c].at = "amount read" => worker[c].read = amount[c]
           /\ worker[c].at = "amount found" => Receiver(c) \in Containers /\ worker[c].read = amount[Receiver(c)]
  <1>1. CASE worker[c].at = "amount read"
    <2>1. AtWork(c) /\ Touched(c) = c
      BY <1>1 DEF AtWork, Touched, Takes
    <2> QED
      BY <1>1, <2>1 DEF Calm, Moving
  <1>2. CASE worker[c].at = "amount found"
    <2>1. AtWork(c) /\ Touched(c) = Receiver(c)
      BY <1>2 DEF AtWork, Touched, Takes, Adds
    <2> QED
      BY <1>2, <2>1, TouchedIsContainer DEF Calm, Moving
  <1> QED
    BY <1>1, <1>2

(* What is consumed is reserved *)
LEMMA TakesAmountBalance ==
    ASSUME ConservationInv, ProductionInv', NEW c \in Containers, ProceedTakesAmount(c),
           UNCHANGED <<mass, spent>>
    PROVE  BalanceInv'
  <1> DEFINE n == worker[c].n
  <1>1. /\ worker[c].at = "amount read"
        /\ amount' = [amount EXCEPT ![c] = worker[c].read - n]
        /\ transfer' = [transfer EXCEPT ![c].reserved = @ + n]
        /\ raced' = raced /\ lost' = lost
    BY DEF ProceedTakesAmount
  <1>2. /\ amount \in [Containers -> Int] /\ amount[c] \in Int /\ n \in Int /\ transfer[c].reserved \in Int
        /\ lost \in Int /\ mass \in Int /\ spent \in Int
    BY SoundContainers DEF ConservationInv, ProductionInv, BalanceInv, MinerInv, YardInv
  <1> HIDE DEF n
  <1>3. /\ transfer'[c].reserved = transfer[c].reserved + n
        /\ \A x \in Containers : x # c => transfer'[x].reserved = transfer[x].reserved
    BY <1>1 DEF ConservationInv, ProductionInv, CargoInv, CargoTypeOK, TransferRecord
  <1>4. ASSUME ~raced' PROVE ~raced /\ Total' = Total
    <2>1. ~raced /\ worker[c].read = amount[c]
      BY <1>1, <1>4, ReadIsThere DEF ConservationInv, ProductionInv, CalmInv
    <2>2. amount'[c] = amount[c] - n /\ \A x \in Containers : x # c => amount'[x] = amount[x]
      BY <1>1, <1>2, <2>1
    <2>4. mass' = mass /\ spent' = spent /\ lost' = lost /\ transfer'[c].reserved = transfer[c].reserved + n
          /\ amount'[c] = amount[c] - n
      BY <1>1, <1>3, <2>2
    <2>3. amount'[c] + transfer'[c].reserved + mass' + spent' + lost'
             = amount[c] + transfer[c].reserved + mass + spent + lost
      BY <1>2, <2>4
    <2> QED
      BY <1>1, <1>2, <1>3, <2>1, <2>2, <2>3, TotalKept DEF ConservationInv
  <1> QED
    BY <1>1, <1>2, <1>4 DEF ConservationInv, BalanceInv

(* What is put was reserved *)
LEMMA AddsAmountBalance ==
    ASSUME ConservationInv, ProductionInv', NEW c \in Containers, ProceedAddsAmount(c),
           UNCHANGED <<mass, spent>>
    PROVE  BalanceInv'
  <1> DEFINE n == worker[c].n
             r == Receiver(c)
             t == [transfer[c] EXCEPT !.left = transfer[c].left - n, !.reserved = transfer[c].reserved - n]
  <1>1. /\ worker[c].at = "amount found"
        /\ amount' = [amount EXCEPT ![r] = worker[c].read + n]
        /\ raced' = raced /\ lost' = lost
    BY DEF ProceedAddsAmount
  <1>2. transfer' = [transfer EXCEPT ![c] = t]
    BY DEF ProceedAddsAmount
  <1>3. /\ amount \in [Containers -> Int] /\ n \in Int /\ transfer[c].reserved \in Int
        /\ lost \in Int /\ mass \in Int /\ spent \in Int
    BY SoundContainers DEF ConservationInv, ProductionInv, BalanceInv, MinerInv, YardInv
  <1>4. t.reserved = transfer[c].reserved - n
    BY SoundContainers DEF ConservationInv, ProductionInv, TransferRecord
  <1> HIDE DEF n, r, t
  <1>5. /\ transfer'[c].reserved = transfer[c].reserved - n
        /\ \A x \in Containers : x # c => transfer'[x].reserved = transfer[x].reserved
    BY <1>2, <1>4 DEF ConservationInv, ProductionInv, CargoInv, CargoTypeOK
  <1>6. ASSUME ~raced' PROVE ~raced /\ Total' = Total
    <2>1. ~raced /\ r \in Containers /\ worker[c].read = amount[r]
      BY <1>1, <1>6, ReadIsThere DEF ConservationInv, ProductionInv, CalmInv, r
    <2>2. amount[r] \in Int /\ amount'[r] = amount[r] + n /\ \A x \in Containers : x # r => amount'[x] = amount[x]
      BY <1>1, <1>3, <2>1
    <2>4. mass' = mass /\ spent' = spent /\ lost' = lost /\ transfer'[c].reserved = transfer[c].reserved - n
          /\ amount'[r] = amount[r] + n
      BY <1>1, <1>5, <2>2
    <2>3. amount'[r] + transfer'[c].reserved + mass' + spent' + lost'
             = amount[r] + transfer[c].reserved + mass + spent + lost
      BY <1>3, <2>2, <2>4
    <2> QED
      BY <1>1, <1>3, <1>5, <2>1, <2>2, <2>3, TotalKept DEF ConservationInv
  <1> QED
    BY <1>1, <1>3, <1>6 DEF ConservationInv, BalanceInv

(* A transfer with nothing left has nothing reserved *)
LEMMA AddsSpaceBalance ==
    ASSUME ConservationInv, NEW c \in Containers, ProceedAddsSpace(c), UNCHANGED <<mass, spent>>
    PROVE  BalanceInv'
  <1> DEFINE new == IF transfer[c].left = 0 THEN NoTransfer ELSE transfer[c]
  <1>1. UNCHANGED <<amount, lost, raced>>
    BY DEF ProceedAddsSpace
  <1>2. transfer' = [transfer EXCEPT ![c] = new]
    BY SoundContainers DEF ProceedAddsSpace, ConservationInv, ProductionInv
  <1>3. ASSUME ~raced' PROVE Total' = Total
    <2>1. transfer[c].reserved >= 0 /\ transfer[c].reserved <= transfer[c].left
      BY <1>1, <1>3, SoundContainers DEF ConservationInv, ProductionInv, CalmInv, Calm, TransferIsSound
    <2>2. transfer[c].reserved \in Int /\ transfer[c].left \in Int
      BY SoundContainers DEF ConservationInv, ProductionInv
    <2>3. new.reserved = transfer[c].reserved
      BY <2>1, <2>2, Standing
    <2> HIDE DEF new
    <2>4. \A x \in Containers : transfer'[x].reserved = transfer[x].reserved
      BY <1>2, <2>3 DEF ConservationInv, ProductionInv, CargoInv, CargoTypeOK
    <2> QED
      BY <1>1, <2>4, TotalSame
  <1> QED
    BY <1>1, <1>3 DEF ConservationInv, BalanceInv

(* Nothing is there that clamping would take away *)
LEMMA ClampsBalance ==
    ASSUME ConservationInv, NEW c \in Containers, ProceedClamps(c), UNCHANGED <<mass, spent>>
    PROVE  BalanceInv'
  <1>1. UNCHANGED <<transfer, lost, raced>>
    BY DEF ProceedClamps
  <1>2. ASSUME ~raced' PROVE Total' = Total
    BY <1>1, <1>2, ClampsNothing, TotalSame DEF ConservationInv, ProductionInv, CalmInv
  <1> QED
    BY <1>1, <1>2 DEF ConservationInv, BalanceInv

(* The sum of what a mined portion changes *)
LEMMA MinedSum ==
    ASSUME NEW a \in Int, NEW put \in Int, NEW r \in Int, NEW left \in Int, NEW mined \in Int,
           NEW stones \in Int, NEW s \in Int, NEW l \in Int
    PROVE  (a + put) + r + left + s + (l + stones + mined - put) = a + r + (left + mined + stones) + s + l
  OBVIOUS

(* What has been mined is in the container or lost *)
LEMMA MineBalance ==
    ASSUME ConservationInv, ProductionInv', NEW span \in Spans, NEW stones \in 0 .. YieldPerCycle,
           Mine(span, stones)
    PROVE  BalanceInv'
  <1> DEFINE yield == Yield(stones)
             put == IF yield.mined > 0 THEN Fits(yield.mined, used[miner.box]) ELSE 0
             box == miner.box
             cycle == miner.active /\ miner.progress + span >= CycleTime
  <1>1. stones <= Least(YieldPerCycle, mass) /\ UNCHANGED <<transfer, raced, spent>>
    BY DEF Mine
  <1>2. /\ mass \in Nat /\ mass' \in Int /\ spent \in Int /\ lost \in Int /\ stones \in Nat
        /\ amount \in [Containers -> Int] /\ used \in [Containers -> Int]
    BY ProductionNumbers DEF ConservationInv, ProductionInv, CargoInv, CargoTypeOK, BalanceInv, MinerInv, YardInv
  <1>3. CASE ~cycle
    <2>1. UNCHANGED <<mass, amount, lost>>
      BY <1>3 DEF Mine
    <2> QED
      BY <1>1, <2>1, QuietBalance
  <1>4. CASE cycle
    <2>1. /\ mass' = yield.left
          /\ amount' = [amount EXCEPT ![box] = @ + put]
          /\ lost' = lost + stones + yield.mined - put
      BY <1>4 DEF Mine
    <2>2. box \in Containers
      BY <1>4, ProductionNumbers DEF ConservationInv, ProductionInv, MinerInv
    <2>3. yield.left \in Nat /\ yield.mined \in Nat /\ yield.left + yield.mined + stones = mass
      <3>1. yield.left + yield.mined + stones = mass
        BY <1>1, <1>2, ProductionNumbers DEF Yield, Least
      <3> QED
        BY <1>1, <1>2, <3>1, YieldNumbers
    <2>4. used[box] \in Int /\ amount[box] \in Int
      BY <1>2, <2>2
    <2> HIDE DEF yield
    <2>5. put \in Int
      <3>1. Fits(yield.mined, used[box]) \in Int
        BY <2>3, <2>4, FitsMined
      <3> QED
        BY <3>1
    <2> HIDE DEF put, box
    <2>6. amount'[box] = amount[box] + put /\ \A x \in Containers : x # box => amount'[x] = amount[x]
      BY <1>2, <2>1, <2>2
    <2>7. lost' \in Int
      BY <1>2, <2>1, <2>3, <2>5
    <2>8. transfer[box].reserved \in Int
      BY <2>2 DEF ConservationInv, ProductionInv, CargoInv, CargoTypeOK, TransferRecord
    <2>11. /\ mass' = yield.left /\ spent' = spent /\ lost' = lost + stones + yield.mined - put
           /\ amount'[box] = amount[box] + put /\ transfer'[box].reserved = transfer[box].reserved
      BY <1>1, <2>1, <2>6
    <2>12. yield.left \in Int /\ yield.mined \in Int /\ stones \in Int /\ mass = yield.left + yield.mined + stones
      BY <1>2, <2>3
    <2>9. amount'[box] + transfer'[box].reserved + mass' + spent' + lost'
             = amount[box] + transfer[box].reserved + mass + spent + lost
      <3> DEFINE r == transfer[box].reserved
                 left == yield.left
                 mined == yield.mined
      <3>1. amount'[box] + transfer'[box].reserved + mass' + spent' + lost'
               = (amount[box] + put) + r + left + spent + (lost + stones + mined - put)
        BY <2>11
      <3>2. /\ amount[box] \in Int /\ put \in Int /\ r \in Int /\ left \in Int /\ mined \in Int
            /\ stones \in Int /\ spent \in Int /\ lost \in Int /\ mass = left + mined + stones
        BY <1>2, <2>4, <2>5, <2>8, <2>12
      <3> HIDE DEF r, left, mined
      <3>3. (amount[box] + put) + r + left + spent + (lost + stones + mined - put)
               = amount[box] + r + (left + mined + stones) + spent + lost
        BY <3>2, MinedSum
      <3> QED
        BY <3>1, <3>2, <3>3 DEF r
    <2>10. Total' = Total
      BY <1>1, <1>2, <2>2, <2>6, <2>7, <2>9, TotalKept DEF ConservationInv
    <2> QED
      BY <1>1, <2>7, <2>10 DEF ConservationInv, BalanceInv
  <1> QED
    BY <1>3, <1>4

(* What the shipyard takes is spent *)
LEMMA BuildBalance ==
    ASSUME ConservationInv, ProductionInv', NEW span \in Spans, Build(span)
    PROVE  BalanceInv'
  <1> DEFINE inc == Least(span, Labor - yard.progress)
             box == yard.box
  <1>1. UNCHANGED <<transfer, raced, mass, lost>>
    BY DEF Build
  <1>2. /\ mass \in Int /\ spent \in Int /\ lost \in Int /\ amount \in [Containers -> Int]
        /\ yard.progress \in 0 .. Labor /\ span \in Nat
    BY ProductionNumbers DEF ConservationInv, ProductionInv, CargoInv, CargoTypeOK, BalanceInv, MinerInv, YardInv
  <1>3. inc \in Nat
    BY <1>2, BuildNumbers
  <1>4. CASE ~(yard.active /\ CanConsume(inc))
    <2>1. UNCHANGED <<amount, spent>>
      BY <1>4 DEF Build
    <2> QED
      BY <1>1, <2>1, QuietBalance
  <1>5. CASE yard.active /\ CanConsume(inc)
    <2>1. amount' = [amount EXCEPT ![box] = Max({@ - inc, 0})] /\ spent' = spent + inc
      BY <1>5 DEF Build
    <2>2. box \in Containers
      BY <1>5, ProductionNumbers DEF ConservationInv, ProductionInv, YardInv, CanConsume, Box
    <2>3. amount[box] \in Int /\ amount[box] >= inc
      BY <1>2, <1>5, <2>2 DEF CanConsume
    <2> HIDE DEF inc, box
    <2>4. Max({amount[box] - inc, 0}) = amount[box] - inc
      <3>1. amount[box] - inc \in Int /\ amount[box] - inc >= 0 /\ {amount[box] - inc, 0} = {0, amount[box] - inc}
        BY <1>3, <2>3
      <3> QED
        BY <3>1, MaxZero
    <2>5. amount'[box] = amount[box] - inc /\ \A x \in Containers : x # box => amount'[x] = amount[x]
      BY <1>2, <2>1, <2>2, <2>4
    <2>6. transfer[box].reserved \in Int
      BY <2>2 DEF ConservationInv, ProductionInv, CargoInv, CargoTypeOK, TransferRecord
    <2>7. amount'[box] + transfer'[box].reserved + mass' + spent' + lost'
             = amount[box] + transfer[box].reserved + mass + spent + lost
      BY <1>1, <1>2, <1>3, <2>1, <2>3, <2>5, <2>6
    <2>8. Total' = Total
      BY <1>1, <1>2, <2>2, <2>5, <2>7, TotalKept DEF ConservationInv
    <2> QED
      BY <1>1, <1>2, <2>8 DEF ConservationInv, BalanceInv
  <1> QED
    BY <1>4, <1>5

(* With one thread, nobody is in proceed() when a container is taken from the list *)
LEMMA OneThreadStarts ==
    ASSUME team = 1, NEW c \in Containers, MayStart(c)
    PROVE  \A d \in Containers : worker[d].at \notin Works
  <1> DEFINE B == {d \in Containers : worker[d].at \in Works}
  <1>1. IsFiniteSet(B) /\ Cardinality(B) \in Nat /\ Cardinality(B) < 1
    BY CargoAssumption, FS_Subset, FS_CardinalityType DEF MayStart
  <1>2. B = {}
    BY <1>1, FS_EmptySet
  <1> QED
    BY <1>2

(* One thread alone cannot race, nor leave the stage with a thread that works *)
LEMMA NobodyRaces ==
    ASSUME SoloInv, raced' = raced, team' = team,
           team = 1 => \A c \in Containers : worker'[c].at \notin Works
    PROVE  SoloInv'
  BY DEF SoloInv

(* A step of one thread, which has been the only one *)
LEMMA SoloWork ==
    ASSUME CargoInv, SoloInv, NEW c \in Containers, NEW w, worker' = [worker EXCEPT ![c] = w], team' = team,
           team = 1 => /\ ~raced'
                       /\ \A d \in Containers : worker[d].at \in Works => d = c
    PROVE  SoloInv'
  <1>1. \A d \in Containers : d # c => worker'[d] = worker[d]
    BY DEF CargoInv, CargoTypeOK
  <1> QED
    BY <1>1 DEF SoloInv

(* One thread alone goes from step to step and meets nobody *)
LEMMA SoloStep ==
    ASSUME CargoInv, SoloInv, CargoNext PROVE SoloInv'
  <1>1. ASSUME NEW c \in Containers,
               OpenPort(c) \/ ClosePort(c) \/ \E id \in PortIds, n \in Orders : Transfer(c, id, n)
        PROVE  SoloInv'
    <2>1. phase = "cargo" /\ UNCHANGED <<worker, raced, team>>
      BY <1>1 DEF OpenPort, ClosePort, Transfer
    <2> QED
      BY <2>1, NobodyWorks, NobodyRaces
  <1>2. ASSUME NEW c \in Containers, ProceedAborts(c) PROVE SoloInv'
    <2>1. MayStart(c) /\ worker' = [worker EXCEPT ![c] = Away] /\ UNCHANGED <<raced, team>>
      BY <1>2 DEF ProceedAborts, Terminate
    <2>2. team = 1 => ~raced' /\ \A d \in Containers : worker[d].at \in Works => d = c
      BY <2>1, OneThreadStarts DEF SoloInv
    <2> QED
      BY <2>1, <2>2, SoloWork
  <1>3. ASSUME NEW c \in Containers, ProceedCounts(c) PROVE SoloInv'
    <2> DEFINE w == [at |-> "counted", n |-> Least(amount[c], Portion(c)), read |-> 0]
    <2>1. /\ MayStart(c) /\ team' = team /\ raced' = (raced \/ Locked(c))
          /\ worker' = [worker EXCEPT ![c] = w]
      BY <1>3 DEF ProceedCounts
    <2>2. team = 1 => \A d \in Containers : worker[d].at \notin Works
      BY <2>1, OneThreadStarts
    <2>3. team = 1 => ~Locked(c)
      BY <2>2, Standing DEF Locked
    <2> HIDE DEF w
    <2>4. team = 1 => ~raced' /\ \A d \in Containers : worker[d].at \in Works => d = c
      BY <2>1, <2>2, <2>3 DEF SoloInv
    <2> QED
      BY <2>1, <2>4, SoloWork
  <1>4. ASSUME NEW c \in Containers, NEW w, worker[c].at \in Works, worker' = [worker EXCEPT ![c] = w],
               team' = team, team = 1 => ~raced'
        PROVE  SoloInv'
    <2>1. team = 1 => \A d \in Containers : worker[d].at \in Works => d = c
      BY <1>4 DEF SoloInv
    <2> QED
      BY <1>4, <2>1, SoloWork
  <1>5. ASSUME NEW c \in Containers, ProceedLoads(c) PROVE SoloInv'
    <2>1. ASSUME NEW before, NEW after, NEW value, Load(c, before, after, value), before \in Works PROVE SoloInv'
      <3> DEFINE w == [worker[c] EXCEPT !.at = after, !.read = value]
      <3>1. worker[c].at \in Works /\ team' = team /\ raced' = raced
        BY <2>1 DEF Load
      <3>2. worker' = [worker EXCEPT ![c] = w]
        BY <2>1 DEF Load
      <3> HIDE DEF w
      <3> QED
        BY <1>4, <3>1, <3>2 DEF SoloInv
    <2>2. {"counted", "space taken", "locked", "amount added"} \subseteq Works
      BY DEF Works, Takes, Adds
    <2> QED
      BY <1>5, <2>1, <2>2 DEF ProceedLoads
  <1>6. ASSUME NEW c \in Containers,
               ProceedTakesSpace(c) \/ ProceedTakesAmount(c) \/ ProceedClamps(c) \/ ProceedAddsAmount(c)
        PROVE  SoloInv'
    <2>1. PICK at : worker' = [worker EXCEPT ![c].at = at]
      BY <1>6 DEF ProceedTakesSpace, ProceedTakesAmount, ProceedClamps, ProceedAddsAmount
    <2>2. team' = team /\ raced' = raced
      BY <1>6 DEF ProceedTakesSpace, ProceedTakesAmount, ProceedClamps, ProceedAddsAmount
    <2>3. worker[c].at \in {"space read", "amount read", "amount taken", "amount found"}
      BY <1>6 DEF ProceedTakesSpace, ProceedTakesAmount, ProceedClamps, ProceedAddsAmount
    <2>4. worker[c].at \in Works
      BY <2>3 DEF Works, Takes, Adds
    <2> DEFINE w == [worker[c] EXCEPT !.at = at]
    <2>5. worker' = [worker EXCEPT ![c] = w]
      BY <2>1
    <2> HIDE DEF w
    <2> QED
      BY <1>4, <2>2, <2>4, <2>5 DEF SoloInv
  <1>7. ASSUME NEW c \in Containers, ProceedLocks(c) PROVE SoloInv'
    <2> DEFINE r == Receiver(c)
               w == [at |-> "locked", n |-> Fits(transfer[c].reserved, used[r]), read |-> 0]
    <2>1. /\ worker[c].at = "puts" /\ worker' = [worker EXCEPT ![c] = w] /\ team' = team
          /\ raced' = (raced \/ worker[r].at \in Takes)
      BY <1>7 DEF ProceedLocks
    <2>2. worker[c].at \in Works /\ worker[c].at \notin Takes
      BY <2>1 DEF Works, Takes
    <2>3. r \in Containers
      BY <2>2, ReceiverIsMeant
    <2> HIDE DEF r, w
    <2>4. team = 1 => ~raced'
      BY <2>1, <2>2, <2>3, Standing DEF SoloInv
    <2> QED
      BY <1>4, <2>1, <2>2, <2>4
  <1>8. ASSUME NEW c \in Containers, ProceedAddsSpace(c) PROVE SoloInv'
    <2>1. /\ worker[c].at = "space found" /\ worker' = [worker EXCEPT ![c] = Away]
          /\ team' = team /\ raced' = raced
      BY <1>8 DEF ProceedAddsSpace
    <2>2. worker[c].at \in Works
      BY <2>1 DEF Works, Adds
    <2> QED
      BY <1>4, <2>1, <2>2 DEF SoloInv
  <1>9. ASSUME NEW span \in Spans, StartCargo(span) PROVE SoloInv'
    <2>1. UNCHANGED <<raced, team>>
          /\ worker' = [c \in Containers |-> IF transfer[c] # NoTransfer /\ span > 0
                                             THEN [Away EXCEPT !.at = "waits"] ELSE Away]
      BY <1>9 DEF StartCargo
    <2>2. \A c \in Containers : worker'[c].at \in {"waits", "away"}
      BY <2>1 DEF Away
    <2>3. \A c \in Containers : worker'[c].at \notin Works
      BY <2>2, Standing
    <2> QED
      BY <2>1, <2>3, NobodyRaces
  <1>10. CASE StopCargo
    <2>1. UNCHANGED <<worker, raced, team>> /\ \A c \in Containers : worker[c] = Away
      BY <1>10 DEF StopCargo
    <2>2. \A c \in Containers : worker'[c].at \notin Works
      BY <2>1, Standing
    <2> QED
      BY <2>1, <2>2, NobodyRaces
  <1> QED
    BY <1>1, <1>2, <1>3, <1>5, <1>6, <1>7, <1>8, <1>9, <1>10 DEF CargoNext

(* Transfers keep the balance *)
LEMMA CargoBalance ==
    ASSUME ConservationInv, ProductionInv', CargoNext, UNCHANGED <<mass, spent>> PROVE BalanceInv'
  <1>1. ASSUME NEW c \in Containers, NEW id \in PortIds, NEW n \in Orders, Transfer(c, id, n) PROVE BalanceInv'
    <2>1. /\ transfer[c] = NoTransfer /\ UNCHANGED <<amount, lost, raced>>
          /\ transfer' = [transfer EXCEPT ![c] = [port |-> id, key |-> ports[id].key, left |-> n,
                                                  reserved |-> 0, to |-> ports[id].owner]]
      BY <1>1 DEF Transfer
    <2>2. transfer[c].reserved = 0 /\ transfer'[c].reserved = 0
      BY <2>1, Standing DEF ConservationInv, ProductionInv, CargoInv, CargoTypeOK
    <2>3. \A x \in Containers : x # c => transfer'[x] = transfer[x]
      BY <2>1 DEF ConservationInv, ProductionInv, CargoInv, CargoTypeOK
    <2>4. \A x \in Containers : transfer'[x].reserved = transfer[x].reserved
      BY <2>2, <2>3
    <2> QED
      BY <2>1, <2>4, QuietBalance
  <1>2. ASSUME UNCHANGED <<amount, transfer, lost, raced>> PROVE BalanceInv'
    BY <1>2, QuietBalance
  <1>3. ASSUME NEW c \in Containers,
               OpenPort(c) \/ ClosePort(c) \/ ProceedLoads(c) \/ ProceedTakesSpace(c)
        PROVE  BalanceInv'
    BY <1>2, <1>3 DEF OpenPort, ClosePort, ProceedLoads, Load, ProceedTakesSpace
  <1>5. ASSUME NEW c \in Containers, ProceedCounts(c) \/ ProceedLocks(c) PROVE BalanceInv'
    <2>1. UNCHANGED <<amount, transfer, lost>> /\ (raced => raced')
      BY <1>5 DEF ProceedCounts, ProceedLocks
    <2>2. Total' = Total
      BY <2>1, TotalSame
    <2> QED
      BY <2>1, <2>2 DEF ConservationInv, BalanceInv
  <1>4. ASSUME (\E span \in Spans : StartCargo(span)) \/ StopCargo PROVE BalanceInv'
    BY <1>2, <1>4 DEF StartCargo, StopCargo
  <1> QED
    BY <1>1, <1>3, <1>4, <1>5, AbortsBalance, TakesAmountBalance, ClampsBalance, AddsAmountBalance,
       AddsSpaceBalance DEF CargoNext

(* The invariant is inductive *)
LEMMA ConservationStep ==
    ASSUME ConservationInv, [ProductionNext]_productionVars PROVE ConservationInv'
  <1>1. ProductionInv'
    BY ProductionStep DEF ConservationInv
  <1>2. CASE CargoNext /\ UNCHANGED <<mass, miner, yard, ships, spent>>
    BY <1>1, <1>2, CargoBalance, SoloStep DEF ConservationInv, ProductionInv
  <1>3. ASSUME UNCHANGED <<cargoVars, mass, spent>> PROVE ConservationInv'
    <2>1. UNCHANGED <<amount, transfer, worker, ports, team, lost, raced, mass, spent>>
      BY <1>3 DEF cargoVars
    <2>2. SoloInv'
      BY <2>1 DEF ConservationInv, SoloInv
    <2> QED
      BY <1>1, <2>1, <2>2, QuietBalance DEF ConservationInv
  <1>4. CASE UNCHANGED productionVars
    BY <1>3, <1>4 DEF productionVars
  <1>5. CASE \/ \E c \in Aboard : BindMiner(c)
             \/ StartMining \/ StopMining
             \/ \E c \in Aboard \cup {NoBox} : BindYard(c)
             \/ \E found \in BOOLEAN : StartBuild(found)
    BY <1>3, <1>5 DEF BindMiner, StartMining, StopMining, BindYard, StartBuild
  <1>6. ASSUME NEW span \in Spans, NEW stones \in 0 .. YieldPerCycle, Mine(span, stones) PROVE ConservationInv'
    <2>1. phase # "transfer" /\ UNCHANGED <<worker, team, raced>>
      BY <1>6 DEF Mine
    <2>2. SoloInv'
      BY <2>1, NobodyWorks, NobodyRaces DEF ConservationInv, ProductionInv
    <2> QED
      BY <1>1, <1>6, <2>2, MineBalance DEF ConservationInv
  <1>7. ASSUME NEW span \in Spans, Build(span) PROVE ConservationInv'
    <2>1. phase # "transfer" /\ UNCHANGED <<worker, team, raced>>
      BY <1>7 DEF Build
    <2>2. SoloInv'
      BY <2>1, NobodyWorks, NobodyRaces DEF ConservationInv, ProductionInv
    <2> QED
      BY <1>1, <1>7, <2>2, BuildBalance DEF ConservationInv
  <1> QED
    BY <1>2, <1>4, <1>5, <1>6, <1>7 DEF ProductionNext

(* At the start the asteroid and the containers that are full hold all there is *)
LEMMA ConservationStart == ProductionInit => ConservationInv
  <1> SUFFICES ASSUME ProductionInit PROVE ConservationInv
    OBVIOUS
  <1>1. ProductionInv
    BY ProductionStart
  <1>2. /\ amount = [c \in Containers |-> IF c \in Filled THEN Volume ELSE 0]
        /\ transfer = [c \in Containers |-> NoTransfer] /\ worker = [c \in Containers |-> Away]
        /\ lost = 0 /\ raced = FALSE /\ mass = Mass /\ spent = 0
    BY DEF ProductionInit, CargoInit
  <1>3. IsFiniteSet(Containers) /\ Filled \in SUBSET Containers /\ Volume \in Nat /\ Mass \in Nat
    BY CargoAssumption, ProductionNumbers
  <1>4. Stored(Containers) = Volume * Cardinality(Filled)
    BY <1>2, <1>3, SumOfEqual DEF Stored
  <1>5. Reserved(Containers) = 0
    <2> DEFINE f == [c \in Containers |-> transfer[c].reserved]
               g == [c \in Containers |-> IF c \in {} THEN 0 ELSE 0]
    <2>1. f = g
      BY <1>2, Standing
    <2>2. SumFunctionOnSet(g, Containers) = 0 * Cardinality({})
      BY <1>3, SumOfEqual
    <2> HIDE DEF f, g
    <2>3. Cardinality({}) = 0
      BY FS_EmptySet
    <2>4. SumFunctionOnSet(f, Containers) = 0
      BY <2>1, <2>2, <2>3
    <2> QED
      BY <2>4 DEF Reserved, f
  <1>6. Volume * Cardinality(Filled) \in Int
    <2>1. Cardinality(Filled) \in Nat
      BY <1>3, FS_Subset, FS_CardinalityType
    <2> QED
      BY <1>3, <2>1
  <1>7. BalanceInv
    <2> DEFINE v == Volume * Cardinality(Filled)
    <2>1. Stored(Containers) = v /\ v \in Int
      BY <1>4, <1>6
    <2> HIDE DEF v
    <2>2. Total = Mass + v
      BY <1>2, <1>3, <1>5, <2>1 DEF Total
    <2> QED
      BY <1>2, <2>2 DEF BalanceInv, v
  <1>8. SoloInv
    BY <1>2, Standing DEF SoloInv
  <1> QED
    BY <1>1, <1>7, <1>8 DEF ConservationInv

(* Whatever containers, miners and shipyards do, with one thread always and with several
   until resources are taken from a container while others are put into it, every portion
   that was there at the start is in the asteroid, in a container, reserved for a transfer,
   spent on a ship or counted as lost; and the used space of a container on which no thread
   is at work is what its resources take, also in the middle of other threads' separate
   reads and writes (ResourceContainer.cpp:375, consumeResource, which takes no lock). *)
THEOREM ResourcesStayConserved == ProductionSpec => []ResourcesAreConserved
  <1>1. ConservationInv => ResourcesAreConserved
    <2> SUFFICES ASSUME ConservationInv PROVE ResourcesAreConserved
      OBVIOUS
    <2>1. (team = 1 \/ ~raced) => ~raced
      BY DEF ConservationInv, SoloInv
    <2>2. ~raced => Total = Mass + Volume * Cardinality(Filled)
      BY DEF ConservationInv, BalanceInv
    <2>3. ASSUME ~raced, NEW c \in Containers, worker[c].at \notin Takes, ~Locked(c) PROVE used[c] = amount[c]
      BY <2>3, NobodyIsAt DEF ConservationInv, ProductionInv, CalmInv, Calm
    <2> QED
      BY <2>1, <2>2, <2>3 DEF ResourcesAreConserved, Total
  <1> QED
    BY <1>1, ConservationStart, ConservationStep, PTL DEF ProductionSpec

-----------------------------------------------------------------------------
(* The leaderboard *)

(* Row i may go up to the row `top` *)
IsTop(s, i, top) ==
    /\ \A k \in top .. (i - 1) : s[k].score < s[i].score
    /\ top > 1 => ~(s[top - 1].score < s[i].score)

(* s with row i moved to the row `top` *)
Inserted(s, i, top) ==
    [k \in DOMAIN s |-> CASE k = top              -> s[i]
                          [] k \in (top + 1) .. i -> s[k - 1]
                          [] OTHER                -> s[k]]

(* The inner loop of Leaderboard::sort() finds a place for the row *)
LEMMA MovedUpIs ==
    ASSUME NEW s, NEW i \in Nat, i >= 1
    PROVE  \E top \in 1 .. i : IsTop(s, i, top) /\ MovedUp(s, i) = Inserted(s, i, top)
  <1> DEFINE T == {j \in 1 .. i : \A k \in j .. (i - 1) : s[k].score < s[i].score}
             m == Min(T)
  <1>1. i \in T /\ T \subseteq Nat
    OBVIOUS
  <1>2. m \in T /\ \A y \in T : m <= y
    <2> HIDE DEF T
    <2> QED
      BY <1>1, LeastNumber
  <1>3. ASSUME m > 1, s[m - 1].score < s[i].score PROVE FALSE
    <2>1. m \in 1 .. i /\ \A k \in m .. (i - 1) : s[k].score < s[i].score
      BY <1>2
    <2> HIDE DEF m
    <2>2. \A k \in (m - 1) .. (i - 1) : k = m - 1 \/ k \in m .. (i - 1)
      BY <2>1
    <2>3. m - 1 \in T
      BY <1>3, <2>1, <2>2
    <2> HIDE DEF T
    <2> QED
      BY <1>2, <2>1, <2>3
  <1>4. \E j \in 1 .. i : IsTop(s, i, j)
    <2>1. m \in 1 .. i /\ IsTop(s, i, m)
      BY <1>2, <1>3 DEF IsTop
    <2> HIDE DEF m
    <2> QED
      BY <2>1
  <1> DEFINE top == CHOOSE j \in 1 .. i : IsTop(s, i, j)
  <1>5. top \in 1 .. i /\ IsTop(s, i, top)
    BY <1>4
  <1>6. MovedUp(s, i) = Inserted(s, i, top)
    BY DEF MovedUp, Inserted, IsTop
  <1> HIDE DEF top
  <1> QED
    BY <1>5, <1>6

Ranked(s, n) == \A j, k \in 1 .. n : j < k => s[j].score >= s[k].score
RowsOf(s, n) == {s[k] : k \in 1 .. n}

(* Moving one row up keeps the rows, and ranks one more of them *)
LEMMA MovedUpRanks ==
    ASSUME NEW n \in Nat, NEW P, NEW s \in [1 .. n -> [login : P, score : Int]],
           NEW i \in 2 .. n, Ranked(s, i - 1)
    PROVE  /\ MovedUp(s, i) \in [1 .. n -> [login : P, score : Int]]
           /\ Ranked(MovedUp(s, i), i)
           /\ RowsOf(MovedUp(s, i), n) = RowsOf(s, n)
  <1>1. PICK top \in 1 .. i : IsTop(s, i, top) /\ MovedUp(s, i) = Inserted(s, i, top)
    BY MovedUpIs
  <1> DEFINE r == MovedUp(s, i)
  <1>2. r = [k \in 1 .. n |-> CASE k = top              -> s[i]
                                [] k \in (top + 1) .. i -> s[k - 1]
                                [] OTHER                -> s[k]]
    BY <1>1 DEF Inserted
  <1> HIDE DEF r
  <1>3. /\ r[top] = s[i]
        /\ \A k \in (top + 1) .. i : r[k] = s[k - 1]
        /\ \A k \in 1 .. n : k < top \/ k > i => r[k] = s[k]
    BY <1>2
  <1>4. \A k \in 1 .. n : \E j \in 1 .. n : r[k] = s[j]
    <2> TAKE k \in 1 .. n
    <2>1. CASE k = top
      BY <1>3, <2>1
    <2>2. CASE k \in (top + 1) .. i
      BY <1>3, <2>2
    <2>3. CASE k < top \/ k > i
      BY <1>3, <2>3
    <2> QED
      BY <2>1, <2>2, <2>3
  <1>5. \A k \in 1 .. n : \E j \in 1 .. n : s[k] = r[j]
    <2> TAKE k \in 1 .. n
    <2>1. CASE k = i
      BY <1>3, <2>1
    <2>2. CASE k \in top .. (i - 1)
      <3>1. k + 1 \in (top + 1) .. i /\ k + 1 \in 1 .. n /\ (k + 1) - 1 = k
        BY <2>2
      <3>2. r[k + 1] = s[k]
        BY <1>3, <3>1
      <3> QED
        BY <3>1, <3>2
    <2>3. CASE k < top \/ k > i
      BY <1>3, <2>3
    <2> QED
      BY <2>1, <2>2, <2>3
  <1>6. r \in [1 .. n -> [login : P, score : Int]]
    <2>1. \A k \in 1 .. n : r[k] \in [login : P, score : Int]
      BY <1>4
    <2> QED
      BY <1>2, <2>1
  <1>7. RowsOf(r, n) = RowsOf(s, n)
    <2>1. ASSUME NEW x \in RowsOf(r, n) PROVE x \in RowsOf(s, n)
      <3>1. PICK k \in 1 .. n : x = r[k]
        BY DEF RowsOf
      <3> QED
        BY <1>4, <3>1 DEF RowsOf
    <2>2. ASSUME NEW x \in RowsOf(s, n) PROVE x \in RowsOf(r, n)
      <3>1. PICK k \in 1 .. n : x = s[k]
        BY DEF RowsOf
      <3> QED
        BY <1>5, <3>1 DEF RowsOf
    <2> QED
      BY <2>1, <2>2
  <1>8. Ranked(r, i)
    <2> SUFFICES ASSUME NEW j \in 1 .. i, NEW k \in 1 .. i, j < k PROVE r[j].score >= r[k].score
      BY DEF Ranked
    <2>1. \A x \in 1 .. n : s[x].score \in Int
      OBVIOUS
    <2>2. \A x, y \in 1 .. (i - 1) : x < y => s[x].score >= s[y].score
      BY DEF Ranked
    <2>3. /\ \A x \in top .. (i - 1) : s[x].score < s[i].score
          /\ top > 1 => ~(s[top - 1].score < s[i].score)
      BY <1>1 DEF IsTop
    <2>4. top > 1 => s[top - 1].score >= s[i].score
      BY <2>1, <2>3
    <2>5. \A x \in 1 .. (i - 1) : x < top => s[x].score >= s[i].score
      <3> TAKE x \in 1 .. (i - 1)
      <3> HAVE x < top
      <3>1. top > 1 /\ top - 1 \in 1 .. (i - 1) /\ top - 1 \in 1 .. n /\ x <= top - 1 /\ x \in 1 .. n /\ i \in 1 .. n
        OBVIOUS
      <3>2. s[x].score >= s[top - 1].score
        <4>1. CASE x = top - 1
          BY <2>1, <3>1, <4>1
        <4>2. CASE x < top - 1
          BY <2>2, <3>1, <4>2
        <4> QED
          BY <3>1, <4>1, <4>2
      <3> QED
        BY <2>1, <2>4, <3>1, <3>2
    <2>6. CASE j < top /\ k < top
      <3>1. r[j] = s[j] /\ r[k] = s[k] /\ k \in 1 .. (i - 1) /\ j \in 1 .. (i - 1)
        BY <1>3, <2>6
      <3> QED
        BY <2>2, <3>1
    <2>7. CASE j < top /\ k = top
      BY <1>3, <2>5, <2>7
    <2>8. CASE j < top /\ k > top
      <3>1. r[j] = s[j] /\ r[k] = s[k - 1] /\ j < k - 1 /\ k - 1 \in 1 .. (i - 1) /\ j \in 1 .. (i - 1)
        BY <1>3, <2>8
      <3> QED
        BY <2>2, <3>1
    <2>9. CASE j = top
      <3>1. r[j] = s[i] /\ r[k] = s[k - 1] /\ k - 1 \in top .. (i - 1) /\ k - 1 \in 1 .. n /\ i \in 1 .. n
        BY <1>3, <2>9
      <3> QED
        BY <2>1, <2>3, <3>1
    <2>10. CASE j > top
      <3>1. r[j] = s[j - 1] /\ r[k] = s[k - 1] /\ j - 1 < k - 1 /\ k - 1 \in 1 .. (i - 1) /\ j - 1 \in 1 .. (i - 1)
        BY <1>3, <2>10
      <3> QED
        BY <2>2, <3>1
    <2> QED
      BY <2>6, <2>7, <2>8, <2>9, <2>10
  <1> QED
    BY <1>6, <1>7, <1>8 DEF r

(* The board after the first i rows have been looked at *)
SortsRows(s, n, f) == f = [i \in 1 .. n |-> IF i = 1 THEN s ELSE MovedUp(f[i - 1], i)]

(* The outer loop of Leaderboard::sort() *)
LEMMA SortsExist ==
    ASSUME NEW s, NEW n \in Nat PROVE \E f : SortsRows(s, n, f)
  <1> DEFINE N == {m \in Nat : \E f : SortsRows(s, m, f)}
  <1>1. 0 \in N
    <2> DEFINE f == [i \in 1 .. 0 |-> s]
    <2>1. f = [i \in 1 .. 0 |-> IF i = 1 THEN s ELSE MovedUp(f[i - 1], i)]
      OBVIOUS
    <2>2. SortsRows(s, 0, f)
      BY <2>1 DEF SortsRows
    <2> QED
      BY <2>2
  <1>2. ASSUME NEW m \in N PROVE m + 1 \in N
    <2>1. PICK f : SortsRows(s, m, f)
      OBVIOUS
    <2> DEFINE g == [i \in 1 .. (m + 1) |-> IF i = 1 THEN s ELSE MovedUp(f[i - 1], i)]
    <2>2. \A i \in 1 .. m : g[i] = f[i]
      BY <2>1 DEF SortsRows
    <2>3. \A i \in 1 .. (m + 1) : i # 1 => i - 1 \in 1 .. m
      OBVIOUS
    <2>4. \A i \in 1 .. (m + 1) : g[i] = IF i = 1 THEN s ELSE MovedUp(g[i - 1], i)
      <3> TAKE i \in 1 .. (m + 1)
      <3>1. g[i] = IF i = 1 THEN s ELSE MovedUp(f[i - 1], i)
        OBVIOUS
      <3>2. i # 1 => g[i - 1] = f[i - 1]
        BY <2>2, <2>3
      <3> HIDE DEF g
      <3> QED
        BY <3>1, <3>2
    <2>5. g = [i \in 1 .. (m + 1) |-> g[i]]
      OBVIOUS
    <2> HIDE DEF g
    <2>6. SortsRows(s, m + 1, g)
      BY <2>4, <2>5 DEF SortsRows
    <2> QED
      BY <2>6
  <1>3. N = Nat
    <2>1. N \subseteq Nat
      OBVIOUS
    <2> HIDE DEF N
    <2> QED
      BY <1>1, <1>2, <2>1, NumbersInduction
  <1> QED
    BY <1>3

(* Leaderboard::sort() ranks the rows by their scores and keeps all of them *)
LEMMA SortRanks ==
    ASSUME NEW n \in Nat, n > 0, NEW P, NEW s \in [1 .. n -> [login : P, score : Int]]
    PROVE  /\ Sorted(s) \in [1 .. n -> [login : P, score : Int]]
           /\ Ranked(Sorted(s), n)
           /\ RowsOf(Sorted(s), n) = RowsOf(s, n)
  <1> DEFINE Up(f) == f = [i \in DOMAIN s |-> IF i = 1 THEN s ELSE MovedUp(f[i - 1], i)]
             f == CHOOSE g : Up(g)
  <1>1. DOMAIN s = 1 .. n /\ Len(s) = n
    OBVIOUS
  <1>2. \E g : Up(g)
    <2>1. PICK g : SortsRows(s, n, g)
      BY SortsExist
    <2>2. Up(g)
      BY <1>1, <2>1 DEF SortsRows
    <2> HIDE DEF Up
    <2> QED
      BY <2>2
  <1>3. Up(f)
    BY <1>2, Zenon
  <1>4. Sorted(s) = f[n]
    BY <1>1 DEF Sorted
  <1>5. \A i \in 1 .. n : f[i] = IF i = 1 THEN s ELSE MovedUp(f[i - 1], i)
    <2> HIDE DEF f
    <2> QED
      BY <1>1, <1>3
  <1> HIDE DEF f, Up
  <1> DEFINE Good(x, i) == /\ x \in [1 .. n -> [login : P, score : Int]]
                           /\ Ranked(x, i) /\ RowsOf(x, n) = RowsOf(s, n)
             N == {m \in Nat : m + 1 \in 1 .. n => Good(f[m + 1], m + 1)}
  <1>6. 0 \in N
    <2>1. f[1] = s
      <3>1. 1 \in 1 .. n
        OBVIOUS
      <3> QED
        BY <1>5, <3>1
    <2>2. Ranked(s, 1)
      BY DEF Ranked
    <2>3. Good(f[0 + 1], 0 + 1)
      <3>1. 0 + 1 = 1
        OBVIOUS
      <3>2. Good(s, 1)
        BY <2>2
      <3> HIDE DEF Good
      <3> QED
        BY <2>1, <3>1, <3>2
    <2> HIDE DEF Good
    <2> QED
      BY <2>3
  <1>7. ASSUME NEW m \in N PROVE m + 1 \in N
    <2> DEFINE i == m + 2
    <2>0. m \in Nat
      <3> HIDE DEF Good
      <3> QED
        OBVIOUS
    <2>1. m \in Nat /\ (m + 1) + 1 = i /\ i \in Nat /\ i - 1 = m + 1
      <3> HIDE DEF N
      <3> QED
        BY <2>0
    <2>2. ASSUME i \in 1 .. n PROVE Good(f[i], i)
      <3>1. m + 1 \in 1 .. n /\ i \in 2 .. n /\ i # 1
        BY <2>1, <2>2
      <3>2. Good(f[m + 1], m + 1)
        BY <3>1
      <3>3. f[i] = MovedUp(f[m + 1], i)
        BY <1>5, <2>1, <2>2, <3>1
      <3> HIDE DEF i
      <3>4. Good(MovedUp(f[m + 1], i), i)
        <4> DEFINE x == f[m + 1]
        <4>1. /\ x \in [1 .. n -> [login : P, score : Int]] /\ Ranked(x, i - 1)
              /\ RowsOf(x, n) = RowsOf(s, n)
          BY <2>1, <3>2
        <4> HIDE DEF x
        <4>2. /\ MovedUp(x, i) \in [1 .. n -> [login : P, score : Int]]
              /\ Ranked(MovedUp(x, i), i) /\ RowsOf(MovedUp(x, i), n) = RowsOf(x, n)
          BY <3>1, <4>1, MovedUpRanks
        <4> QED
          BY <4>1, <4>2 DEF x
      <3> QED
        BY <3>3, <3>4
    <2> HIDE DEF Good
    <2> QED
      BY <2>1, <2>2
  <1>8. N = Nat
    <2>1. N \subseteq Nat
      OBVIOUS
    <2> HIDE DEF N
    <2> QED
      BY <1>6, <1>7, <2>1, NumbersInduction
  <1>9. n - 1 \in N /\ (n - 1) + 1 = n /\ n \in 1 .. n
    <2> HIDE DEF N
    <2> QED
      BY <1>8
  <1>10. Good(f[n], n)
    <2> HIDE DEF Good
    <2> QED
      BY <1>9
  <1> QED
    BY <1>4, <1>10

(* The score for n portions *)
ScoreFor(n) == (TargetScore * (IF n < Goal THEN n ELSE Goal)) \div Goal

(* While the threads score, every row that has been taken is being scored by the thread
   that took it, or has the score of its player; the board names every player *)
BoardInv ==
    /\ round \in {"play", "scoring"}
    /\ stock \in [Rivals -> Nat]
    /\ m_table \in [Rows -> [login : Rivals, score : Int]]
    /\ {m_table[i].login : i \in Rows} = Rivals
    /\ m_nNextId \in Nat
    /\ row \in [Judges -> Rows \cup {0}]
    /\ judged \subseteq Judges
    /\ \A t \in Judges : t \in judged \/ round = "play" => row[t] = 0
    /\ round = "scoring" =>
          /\ judged # {} => \A i \in Rows : i <= m_nNextId
          /\ \A i \in Rows : i <= m_nNextId =>
                (\E t \in Judges : row[t] = i) \/ m_table[i].score = ScoreFor(stock[m_table[i].login])

(* The constants of the arbitrator can be computed with *)
LEMMA ArbitratorNumbers ==
    /\ Goal \in Nat /\ Goal > 0 /\ TargetScore \in Nat /\ Judges # {}
    /\ StockBound \in Nat /\ Cardinality(Rivals) \in Nat /\ Cardinality(Rivals) > 0
    /\ Rows = 1 .. Cardinality(Rivals) /\ Rows \subseteq Nat /\ 0 \notin Rows
  <1>1. Cardinality(Rivals) \in Nat /\ Cardinality(Rivals) # 0
    BY ArbitratorAssumption, FS_EmptySet, FS_CardinalityType
  <1> QED
    BY <1>1, ArbitratorAssumption DEF Rows

(* The score is a number *)
LEMMA ScoreNumbers ==
    ASSUME NEW n \in Nat PROVE ScoreFor(n) \in Int
  <1> DEFINE a == IF n < Goal THEN n ELSE Goal
  <1>1. a \in Nat
    BY ArbitratorNumbers
  <1>2. TargetScore * a \in Int
    BY <1>1, ArbitratorNumbers
  <1> HIDE DEF a
  <1>3. (TargetScore * a) \div Goal \in Int
    BY <1>2, ArbitratorNumbers
  <1> QED
    BY <1>3 DEF ScoreFor, a

(* The storage of players gives one row to each *)
LEMMA BoardStart == ArbitratorInit => BoardInv
  <1> SUFFICES ASSUME ArbitratorInit PROVE BoardInv
    OBVIOUS
  <1>1. PICK order \in Bijection(Rows, Rivals) : m_table = [i \in Rows |-> [login |-> order[i], score |-> 0]]
    BY DEF ArbitratorInit, OpeningTables
  <1>2. order \in [Rows -> Rivals] /\ \A p \in Rivals : \E i \in Rows : order[i] = p
    BY <1>1 DEF Bijection, Surjection
  <1>3. \A i \in Rows : m_table[i].login = order[i]
    BY <1>1
  <1>4. {m_table[i].login : i \in Rows} = Rivals
    BY <1>2, <1>3
  <1>5. m_table \in [Rows -> [login : Rivals, score : Int]]
    BY <1>1, <1>2
  <1> QED
    BY <1>4, <1>5, ArbitratorNumbers DEF ArbitratorInit, BoardInv

(* A thread takes a row that nobody has, or finds that all are taken *)
LEMMA TakeRowInv ==
    ASSUME BoardInv, NEW t \in Judges, TakeRow(t) PROVE BoardInv'
  <1> DEFINE n == Cardinality(Rivals)
  <1>1. /\ round = "scoring" /\ t \notin judged /\ row[t] = 0 /\ m_nNextId' = m_nNextId + 1
        /\ UNCHANGED <<round, stock, m_table>>
    BY DEF TakeRow
  <1>2. Len(m_table) = n /\ n \in Nat /\ Rows = 1 .. n /\ m_nNextId \in Nat /\ m_nNextId' \in Nat
    BY <1>1, ArbitratorNumbers DEF BoardInv
  <1>3. \A i \in Rows : (i <= m_nNextId' <=> i <= m_nNextId \/ i = m_nNextId + 1) /\ i \in Nat
    BY <1>1, <1>2
  <1>5. m_table' = m_table /\ stock' = stock
    BY <1>1
  <1>6. CASE m_nNextId < Len(m_table)
    <2>1. row' = [row EXCEPT ![t] = m_nNextId + 1] /\ judged' = judged
      BY <1>6 DEF TakeRow
    <2>2. m_nNextId + 1 \in Rows
      BY <1>2, <1>6
    <2>3. row' \in [Judges -> Rows \cup {0}] /\ row'[t] = m_nNextId + 1 /\ \A u \in Judges : u # t => row'[u] = row[u]
      BY <2>1, <2>2 DEF BoardInv
    <2>4. \A u \in Judges : u \in judged' \/ round' = "play" => row'[u] = 0
      BY <1>1, <2>1, <2>3 DEF BoardInv
    <2>5. \A i \in Rows : (\E u \in Judges : row[u] = i) => \E u \in Judges : row'[u] = i
      <3> TAKE i \in Rows
      <3> HAVE \E u \in Judges : row[u] = i
      <3>1. PICK u \in Judges : row[u] = i
        OBVIOUS
      <3>2. u # t
        BY <1>1, <3>1, ArbitratorNumbers
      <3> QED
        BY <2>3, <3>1, <3>2
    <2>6. \A i \in Rows : i <= m_nNextId' =>
             (\E u \in Judges : row'[u] = i) \/ m_table'[i].score = ScoreFor(stock'[m_table'[i].login])
      BY <1>1, <1>3, <1>5, <2>3, <2>5 DEF BoardInv
    <2>7. judged' # {} => \A i \in Rows : i <= m_nNextId'
      BY <1>1, <1>3, <2>1 DEF BoardInv
    <2>8. /\ round' \in {"play", "scoring"} /\ stock' \in [Rivals -> Nat]
          /\ m_table' \in [Rows -> [login : Rivals, score : Int]]
          /\ {m_table'[i].login : i \in Rows} = Rivals /\ judged' \subseteq Judges
      BY <1>1, <2>1 DEF BoardInv
    <2> QED
      BY <1>2, <2>3, <2>4, <2>6, <2>7, <2>8 DEF BoardInv
  <1>7. CASE ~(m_nNextId < Len(m_table))
    <2>1. judged' = judged \cup {t} /\ row' = row
      BY <1>7 DEF TakeRow
    <2>2. \A i \in Rows : i <= m_nNextId /\ i <= m_nNextId'
      BY <1>2, <1>3, <1>7
    <2>3. \A i \in Rows : (\E u \in Judges : row'[u] = i) \/ m_table'[i].score = ScoreFor(stock'[m_table'[i].login])
      BY <1>1, <1>5, <2>1, <2>2 DEF BoardInv
    <2>4. \A u \in Judges : u \in judged' \/ round' = "play" => row'[u] = 0
      BY <1>1, <2>1 DEF BoardInv
    <2> QED
      BY <1>1, <1>2, <2>1, <2>2, <2>3, <2>4 DEF BoardInv
  <1> QED
    BY <1>6, <1>7

(* The thread scores its row and no other *)
LEMMA ScoreRowInv ==
    ASSUME BoardInv, NEW t \in Judges, ScoreRow(t) PROVE BoardInv'
  <1> DEFINE k == row[t]
             v == ScoreFor(stock[m_table[k].login])
  <1>1. /\ k # 0 /\ m_table' = [m_table EXCEPT ![k].score = v] /\ row' = [row EXCEPT ![t] = 0]
        /\ UNCHANGED <<round, stock, m_nNextId, judged>>
    BY DEF ScoreRow, Score, ScoreFor
  <1>2. k \in Rows
    BY <1>1 DEF BoardInv
  <1>3. m_table[k].login \in Rivals /\ stock[m_table[k].login] \in Nat
    BY <1>2 DEF BoardInv
  <1>4. v \in Int
    BY <1>3, ScoreNumbers
  <1>5. stock' = stock
    BY <1>1
  <1>6. round = "scoring" /\ t \notin judged
    BY <1>1 DEF BoardInv
  <1> HIDE DEF v, k
  <1>7. /\ m_table' \in [Rows -> [login : Rivals, score : Int]]
        /\ m_table'[k].score = v /\ m_table'[k].login = m_table[k].login
        /\ \A i \in Rows : i # k => m_table'[i] = m_table[i]
    BY <1>1, <1>2, <1>4 DEF BoardInv
  <1>8. {m_table'[i].login : i \in Rows} = Rivals
    <2>1. \A i \in Rows : m_table'[i].login = m_table[i].login
      BY <1>7
    <2> QED
      BY <2>1 DEF BoardInv
  <1>9. /\ row' \in [Judges -> Rows \cup {0}] /\ row'[t] = 0
        /\ \A u \in Judges : u # t => row'[u] = row[u]
    BY <1>1 DEF BoardInv
  <1>10. \A i \in Rows : i <= m_nNextId' =>
            (\E u \in Judges : row'[u] = i) \/ m_table'[i].score = ScoreFor(stock'[m_table'[i].login])
    <2> TAKE i \in Rows
    <2> HAVE i <= m_nNextId'
    <2>1. CASE i = k
      BY <1>5, <1>7, <2>1 DEF v
    <2>2. CASE i # k
      <3>1. m_table'[i] = m_table[i] /\ i <= m_nNextId
        BY <1>1, <1>7, <2>2
      <3>2. CASE \E u \in Judges : row[u] = i
        <4>1. PICK u \in Judges : row[u] = i
          BY <3>2
        <4>2. u # t
          BY <2>2, <4>1 DEF k
        <4> QED
          BY <1>9, <4>1, <4>2
      <3>3. CASE m_table[i].score = ScoreFor(stock[m_table[i].login])
        BY <1>5, <3>1, <3>3
      <3> QED
        BY <1>6, <3>1, <3>2, <3>3 DEF BoardInv
    <2> QED
      BY <2>1, <2>2
  <1>11. \A u \in Judges : u \in judged' \/ round' = "play" => row'[u] = 0
    BY <1>1, <1>9 DEF BoardInv
  <1> QED
    BY <1>1, <1>7, <1>8, <1>9, <1>10, <1>11 DEF BoardInv

(* What the master thread finds and leaves when all threads are done *)
LEMMA CheckedBoard ==
    ASSUME BoardInv, CheckIfGameOver
    PROVE  /\ m_table' \in [Rows -> [login : Rivals, score : Int]]
           /\ {m_table'[i].login : i \in Rows} = Rivals
           /\ \A i \in Rows : m_table'[i].score = ScoreFor(stock[m_table'[i].login])
           /\ \A i, j \in Rows : i < j => m_table'[i].score >= m_table'[j].score
           /\ winners' # <<>> <=> m_table'[1].score >= TargetScore
  <1> DEFINE n == Cardinality(Rivals)
             s == Sorted(m_table)
  <1>1. /\ round = "scoring" /\ judged = Judges /\ m_table' = s
        /\ winners' = IF s[1].score >= TargetScore THEN s ELSE <<>>
    BY DEF CheckIfGameOver
  <1>2. n \in Nat /\ n > 0 /\ Rows = 1 .. n /\ 0 \notin Rows
    BY ArbitratorNumbers
  <1>3. /\ s \in [1 .. n -> [login : Rivals, score : Int]]
        /\ Ranked(s, n) /\ RowsOf(s, n) = RowsOf(m_table, n)
    BY <1>2, SortRanks DEF BoardInv
  <1> HIDE DEF s, n
  <1>4. \A i \in Rows : m_table[i].score = ScoreFor(stock[m_table[i].login])
    <2>1. \A i \in Rows : i <= m_nNextId
      BY <1>1, ArbitratorNumbers DEF BoardInv
    <2>2. \A i \in Rows, t \in Judges : row[t] # i
      BY <1>1, <1>2 DEF BoardInv
    <2> QED
      BY <1>1, <2>1, <2>2 DEF BoardInv
  <1>5. \A i \in Rows : \E j \in Rows : s[i] = m_table[j]
    <2> TAKE i \in Rows
    <2>1. s[i] \in RowsOf(m_table, n)
      BY <1>2, <1>3 DEF RowsOf
    <2> QED
      BY <1>2, <2>1 DEF RowsOf
  <1>6. \A j \in Rows : \E i \in Rows : s[i] = m_table[j]
    <2> TAKE j \in Rows
    <2>1. m_table[j] \in RowsOf(s, n)
      BY <1>2, <1>3 DEF RowsOf
    <2> QED
      BY <1>2, <2>1 DEF RowsOf
  <1>7. {s[i].login : i \in Rows} = Rivals
    <2>1. \A p \in Rivals : \E j \in Rows : m_table[j].login = p
      BY DEF BoardInv
    <2>2. \A p \in Rivals : \E i \in Rows : s[i].login = p
      BY <1>6, <2>1
    <2>3. \A i \in Rows : s[i].login \in Rivals
      BY <1>2, <1>3
    <2> QED
      BY <2>2, <2>3
  <1>8. \A i \in Rows : s[i].score = ScoreFor(stock[s[i].login])
    BY <1>4, <1>5
  <1>9. \A i, j \in Rows : i < j => s[i].score >= s[j].score
    BY <1>2, <1>3 DEF Ranked
  <1>10. s # <<>>
    BY <1>2, <1>3
  <1> QED
    BY <1>1, <1>2, <1>3, <1>7, <1>8, <1>9, <1>10

(* The invariant of the leaderboard is inductive *)
LEMMA BoardStep ==
    ASSUME BoardInv, [ArbitratorNext]_arbitratorVars PROVE BoardInv'
  <1>1. ASSUME NEW p \in Rivals, Collect(p) PROVE BoardInv'
    <2>1. PICK a \in 0 .. StockBound : stock' = [stock EXCEPT ![p] = a]
      BY <1>1 DEF Collect
    <2>2. stock' \in [Rivals -> Nat]
      BY <2>1, ArbitratorNumbers DEF BoardInv
    <2>3. round = "play" /\ UNCHANGED <<round, m_table, m_nNextId, row, judged>>
      BY <1>1 DEF Collect
    <2> QED
      BY <2>2, <2>3 DEF BoardInv
  <1>2. CASE BeginScoring
    <2>1. /\ round = "play" /\ round' = "scoring" /\ m_nNextId' = 0 /\ judged' = {}
          /\ UNCHANGED <<stock, m_table, row>>
      BY <1>2 DEF BeginScoring
    <2>2. \A i \in Rows : ~(i <= 0)
      BY ArbitratorNumbers
    <2> QED
      BY <2>1, <2>2 DEF BoardInv
  <1>3. CASE CheckIfGameOver
    <2>1. round' = "play" /\ judged = Judges /\ UNCHANGED <<stock, m_nNextId, row, judged>>
      BY <1>3 DEF CheckIfGameOver
    <2> QED
      BY <1>3, <2>1, CheckedBoard DEF BoardInv
  <1>4. CASE UNCHANGED arbitratorVars
    BY <1>4 DEF arbitratorVars, BoardInv
  <1> QED
    BY <1>1, <1>2, <1>3, <1>4, TakeRowInv, ScoreRowInv DEF ArbitratorNext

(* A quotient lies between its neighbours *)
LEMMA Quotient ==
    ASSUME NEW x \in Nat, NEW g \in Nat, g > 0
    PROVE  x \div g \in Int /\ g * (x \div g) <= x /\ x < g * (x \div g) + g
  BY Z3

(* Who has more, up to the goal, has a higher score if there is a point for every portion *)
LEMMA ScoresDiffer ==
    ASSUME NEW ts \in Nat, NEW g \in Nat, g > 0, ts >= g, NEW a \in Nat, NEW b \in Nat, a < b
    PROVE  (ts * a) \div g < (ts * b) \div g
  <1> DEFINE x == ts * a
             y == ts * b
             q == x \div g
             r == y \div g
  <1>1. x \in Nat /\ y \in Nat
    OBVIOUS
  <1>2. y >= x + ts
    <2>1. PICK d \in Nat : b = a + 1 + d
      <3>1. b - a - 1 \in Nat /\ b = a + 1 + (b - a - 1)
        OBVIOUS
      <3> QED
        BY <3>1
    <2>2. ts * (a + 1 + d) = ts * a + ts + ts * d /\ ts * d >= 0 /\ ts * d \in Int /\ ts * a \in Int
      BY <2>1, Z3
    <2> QED
      BY <2>1, <2>2
  <1>3. /\ q \in Int /\ g * q <= x /\ x < g * q + g
        /\ r \in Int /\ g * r <= y /\ y < g * r + g
    <2> HIDE DEF x, y
    <2> QED
      BY <1>1, Quotient
  <1> HIDE DEF x, y, q, r
  <1>4. g * q + g <= x + g
    BY <1>1, <1>3
  <1>5. ASSUME r <= q PROVE FALSE
    <2>1. g * r <= g * q
      BY <1>3, <1>5, Z3
    <2>2. g * r \in Int /\ g * q \in Int
      BY <1>3
    <2> QED
      BY <1>1, <1>2, <1>3, <2>1, <2>2
  <1>6. q < r
    BY <1>3, <1>5
  <1> QED
    BY <1>6 DEF q, r, x, y

(* The whole goal gives the target score *)
LEMMA GoalIsTarget ==
    ASSUME NEW ts \in Nat, NEW g \in Nat, g > 0 PROVE (ts * g) \div g = ts
  <1> DEFINE q == (ts * g) \div g
  <1>1. ts * g \in Nat /\ ts * g = g * ts
    OBVIOUS
  <1>2. q \in Int /\ g * q <= g * ts /\ g * ts < g * q + g
    BY <1>1, Quotient
  <1> HIDE DEF q
  <1>3. q < ts => g * q + g <= g * ts
    BY <1>2, Z3
  <1>4. q > ts => g * ts + g <= g * q
    BY <1>2, Z3
  <1>5. g * q \in Int /\ g * ts \in Int
    BY <1>2
  <1>6. q = ts
    BY <1>2, <1>3, <1>4, <1>5
  <1> QED
    BY <1>6 DEF q

(* Who has more, up to the goal, has the higher score *)
LEMMA MoreIsHigher ==
    ASSUME TargetScore >= Goal, NEW a \in Nat, NEW b \in Nat, a < b, a < Goal
    PROVE  ScoreFor(a) < ScoreFor(b)
  <1> DEFINE c == IF b < Goal THEN b ELSE Goal
  <1>1. c \in Nat /\ a < c
    BY ArbitratorNumbers
  <1>2. ScoreFor(a) = (TargetScore * a) \div Goal /\ ScoreFor(b) = (TargetScore * c) \div Goal
    BY DEF ScoreFor
  <1> HIDE DEF c
  <1> QED
    BY <1>1, <1>2, ScoresDiffer, ArbitratorNumbers

(* The target score is that of the whole goal *)
LEMMA GoalIsReached ==
    ASSUME TargetScore >= Goal, NEW a \in Nat
    PROVE  ScoreFor(a) >= TargetScore <=> a >= Goal
  <1>1. ScoreFor(Goal) = TargetScore
    BY GoalIsTarget, ArbitratorNumbers DEF ScoreFor
  <1>2. CASE a >= Goal
    <2>1. ScoreFor(a) = ScoreFor(Goal)
      BY <1>2, ArbitratorNumbers DEF ScoreFor
    <2> QED
      BY <1>1, <1>2, <2>1, ArbitratorNumbers
  <1>3. CASE ~(a >= Goal)
    <2>1. a < Goal /\ ScoreFor(a) \in Int
      BY <1>3, ScoreNumbers, ArbitratorNumbers
    <2>2. ScoreFor(a) < ScoreFor(Goal)
      BY <2>1, MoreIsHigher, ArbitratorNumbers
    <2> QED
      BY <1>1, <1>3, <2>1, <2>2, ArbitratorNumbers
  <1> QED
    BY <1>2, <1>3

(* When every round is over all players are on the board, ranked by what they have
   collected, and the end of the game is reported exactly when somebody has the whole goal:
   for every number of players and threads and every goal, provided that there is at least
   one point for every portion of the goal (otherwise scores are rounded down to ties, and
   a target of 0 points is reached at once). Leaderboard::sort() is an insertion sort
   (BaseArbitrator.cpp:9) of rows that threads score together (BaseArbitrator.cpp:60). *)
THEOREM BoardStaysFair == TargetScore >= Goal => (ArbitratorSpec => BoardIsFair)
  <1> DEFINE Fair ==
        /\ {m_table'[i].login : i \in Rows} = Rivals
        /\ \A i, j \in Rows :
               i < j => \/ stock[m_table'[i].login] >= stock[m_table'[j].login]
                        \/ stock[m_table'[i].login] >= Goal
        /\ winners' # <<>> <=> \E p \in Rivals : stock[p] >= Goal
  <1> SUFFICES ASSUME TargetScore >= Goal PROVE ArbitratorSpec => BoardIsFair
    OBVIOUS
  <1>1. ASSUME BoardInv, CheckIfGameOver PROVE Fair
    <2> DEFINE has(i) == stock[m_table'[i].login]
    <2>1. /\ m_table' \in [Rows -> [login : Rivals, score : Int]]
          /\ {m_table'[i].login : i \in Rows} = Rivals
          /\ \A i \in Rows : m_table'[i].score = ScoreFor(has(i))
          /\ \A i, j \in Rows : i < j => m_table'[i].score >= m_table'[j].score
          /\ winners' # <<>> <=> m_table'[1].score >= TargetScore
      BY <1>1, CheckedBoard
    <2>2. \A i \in Rows : has(i) \in Nat /\ ScoreFor(has(i)) \in Int
      <3>1. \A i \in Rows : has(i) \in Nat
        BY <1>1, <2>1 DEF BoardInv
      <3> QED
        BY <3>1, ScoreNumbers
    <2> HIDE DEF has
    <2>3. ASSUME NEW i \in Rows, NEW j \in Rows, i < j PROVE has(i) >= has(j) \/ has(i) >= Goal
      <3>1. m_table'[i].score = ScoreFor(has(i)) /\ m_table'[j].score = ScoreFor(has(j))
            /\ m_table'[i].score >= m_table'[j].score
        BY <2>1, <2>3
      <3>2. ~(ScoreFor(has(i)) < ScoreFor(has(j))) /\ has(i) \in Nat /\ has(j) \in Nat
        BY <2>2, <3>1
      <3>3. ~(has(i) < has(j) /\ has(i) < Goal)
        BY <1>1, <3>2, MoreIsHigher
      <3> QED
        BY <3>2, <3>3, ArbitratorNumbers
    <2>4. winners' # <<>> <=> \E p \in Rivals : stock[p] >= Goal
      <3>1. 1 \in Rows /\ \A i \in Rows : i = 1 \/ 1 < i
        BY ArbitratorNumbers
      <3>2. \A i \in Rows : ScoreFor(has(i)) >= TargetScore <=> has(i) >= Goal
        BY <1>1, <2>2, GoalIsReached
      <3>3. ASSUME winners' # <<>> PROVE \E p \in Rivals : stock[p] >= Goal
        <4>1. has(1) >= Goal
          BY <2>1, <3>1, <3>2, <3>3
        <4>2. m_table'[1].login \in Rivals
          BY <2>1, <3>1
        <4> QED
          BY <4>1, <4>2 DEF has
      <3>4. ASSUME NEW p \in Rivals, stock[p] >= Goal PROVE winners' # <<>>
        <4>1. PICK i \in Rows : m_table'[i].login = p
          BY <2>1
        <4>2. has(i) >= Goal
          BY <3>4, <4>1 DEF has
        <4>3. m_table'[i].score >= TargetScore /\ m_table'[i].score \in Int
          BY <2>1, <2>2, <3>2, <4>2
        <4>4. m_table'[1].score \in Int /\ (i = 1 \/ m_table'[1].score >= m_table'[i].score)
          BY <2>1, <2>2, <3>1
        <4> QED
          BY <2>1, <4>3, <4>4, ArbitratorNumbers
      <3> QED
        BY <3>3, <3>4
    <2>5. \A i, j \in Rows : i < j => \/ stock[m_table'[i].login] >= stock[m_table'[j].login]
                                     \/ stock[m_table'[i].login] >= Goal
      BY <2>3 DEF has
    <2> QED
      BY <2>1, <2>4, <2>5
  <1>2. BoardInv /\ [ArbitratorNext]_arbitratorVars => [CheckIfGameOver => Fair]_arbitratorVars
    BY <1>1
  <1> HIDE DEF Fair
  <1>3. BoardIsFair <=> [][CheckIfGameOver => Fair]_arbitratorVars
    BY PTL DEF BoardIsFair, Fair
  <1> QED
    BY <1>2, <1>3, BoardStart, BoardStep, PTL DEF ArbitratorSpec

-----------------------------------------------------------------------------
(* Startup: lists of names *)

(* A list has a length and an element at each of its positions *)
LEMMA ListFacts ==
    ASSUME NEW s, IsList(s)
    PROVE  Len(s) \in Nat /\ DOMAIN s = 1 .. Len(s)
  BY DEF IsList

(* What is appended comes last, and nothing else changes *)
LEMMA AppendFacts ==
    ASSUME NEW s, IsList(s), NEW e
    PROVE  /\ IsList(Append(s, e)) /\ Len(Append(s, e)) = Len(s) + 1
           /\ \A k \in 1 .. Len(s) : Append(s, e)[k] = s[k]
           /\ Append(s, e)[Len(s) + 1] = e
  <1> DEFINE S == ToSet(s) \cup {e}
             t == Append(s, e)
  <1>1. s \in Seq(S) /\ e \in S
    BY DEF IsList
  <1>2. t \in Seq(S) /\ Len(t) = Len(s) + 1 /\ (\A k \in 1 .. Len(s) : t[k] = s[k]) /\ t[Len(s) + 1] = e
    <2> HIDE DEF S
    <2> QED
      BY <1>1
  <1>3. \A k \in 1 .. Len(t) : t[k] \in ToSet(t)
    <2>1. DOMAIN t = 1 .. Len(t)
      BY <1>2
    <2> QED
      BY <2>1 DEF ToSet
  <1> HIDE DEF S, t
  <1>4. t = [k \in 1 .. Len(t) |-> t[k]] /\ Len(t) \in Nat
    BY <1>2
  <1>5. t \in Seq(ToSet(t))
    BY <1>3, <1>4
  <1> QED
    BY <1>2, <1>5 DEF IsList, t

(* A concatenation holds the first list, then the second one *)
LEMMA ConcatenationFacts ==
    ASSUME NEW s, IsList(s), NEW e, NEW n \in Nat
    PROVE  LET t == s \o [i \in 1 .. n |-> e]
           IN  /\ IsList(t) /\ Len(t) = Len(s) + n
               /\ \A k \in 1 .. Len(s) : t[k] = s[k]
               /\ \A k \in Len(s) + 1 .. Len(s) + n : t[k] = e
  <1> DEFINE S == ToSet(s) \cup {e}
             r == [i \in 1 .. n |-> e]
             t == s \o r
  <1>1. s \in Seq(S) /\ r \in Seq(S) /\ Len(r) = n /\ \A i \in 1 .. n : r[i] = e
    BY DEF IsList
  <1>2. /\ t \in Seq(S) /\ Len(t) = Len(s) + n
        /\ \A k \in 1 .. Len(s) : t[k] = s[k]
        /\ \A k \in Len(s) + 1 .. Len(s) + n : t[k] = r[k - Len(s)]
    <2> HIDE DEF S, r
    <2> QED
      BY <1>1
  <1>3. \A k \in Len(s) + 1 .. Len(s) + n : k - Len(s) \in 1 .. n
    BY ListFacts
  <1>4. \A k \in Len(s) + 1 .. Len(s) + n : t[k] = e
    <2> HIDE DEF r, t
    <2> QED
      BY <1>1, <1>2, <1>3
  <1>5. \A k \in 1 .. Len(t) : t[k] \in ToSet(t)
    <2>1. DOMAIN t = 1 .. Len(t)
      BY <1>2
    <2> QED
      BY <2>1 DEF ToSet
  <1> HIDE DEF S, t, r
  <1>6. t = [k \in 1 .. Len(t) |-> t[k]] /\ Len(t) \in Nat
    BY <1>2
  <1>7. t \in Seq(ToSet(t))
    BY <1>5, <1>6
  <1> QED
    BY <1>2, <1>4, <1>7 DEF IsList, t, r

(* SetToSeq lists every element of a finite set, in as many places as there are elements *)
LEMMA ListOfASet ==
    ASSUME NEW S, IsFiniteSet(S)
    PROVE  /\ Cardinality(S) \in Nat
           /\ SetToSeq(S) \in [1 .. Cardinality(S) -> S]
           /\ \A x \in S : \E i \in 1 .. Cardinality(S) : SetToSeq(S)[i] = x
  <1> DEFINE n == Cardinality(S)
             f == SetToSeq(S)
  <1>1. n \in Nat /\ ExistsBijection(1 .. n, S)
    BY FS_CardinalityType
  <1>2. \E g \in [1 .. n -> S] : IsInjective(g)
    BY <1>1 DEF ExistsBijection, Bijection, Injection, IsInjective
  <1>3. f \in [1 .. n -> S] /\ IsInjective(f)
    BY <1>2 DEF SetToSeq
  <1>4. f \in Injection(1 .. n, S)
    BY <1>3 DEF Injection, IsInjective
  <1>5. Cardinality(1 .. n) = n /\ IsFiniteSet(1 .. n)
    BY <1>1, FS_Interval
  <1>6. f \in Surjection(1 .. n, S)
    BY <1>4, <1>5, FS_Injection
  <1> QED
    BY <1>1, <1>3, <1>6 DEF Surjection

(* The number of messages is just enough for all names *)
LEMMA EnoughMessages ==
    ASSUME NEW n \in Nat, n > 0, NEW p \in Nat, p > 0, NEW m, m = (n + p - 1) \div p
    PROVE  m \in Nat /\ m > 0 /\ n <= m * p /\ (m - 1) * p < n
  <1>1. n + p - 1 \in Nat
    OBVIOUS
  <1>2. m \in Int /\ p * m <= n + p - 1 /\ n + p - 1 < p * m + p
    BY <1>1, Quotient
  <1>3. m > 0
    <2>1. m <= 0 => p * m <= 0
      BY <1>2
    <2> QED
      BY <1>2, <2>1
  <1>4. p * m = m * p /\ (m - 1) * p = m * p - p
    BY <1>2
  <1>5. m * p \in Int
    BY <1>2
  <1> QED
    BY <1>2, <1>3, <1>4, <1>5

(* Products grow with their factors *)
LEMMA ProductsGrow ==
    ASSUME NEW a \in Int, NEW b \in Int, NEW p \in Nat, p > 0
    PROVE  /\ a * p \in Int /\ (a + 1) * p = a * p + p /\ (a - 1) * p = a * p - p
           /\ a <= b => a * p <= b * p
  <1>1. a * p \in Int /\ (a + 1) * p = a * p + p /\ (a - 1) * p = a * p - p
    OBVIOUS
  <1>2. ASSUME a <= b PROVE a * p <= b * p
    <2>1. b - a \in Nat /\ (b - a) * p \in Nat /\ b * p = a * p + (b - a) * p
      BY <1>2
    <2>2. a * p \in Int /\ b * p \in Int
      OBVIOUS
    <2> QED
      BY <2>1, <2>2
  <1> QED
    BY <1>1, <1>2

(* The elements of a list after place a, up to place b *)
PartOf(f, a, b) == {f[j] : j \in a + 1 .. b}

(* A part of a list, turned round *)
LEMMA ReversedPart ==
    ASSUME NEW S, NEW f \in Seq(S), NEW a \in Nat, NEW b \in Nat, a <= b, b <= Len(f)
    PROVE  LET r == Reverse(SubSeq(f, a + 1, b))
           IN  Len(r) = b - a /\ ToSet(r) = PartOf(f, a, b)
  <1> DEFINE s == SubSeq(f, a + 1, b)
             r == Reverse(s)
  <1>1. Len(s) = b - a /\ \A i \in 1 .. b - a : s[i] = f[i + a]
    BY SubSeqProperties
  <1> HIDE DEF s
  <1>2. r = [i \in 1 .. b - a |-> s[(b - a - i) + 1]]
    BY <1>1 DEF Reverse
  <1>3. b - a \in Nat
    OBVIOUS
  <1>4. Len(r) = b - a /\ DOMAIN r = 1 .. b - a
    <2> DEFINE w(i) == s[(b - a - i) + 1]
               d == b - a
    <2>1. r = [i \in 1 .. d |-> w(i)] /\ d \in Nat
      BY <1>2, <1>3
    <2> HIDE DEF w, d
    <2>2. r \in Seq({w(i) : i \in 1 .. d})
      BY <2>1
    <2>3. Len(r) = d /\ DOMAIN r = 1 .. d
      BY <2>1, <2>2
    <2> QED
      BY <2>3 DEF d
  <1>5. \A i \in 1 .. b - a : r[i] = f[b - i + 1]
    <2> SUFFICES ASSUME NEW i \in 1 .. b - a PROVE r[i] = f[b - i + 1]
      OBVIOUS
    <2>1. (b - a - i) + 1 \in 1 .. b - a /\ (b - a - i) + 1 + a = b - i + 1
      OBVIOUS
    <2>2. s[(b - a - i) + 1] = f[(b - a - i) + 1 + a]
      BY <1>1, <2>1
    <2> QED
      BY <1>2, <2>1, <2>2
  <1> HIDE DEF r
  <1>6. \A i \in 1 .. b - a : b - i + 1 \in a + 1 .. b
    OBVIOUS
  <1>7. \A j \in a + 1 .. b : b - j + 1 \in 1 .. b - a /\ b - (b - j + 1) + 1 = j
    OBVIOUS
  <1>8. ToSet(r) = {r[i] : i \in 1 .. b - a}
    BY <1>4 DEF ToSet
  <1>9. {r[i] : i \in 1 .. b - a} \subseteq {f[j] : j \in a + 1 .. b}
    BY <1>5, <1>6
  <1>10. ASSUME NEW j \in a + 1 .. b PROVE f[j] \in {r[i] : i \in 1 .. b - a}
    <2>1. b - j + 1 \in 1 .. b - a /\ r[b - j + 1] = f[b - (b - j + 1) + 1]
      BY <1>5, <1>7
    <2> QED
      BY <1>7, <2>1
  <1> QED
    BY <1>4, <1>8, <1>9, <1>10 DEF r, s, PartOf

(* The number of names that are left after k messages *)
LeftAfter(k, n) == IF n > k * NamesPerMessage THEN n - k * NamesPerMessage ELSE 0

(* The number of names that are not sent before message k *)
LeftBefore(k, n) == n - (k - 1) * NamesPerMessage

(* What the m messages of a list of n names hold *)
MessagesHold(list, f, n, m) ==
    /\ m \in Nat /\ m > 0 /\ n <= m * NamesPerMessage /\ (m - 1) * NamesPerMessage < n
    /\ DOMAIN list = 1 .. m /\ Len(list) = m
    /\ \A k \in 1 .. m :
          /\ list[k].left = LeftAfter(k, n)
          /\ LeftBefore(k, n) \in Nat /\ LeftAfter(k, n) \in Nat
          /\ LeftAfter(k, n) < LeftBefore(k, n) /\ LeftBefore(k, n) <= n
          /\ Len(list[k].names) = LeftBefore(k, n) - LeftAfter(k, n)
          /\ ToSet(list[k].names) = PartOf(f, LeftAfter(k, n), LeftBefore(k, n))

(* NamesInMessages cuts the list like that *)
LEMMA MessageFacts ==
    ASSUME NEW S, NEW f \in Seq(S), Len(f) > 0,
           NEW n, n = Len(f), NEW m, m = (n + NamesPerMessage - 1) \div NamesPerMessage
    PROVE  MessagesHold(NamesInMessages(f), f, n, m)
  <1> DEFINE P == NamesPerMessage
             list == NamesInMessages(f)
             piece(k) == Reverse(SubSeq(f, LeftAfter(k, n) + 1, LeftBefore(k, n)))
  <1>1. n \in Nat /\ n > 0 /\ P \in Nat /\ P > 0
    BY StartupAssumption
  <1>2. m \in Nat /\ m > 0 /\ n <= m * P /\ (m - 1) * P < n
    BY <1>1, EnoughMessages
  <1>3. list = [k \in 1 .. m |-> [names |-> piece(k), left |-> LeftAfter(k, n)]]
    BY <1>1 DEF NamesInMessages, LeftAfter, LeftBefore
  <1>4. DOMAIN list = 1 .. m /\ Len(list) = m
    <2>1. list \in Seq({[names |-> piece(k), left |-> LeftAfter(k, n)] : k \in 1 .. m})
      <3> HIDE DEF piece, list
      <3> QED
        BY <1>2, <1>3
    <2> HIDE DEF piece, list
    <2> QED
      BY <1>2, <1>3, <2>1
  <1>5. \A k \in 1 .. m : list[k].names = piece(k) /\ list[k].left = LeftAfter(k, n)
    <2> HIDE DEF piece, list
    <2> QED
      BY <1>3
  <1>6. ASSUME NEW k \in 1 .. m
        PROVE  LeftBefore(k, n) \in Nat /\ LeftAfter(k, n) \in Nat /\ LeftAfter(k, n) < LeftBefore(k, n) /\ LeftBefore(k, n) <= n
    <2>1. k \in Int /\ k - 1 \in Int /\ m - 1 \in Int /\ k - 1 <= m - 1 /\ 0 <= k - 1
      BY <1>2
    <2>2. (k - 1) * P \in Int /\ (k - 1) * P <= (m - 1) * P /\ (k - 1) * P = k * P - P /\ k * P \in Int
      BY <1>1, <2>1, ProductsGrow
    <2>3. 0 * P <= (k - 1) * P /\ 0 * P = 0
      BY <1>1, <2>1, ProductsGrow
    <2>4. (m - 1) * P \in Int
      BY <1>1, <2>1, ProductsGrow
    <2> DEFINE x == (k - 1) * P
               y == k * P
               z == (m - 1) * P
    <2>5. x \in Int /\ y \in Int /\ z \in Int /\ x <= z /\ x = y - P /\ 0 <= x /\ z < n
      BY <1>2, <2>2, <2>3, <2>4
    <2>6. LeftAfter(k, n) = IF n > y THEN n - y ELSE 0
      BY DEF LeftAfter
    <2>7. LeftBefore(k, n) = n - x
      BY DEF LeftBefore
    <2> HIDE DEF x, y, z
    <2> QED
      BY <1>1, <2>5, <2>6, <2>7
  <1>7. ASSUME NEW k \in 1 .. m
        PROVE  /\ Len(piece(k)) = LeftBefore(k, n) - LeftAfter(k, n)
               /\ ToSet(piece(k)) = PartOf(f, LeftAfter(k, n), LeftBefore(k, n))
    <2>1. LeftBefore(k, n) \in Nat /\ LeftAfter(k, n) \in Nat /\ LeftAfter(k, n) <= LeftBefore(k, n) /\ LeftBefore(k, n) <= Len(f)
      BY <1>1, <1>6
    <2> DEFINE a == LeftAfter(k, n)
               b == LeftBefore(k, n)
               t == Reverse(SubSeq(f, a + 1, b))
    <2>2. a \in Nat /\ b \in Nat /\ a <= b /\ b <= Len(f)
      BY <2>1
    <2> HIDE DEF a, b
    <2>3. Len(t) = b - a /\ ToSet(t) = PartOf(f, a, b)
      BY <2>2, ReversedPart
    <2> QED
      BY <2>3 DEF a, b
  <1> HIDE DEF list, piece
  <1> QED
    BY <1>2, <1>4, <1>5, <1>6, <1>7 DEF list, MessagesHold

(* Every name is in one of the messages *)
LEMMA EveryNameIsSent ==
    ASSUME NEW n \in Nat, NEW p \in Nat, p > 0, NEW m \in Nat, n <= m * p, NEW j \in 1 .. n
    PROVE  \E k \in 1 .. m : n - k * p < j /\ j <= n - (k - 1) * p
  <1> DEFINE q == (n - j) \div p
             k == q + 1
  <1>1. n - j \in Nat
    OBVIOUS
  <1>2. q \in Int /\ p * q <= n - j /\ n - j < p * q + p
    BY <1>1, Quotient
  <1> HIDE DEF q
  <1>3. q * p = p * q /\ k * p = q * p + p /\ (k - 1) * p = q * p /\ q * p \in Int /\ k \in Int
    BY <1>2
  <1>4. q >= 0
    <2>1. q <= -1 => q * p <= (-1) * p /\ (-1) * p = -p
      BY <1>2, ProductsGrow
    <2> QED
      BY <1>1, <1>2, <1>3, <2>1
  <1>5. k <= m
    <2>1. m <= q => m * p <= q * p
      BY <1>2, ProductsGrow
    <2>2. m * p \in Int
      OBVIOUS
    <2> QED
      BY <1>2, <1>3, <2>1, <2>2
  <1>6. n - k * p < j /\ j <= n - (k - 1) * p
    BY <1>1, <1>2, <1>3
  <1>7. k \in 1 .. m
    BY <1>2, <1>4, <1>5
  <1> HIDE DEF k
  <1> QED
    BY <1>6, <1>7

(* What a list says of a set of names *)
TellsAll(list, S) ==
    LET size(k) == Len(list[k].names)
    IN  /\ UNION {ToSet(list[k].names) : k \in DOMAIN list} = S
        /\ size(1) + list[1].left = Cardinality(S)
        /\ \A k \in DOMAIN list :
              IF k = Len(list) THEN list[k].left = 0
              ELSE list[k].left > 0 /\ list[k].left = size(k + 1) + list[k + 1].left

(* A list of no names is one message without a name *)
LEMMA EmptyListTells ==
    ASSUME NEW f, Len(f) = 0 PROVE TellsAll(NamesInMessages(f), {})
  <1> DEFINE list == NamesInMessages(f)
  <1>1. list = <<[names |-> <<>>, left |-> 0]>>
    BY DEF NamesInMessages
  <1> HIDE DEF list
  <1>2. DOMAIN list = {1} /\ Len(list) = 1 /\ list[1].names = <<>> /\ list[1].left = 0
    BY <1>1
  <1>3. ToSet(<<>>) = {} /\ Len(<<>>) = 0
    BY DEF ToSet
  <1>4. UNION {ToSet(list[k].names) : k \in DOMAIN list} = {}
    BY <1>2, <1>3
  <1>5. Len(list[1].names) + list[1].left = Cardinality({})
    BY <1>2, <1>3, FS_EmptySet
  <1>6. \A k \in DOMAIN list : k = Len(list) /\ list[k].left = 0
    BY <1>2
  <1> QED
    BY <1>4, <1>5, <1>6 DEF TellsAll, list

(* The messages of a list of names, of which every element is there, tell all of them *)
LEMMA NamesTell ==
    ASSUME NEW S, NEW n \in Nat, n = Cardinality(S), n > 0, NEW f \in [1 .. n -> S],
           \A x \in S : \E i \in 1 .. n : f[i] = x
    PROVE  TellsAll(NamesInMessages(f), S)
  <1> DEFINE P == NamesPerMessage
             m == (n + P - 1) \div P
             over(k) == LeftBefore(k, n)
             list == NamesInMessages(f)
             left(k) == LeftAfter(k, n)
             size(k) == Len(list[k].names)
  <1>1. f \in Seq(S) /\ Len(f) = n /\ P \in Nat /\ P > 0
    BY StartupAssumption
  <1>2. /\ m \in Nat /\ m > 0 /\ n <= m * P /\ (m - 1) * P < n
        /\ DOMAIN list = 1 .. m /\ Len(list) = m
        /\ \A k \in 1 .. m :
              /\ list[k].left = left(k)
              /\ over(k) \in Nat /\ left(k) \in Nat /\ left(k) < over(k) /\ over(k) <= n
              /\ size(k) = over(k) - left(k)
              /\ ToSet(list[k].names) = PartOf(f, left(k), over(k))
    <2>1. Len(f) > 0 /\ n = Len(f) /\ m = (n + NamesPerMessage - 1) \div NamesPerMessage
      BY <1>1
    <2> HIDE DEF m
    <2>2. MessagesHold(NamesInMessages(f), f, n, m)
      BY <1>1, <2>1, MessageFacts
    <2> QED
      BY <2>2 DEF MessagesHold
  <1> HIDE DEF list, m
  <1>3. \A k \in Int : left(k) = IF n > k * P THEN n - k * P ELSE 0
    BY <1>1 DEF LeftAfter
  <1>4. \A k \in Int : k * P \in Int /\ over(k + 1) = n - k * P
    BY <1>1 DEF LeftBefore
  <1>5. size(1) + list[1].left = n
    <2>1. 1 \in 1 .. m /\ over(1) = n
      BY <1>1, <1>2 DEF LeftBefore
    <2> HIDE DEF over, left, size
    <2>2. size(1) = over(1) - left(1) /\ list[1].left = left(1) /\ left(1) \in Nat
      BY <1>2, <2>1
    <2> QED
      BY <2>1, <2>2
  <1>6. ASSUME NEW k \in 1 .. m
        PROVE  IF k = m THEN list[k].left = 0
               ELSE list[k].left > 0 /\ list[k].left = size(k + 1) + list[k + 1].left
    <2>1. k \in Int /\ m \in Int
      BY <1>2
    <2>2. CASE k = m
      <3>1. ~(n > k * P)
        <4>1. n <= k * P
          BY <1>2, <2>2
        <4>2. k * P \in Int
          BY <1>4, <2>1
        <4> QED
          BY <4>1, <4>2
      <3>2. left(k) = 0
        BY <1>3, <2>1, <3>1
      <3> QED
        BY <1>2, <2>2, <3>2
    <2>3. CASE k # m
      <3>1. k + 1 \in 1 .. m /\ k <= m - 1 /\ m - 1 \in Int
        BY <2>1, <2>3
      <3>2. k * P <= (m - 1) * P /\ (m - 1) * P \in Int /\ k * P \in Int
        BY <1>1, <2>1, <3>1, ProductsGrow
      <3>3. n > k * P
        BY <1>2, <3>2
      <3>4. left(k) = n - k * P /\ over(k + 1) = n - k * P
        BY <1>3, <1>4, <2>1, <3>3
      <3> HIDE DEF over, left, size
      <3>5. list[k].left = left(k) /\ list[k + 1].left = left(k + 1)
            /\ size(k + 1) = over(k + 1) - left(k + 1) /\ left(k + 1) \in Nat
        BY <1>2, <3>1
      <3>6. over(k + 1) \in Nat
        BY <1>2, <3>1
      <3> QED
        BY <2>3, <3>2, <3>3, <3>4, <3>5, <3>6
    <2> QED
      BY <2>2, <2>3
  <1>7. ASSUME NEW k \in 1 .. m PROVE ToSet(list[k].names) \subseteq S
    <2>1. over(k) \in Nat /\ left(k) \in Nat /\ ToSet(list[k].names) = PartOf(f, left(k), over(k))
      BY <1>2
    <2>2. over(k) <= n
      BY <1>2
    <2> HIDE DEF over, left
    <2>4. \A j \in left(k) + 1 .. over(k) : j \in 1 .. n
      BY <2>1, <2>2
    <2> QED
      BY <2>1, <2>4 DEF PartOf
  <1>8. ASSUME NEW x \in S PROVE \E k \in 1 .. m : x \in ToSet(list[k].names)
    <2>1. PICK j \in 1 .. n : f[j] = x
      OBVIOUS
    <2>2. PICK k \in 1 .. m : n - k * P < j /\ j <= n - (k - 1) * P
      BY <1>1, <1>2, EveryNameIsSent
    <2>3. left(k) < j
      <3>1. k \in Int
        BY <1>2
      <3>2. k * P \in Int /\ left(k) = IF n > k * P THEN n - k * P ELSE 0
        BY <1>3, <1>4, <3>1
      <3> HIDE DEF left
      <3> QED
        BY <2>2, <3>2
    <2>4. over(k) \in Nat /\ left(k) \in Nat /\ ToSet(list[k].names) = PartOf(f, left(k), over(k))
      BY <1>2
    <2>5. j <= over(k)
      BY <2>2 DEF LeftBefore
    <2> HIDE DEF over, left
    <2>6. j \in left(k) + 1 .. over(k)
      BY <2>3, <2>4, <2>5
    <2> QED
      BY <2>1, <2>4, <2>6 DEF PartOf
  <1>9. UNION {ToSet(list[k].names) : k \in DOMAIN list} = S
    BY <1>2, <1>7, <1>8
  <1> QED
    BY <1>2, <1>5, <1>6, <1>9 DEF TellsAll, list

(* The messages of a list of a finite set of names tell all of them *)
LEMMA SetIsTold ==
    ASSUME NEW S, IsFiniteSet(S) PROVE TellsAll(NamesInMessages(SetToSeq(S)), S)
  <1> DEFINE n == Cardinality(S)
             f == SetToSeq(S)
  <1>1. n \in Nat /\ f \in [1 .. n -> S] /\ \A x \in S : \E i \in 1 .. n : f[i] = x
    BY ListOfASet
  <1>2. Len(f) = n
    BY <1>1
  <1>3. CASE n = 0
    <2>1. S = {}
      BY <1>3, FS_EmptySet
    <2> QED
      BY <1>2, <1>3, <2>1, EmptyListTells
  <1>4. CASE n > 0
    <2> HIDE DEF f, n
    <2>1. n = Cardinality(S)
      BY DEF n
    <2>2. TellsAll(NamesInMessages(f), S)
      BY <1>1, <1>4, <2>1, NamesTell
    <2> QED
      BY <2>2 DEF f
  <1> QED
    BY <1>1, <1>3, <1>4

-----------------------------------------------------------------------------
(* Startup: what is loaded so far is what the file says up to there *)

Phases == {"start", "modules", "ships", "players", "asteroids", "clouds", "arbitrator",
           "running", "failed"}

(* The number of items of a section that are loaded *)
ItemsIn(section, earlier, all) ==
    IF loadPhase = section THEN item ELSE IF loadPhase \in earlier THEN 0 ELSE all

ModulesIn   == ItemsIn("modules", {"start"}, Len(config.modules))
ShipsIn     == ItemsIn("ships", {"start", "modules"}, Len(config.ships))
PlayersIn   == ItemsIn("players", {"start", "modules", "ships"}, Len(config.players))
AsteroidsIn == ItemsIn("asteroids", {"start", "modules", "ships", "players"}, Len(config.asteroids))
CloudsIn    == ItemsIn("clouds", {"start", "modules", "ships", "players", "asteroids"},
                       Len(config.clouds))

PhaseInv ==
    /\ config \in Configurations /\ loadPhase \in Phases /\ item \in Nat
    /\ loadPhase = "start" => item = 0
    /\ loadPhase = "modules" => item <= Len(config.modules)
    /\ loadPhase = "ships" => item <= Len(config.ships)
    /\ loadPhase = "players" => item <= Len(config.players)
    /\ loadPhase = "asteroids" => item <= Len(config.asteroids)
    /\ loadPhase = "clouds" => item <= Len(config.clouds)

LibraryInv ==
    /\ IsFiniteSet(DOMAIN library)
    /\ loadPhase # "failed" =>
          /\ \A i \in 1 .. ModulesIn :
                <<config.modules[i].class, config.modules[i].type>> \in DOMAIN library
          /\ \A i \in 1 .. ShipsIn : <<"Ship", config.ships[i].type>> \in DOMAIN library

(* Ships are built after the last blueprint is loaded, so that no blueprint is
   replaced under a ship. *)
AccountsInv ==
    /\ loadPhase \in {"start", "modules", "ships"} => accounts = <<>>
    /\ \A login \in DOMAIN accounts : IsList(accounts[login])
    /\ ShipsAreWhole
    /\ loadPhase # "failed" =>
          /\ DOMAIN accounts = {config.players[i].login : i \in 1 .. PlayersIn}
          /\ \A i \in 1 .. PlayersIn : PlayerIsIn(config.players[i])

PiecesOf(i) == {k \in DOMAIN rocks : rocks[k] = <<"cloud", i>>}

RocksInv ==
    /\ IsList(rocks)
    /\ loadPhase # "failed" =>
          /\ \A i \in 1 .. AsteroidsIn : \E k \in DOMAIN rocks : rocks[k] = <<"asteroid", i>>
          /\ \A i \in DOMAIN config.clouds : i > CloudsIn => PiecesOf(i) = {}
          /\ config.hasAsteroids =>
                \A i \in 1 .. CloudsIn : Cardinality(PiecesOf(i)) = config.clouds[i].total

ListInv == told.filter # "none" => loadPhase = "running" /\ ListIsExact

StartupInv == PhaseInv /\ LibraryInv /\ AccountsInv /\ RocksInv /\ ListInv

(* The lists of a configuration, and the numbers in it *)
LEMMA FileFacts ==
    ASSUME config \in Configurations
    PROVE  /\ Len(config.modules) \in Nat /\ DOMAIN config.modules = 1 .. Len(config.modules)
           /\ Len(config.ships) \in Nat /\ DOMAIN config.ships = 1 .. Len(config.ships)
           /\ Len(config.players) \in Nat /\ DOMAIN config.players = 1 .. Len(config.players)
           /\ Len(config.asteroids) \in Nat /\ DOMAIN config.asteroids = 1 .. Len(config.asteroids)
           /\ Len(config.clouds) \in Nat /\ DOMAIN config.clouds = 1 .. Len(config.clouds)
           /\ config.hasAsteroids \in BOOLEAN
           /\ \A i \in DOMAIN config.players : IsList(config.players[i].ships)
           /\ \A i \in DOMAIN config.clouds : config.clouds[i].total \in Nat
  BY ConfigurationsAssumption, ListFacts

(* The position of a section in the file *)
LEMMA SectionFacts ==
    /\ DOMAIN Sections = 1 .. 6 /\ Len(Sections) = 6
    /\ Sections[1] = "modules" /\ Sections[2] = "ships" /\ Sections[3] = "players"
    /\ Sections[4] = "asteroids" /\ Sections[5] = "clouds" /\ Sections[6] = "arbitrator"
  BY DEF Sections

(* A section is loaded when all its items are *)
LEMMA LoadedFacts ==
    /\ SectionIsLoaded(1) <=> item = Len(config.modules)
    /\ SectionIsLoaded(2) <=> item = Len(config.ships)
    /\ SectionIsLoaded(3) <=> item = Len(config.players)
    /\ SectionIsLoaded(4) <=> item = Len(config.asteroids)
    /\ SectionIsLoaded(5) <=> (config.hasAsteroids => item = Len(config.clouds))
  BY SectionFacts DEF SectionIsLoaded

(* An item is loaded only while there is one *)
LEMMA LoadingFacts ==
    /\ Loading("modules") => loadPhase = "modules" /\ item # Len(config.modules)
    /\ Loading("ships") => loadPhase = "ships" /\ item # Len(config.ships)
    /\ Loading("players") => loadPhase = "players" /\ item # Len(config.players)
    /\ Loading("asteroids") => loadPhase = "asteroids" /\ item # Len(config.asteroids)
    /\ Loading("clouds") => /\ loadPhase = "clouds" /\ config.hasAsteroids
                            /\ item # Len(config.clouds)
    /\ Loading("arbitrator") => loadPhase = "arbitrator"
  <1>1. {1, 2, 3, 4, 5} \subseteq DOMAIN Sections
    BY SectionFacts
  <1> QED
    BY <1>1, SectionFacts, LoadedFacts DEF Loading

(* One section follows the other *)
LEMMA NextSectionIs ==
    ASSUME NextSection
    PROVE  /\ item' = 0
           /\ UNCHANGED <<config, library, accounts, rocks, chain, spawned, told>>
           /\ \/ loadPhase = "modules" /\ loadPhase' = "ships" /\ item = Len(config.modules)
              \/ loadPhase = "ships" /\ loadPhase' = "players" /\ item = Len(config.ships)
              \/ loadPhase = "players" /\ loadPhase' = "asteroids" /\ item = Len(config.players)
              \/ loadPhase = "asteroids" /\ loadPhase' = "clouds" /\ item = Len(config.asteroids)
              \/ /\ loadPhase = "clouds" /\ loadPhase' = "arbitrator"
                 /\ config.hasAsteroids => item = Len(config.clouds)
              \/ loadPhase = "arbitrator" /\ loadPhase' = "running"
  <1>1. PICK i \in 1 .. 6 :
          /\ loadPhase = Sections[i] /\ SectionIsLoaded(i)
          /\ loadPhase' = IF i < 6 THEN Sections[i + 1] ELSE "running"
          /\ item' = 0
          /\ UNCHANGED <<config, library, accounts, rocks, chain, spawned, told>>
    BY SectionFacts DEF NextSection
  <1>2. CASE i = 1
    BY <1>1, <1>2, SectionFacts, LoadedFacts
  <1>3. CASE i = 2
    BY <1>1, <1>3, SectionFacts, LoadedFacts
  <1>4. CASE i = 3
    BY <1>1, <1>4, SectionFacts, LoadedFacts
  <1>5. CASE i = 4
    BY <1>1, <1>5, SectionFacts, LoadedFacts
  <1>6. CASE i = 5
    BY <1>1, <1>6, SectionFacts, LoadedFacts
  <1>7. CASE i = 6
    BY <1>1, <1>7, SectionFacts
  <1>8. i = 1 \/ i = 2 \/ i = 3 \/ i = 4 \/ i = 5 \/ i = 6
    OBVIOUS
  <1> QED
    BY <1>2, <1>3, <1>4, <1>5, <1>6, <1>7, <1>8

(* The step from one section to the next leaves everything that is loaded *)
LEMMA PhaseChange ==
    ASSUME PhaseInv, Initialize \/ NextSection
    PROVE  /\ PhaseInv' /\ loadPhase # "failed"
           /\ UNCHANGED <<config, library, accounts, rocks, spawned, told>>
           /\ loadPhase' \in {"start", "modules", "ships"} => loadPhase \in {"start", "modules", "ships"}
           /\ loadPhase # "running"
           /\ loadPhase' # "failed" =>
                 /\ ModulesIn' = ModulesIn /\ ShipsIn' = ShipsIn /\ PlayersIn' = PlayersIn
                 /\ AsteroidsIn' = AsteroidsIn /\ CloudsIn \in Nat /\ CloudsIn' \in Nat
                 /\ CloudsIn' >= CloudsIn /\ (config.hasAsteroids => CloudsIn' = CloudsIn)
  <1> USE DEF ItemsIn, ModulesIn, ShipsIn, PlayersIn, AsteroidsIn, CloudsIn
  <1>1. CASE Initialize
    <2>1. loadPhase = "start" /\ loadPhase' \in {"modules", "failed"} /\ item = 0 /\ item' = item
          /\ UNCHANGED <<config, library, accounts, rocks, spawned, told>>
      BY <1>1, SectionFacts DEF Initialize, PhaseInv
    <2>2. PhaseInv'
      BY <2>1, FileFacts DEF PhaseInv, Phases
    <2> QED
      BY <2>1, <2>2
  <1>2. CASE NextSection
    <2>1. /\ item' = 0
          /\ UNCHANGED <<config, library, accounts, rocks, chain, spawned, told>>
          /\ \/ loadPhase = "modules" /\ loadPhase' = "ships" /\ item = Len(config.modules)
             \/ loadPhase = "ships" /\ loadPhase' = "players" /\ item = Len(config.ships)
             \/ loadPhase = "players" /\ loadPhase' = "asteroids" /\ item = Len(config.players)
             \/ loadPhase = "asteroids" /\ loadPhase' = "clouds" /\ item = Len(config.asteroids)
             \/ /\ loadPhase = "clouds" /\ loadPhase' = "arbitrator"
                /\ config.hasAsteroids => item = Len(config.clouds)
             \/ loadPhase = "arbitrator" /\ loadPhase' = "running"
      BY <1>2, NextSectionIs
    <2>2. PhaseInv'
      BY <2>1, FileFacts DEF PhaseInv, Phases
    <2>3. item \in Nat /\ (loadPhase = "clouds" => item <= Len(config.clouds)) /\ Len(config.clouds) \in Nat
      BY FileFacts DEF PhaseInv
    <2> QED
      BY <2>1, <2>2, <2>3
  <1> QED
    BY <1>1, <1>2

(* The loading of an item *)
LEMMA PhaseItem ==
    ASSUME PhaseInv, Loaded,
           \/ Loading("modules") \/ Loading("ships") \/ Loading("players")
           \/ Loading("asteroids") \/ Loading("clouds") \/ Loading("arbitrator")
    PROVE  PhaseInv' /\ UNCHANGED <<config, loadPhase, told>> /\ item' = item + 1
  <1>1. UNCHANGED <<config, loadPhase, told>> /\ item' = item + 1
    BY DEF Loaded
  <1>2. /\ loadPhase \in {"modules", "ships", "players", "asteroids", "clouds", "arbitrator"}
        /\ loadPhase = "modules" => item # Len(config.modules)
        /\ loadPhase = "ships" => item # Len(config.ships)
        /\ loadPhase = "players" => item # Len(config.players)
        /\ loadPhase = "asteroids" => item # Len(config.asteroids)
        /\ loadPhase = "clouds" => item # Len(config.clouds)
    BY LoadingFacts
  <1>3. item + 1 \in Nat
    BY DEF PhaseInv
  <1>4. loadPhase = "modules" => item + 1 <= Len(config.modules)
    BY <1>2, FileFacts DEF PhaseInv
  <1>5. loadPhase = "ships" => item + 1 <= Len(config.ships)
    BY <1>2, FileFacts DEF PhaseInv
  <1>6. loadPhase = "players" => item + 1 <= Len(config.players)
    BY <1>2, FileFacts DEF PhaseInv
  <1>7. loadPhase = "asteroids" => item + 1 <= Len(config.asteroids)
    BY <1>2, FileFacts DEF PhaseInv
  <1>8. loadPhase = "clouds" => item + 1 <= Len(config.clouds)
    BY <1>2, FileFacts DEF PhaseInv
  <1> QED
    BY <1>1, <1>2, <1>3, <1>4, <1>5, <1>6, <1>7, <1>8 DEF PhaseInv

(* A failure leaves what is loaded where it is, and nothing has been told before *)
LEMMA FailInv ==
    ASSUME StartupInv, Fail, loadPhase # "running" PROVE StartupInv'
  <1>1. loadPhase' = "failed" /\ UNCHANGED <<config, item, library, accounts, rocks, told>>
    BY DEF Fail
  <1>2. PhaseInv'
    BY <1>1 DEF StartupInv, PhaseInv, Phases
  <1>3. LibraryInv'
    BY <1>1 DEF StartupInv, LibraryInv
  <1>4. AccountsInv'
    BY <1>1 DEF StartupInv, AccountsInv, ShipsAreWhole
  <1>5. RocksInv'
    BY <1>1 DEF StartupInv, RocksInv
  <1>6. ListInv'
    BY <1>1 DEF StartupInv, ListInv
  <1> QED
    BY <1>2, <1>3, <1>4, <1>5, <1>6 DEF StartupInv

(* Nothing is loaded between two sections *)
LEMMA PhaseChangeInv ==
    ASSUME StartupInv, Initialize \/ NextSection PROVE StartupInv'
  <1>1. /\ PhaseInv' /\ loadPhase # "failed"
        /\ UNCHANGED <<config, library, accounts, rocks, told>>
        /\ loadPhase' \in {"start", "modules", "ships"} => loadPhase \in {"start", "modules", "ships"}
        /\ loadPhase # "running"
        /\ loadPhase' # "failed" =>
              /\ ModulesIn' = ModulesIn /\ ShipsIn' = ShipsIn /\ PlayersIn' = PlayersIn
              /\ AsteroidsIn' = AsteroidsIn /\ CloudsIn \in Nat /\ CloudsIn' \in Nat
              /\ CloudsIn' >= CloudsIn /\ (config.hasAsteroids => CloudsIn' = CloudsIn)
    BY PhaseChange DEF StartupInv
  <1>2. LibraryInv'
    BY <1>1 DEF StartupInv, LibraryInv
  <1>3. AccountsInv'
    <2>1. ShipsAreWhole'
      BY <1>1 DEF StartupInv, AccountsInv, ShipsAreWhole
    <2>2. \A i : PlayerIsIn(config.players[i]) => PlayerIsIn(config.players[i])'
      BY <1>1 DEF PlayerIsIn
    <2>3. loadPhase' # "failed" =>
             /\ DOMAIN accounts' = {config'.players[i].login : i \in 1 .. PlayersIn'}
             /\ \A i \in 1 .. PlayersIn' : PlayerIsIn(config.players[i])'
      BY <1>1, <2>2 DEF StartupInv, AccountsInv
    <2> QED
      BY <1>1, <2>1, <2>3 DEF StartupInv, AccountsInv
  <1>4. RocksInv'
    <2>1. \A i : PiecesOf(i)' = PiecesOf(i)
      BY <1>1 DEF PiecesOf
    <2>2. CASE loadPhase' = "failed"
      BY <1>1, <2>2 DEF StartupInv, RocksInv
    <2>3. CASE loadPhase' # "failed"
      <3>1. \A i \in DOMAIN config.clouds : i > CloudsIn' => PiecesOf(i) = {}
        <4>1. \A i \in DOMAIN config.clouds : i \in Nat
          BY FileFacts DEF StartupInv, PhaseInv
        <4>2. \A i \in Nat : i > CloudsIn' => i > CloudsIn
          BY <1>1, <2>3
        <4> QED
          BY <1>1, <2>3, <4>1, <4>2 DEF StartupInv, RocksInv
      <3>2. config.hasAsteroids =>
               \A i \in 1 .. CloudsIn' : Cardinality(PiecesOf(i)) = config.clouds[i].total
        BY <1>1, <2>3 DEF StartupInv, RocksInv
      <3>3. \A i \in 1 .. AsteroidsIn' : \E k \in DOMAIN rocks : rocks[k] = <<"asteroid", i>>
        BY <1>1, <2>3 DEF StartupInv, RocksInv
      <3> QED
        BY <1>1, <2>1, <3>1, <3>2, <3>3 DEF StartupInv, RocksInv
    <2> QED
      BY <2>2, <2>3
  <1>5. ListInv'
    BY <1>1 DEF StartupInv, ListInv
  <1> QED
    BY <1>1, <1>2, <1>3, <1>4, <1>5 DEF StartupInv

(* The blueprint of a module *)
LEMMA ModuleInv ==
    ASSUME StartupInv, LoadModuleBlueprint PROVE StartupInv'
  <1> DEFINE b == config.modules[item + 1]
             n == <<b.class, b.type>>
  <1>1. Loading("modules") /\ loadPhase = "modules"
    BY LoadingFacts DEF LoadModuleBlueprint
  <1>2. CASE Fail
    BY <1>1, <1>2, FailInv
  <1>3. CASE Loaded
    <2>1. DOMAIN library' = DOMAIN library \cup {n} /\ UNCHANGED <<accounts, rocks>>
      BY <1>1, <1>3 DEF LoadModuleBlueprint, Fail, Loaded
    <2>2. PhaseInv' /\ UNCHANGED <<config, loadPhase, told>> /\ item' = item + 1 /\ item \in Nat
      BY <1>1, <1>3, PhaseItem DEF StartupInv, PhaseInv
    <2>3. /\ ModulesIn = item /\ ModulesIn' = item + 1 /\ ShipsIn' = ShipsIn /\ ShipsIn = 0
          /\ PlayersIn = 0 /\ PlayersIn' = 0
          /\ AsteroidsIn = 0 /\ AsteroidsIn' = 0 /\ CloudsIn = 0 /\ CloudsIn' = 0
      BY <1>1, <2>2 DEF ItemsIn, ModulesIn, ShipsIn, PlayersIn, AsteroidsIn, CloudsIn
    <2>4. LibraryInv'
      <3>1. IsFiniteSet(DOMAIN library')
        BY <2>1, FS_AddElement DEF StartupInv, LibraryInv
      <3>2. \A i \in 1 .. item + 1 : i \in 1 .. item \/ i = item + 1
        BY <2>2
      <3>3. \A i \in 1 .. item + 1 :
               <<config.modules[i].class, config.modules[i].type>> \in DOMAIN library'
        BY <1>1, <2>1, <2>3, <3>2 DEF StartupInv, LibraryInv
      <3>4. \A i \in 1 .. 0 : FALSE
        OBVIOUS
      <3> QED
        BY <2>2, <2>3, <3>1, <3>3, <3>4 DEF LibraryInv
    <2>5. AccountsInv'
      <3>1. accounts = <<>> /\ accounts' = <<>>
        BY <1>1, <2>1 DEF StartupInv, AccountsInv
      <3>2. DOMAIN accounts' = {}
        BY <3>1
      <3>3. \A i \in 1 .. 0 : FALSE
        OBVIOUS
      <3> QED
        BY <2>3, <3>1, <3>2, <3>3 DEF AccountsInv, ShipsAreWhole
    <2>6. RocksInv'
      <3>1. \A i : PiecesOf(i)' = PiecesOf(i)
        BY <2>1 DEF PiecesOf
      <3> QED
        BY <2>1, <2>2, <2>3, <3>1 DEF StartupInv, RocksInv
    <2>7. ListInv'
      BY <1>1, <2>2 DEF StartupInv, ListInv
    <2> QED
      BY <2>2, <2>4, <2>5, <2>6, <2>7 DEF StartupInv
  <1> QED
    BY <1>2, <1>3 DEF LoadModuleBlueprint

(* The blueprint of a ship *)
LEMMA ShipInv ==
    ASSUME StartupInv, LoadShipBlueprint PROVE StartupInv'
  <1> DEFINE n == <<"Ship", config.ships[item + 1].type>>
  <1>1. Loading("ships") /\ loadPhase = "ships"
    BY LoadingFacts DEF LoadShipBlueprint
  <1>2. CASE Fail
    BY <1>1, <1>2, FailInv
  <1>3. CASE Loaded
    <2>1. DOMAIN library' = DOMAIN library \cup {n} /\ UNCHANGED <<accounts, rocks>>
      BY <1>1, <1>3 DEF LoadShipBlueprint, Fail, Loaded
    <2>2. PhaseInv' /\ UNCHANGED <<config, loadPhase, told>> /\ item' = item + 1 /\ item \in Nat
      BY <1>1, <1>3, PhaseItem DEF StartupInv, PhaseInv
    <2>3. /\ ModulesIn' = ModulesIn /\ ShipsIn = item /\ ShipsIn' = item + 1
          /\ PlayersIn = 0 /\ PlayersIn' = 0
          /\ AsteroidsIn = 0 /\ AsteroidsIn' = 0 /\ CloudsIn = 0 /\ CloudsIn' = 0
      BY <1>1, <2>2 DEF ItemsIn, ModulesIn, ShipsIn, PlayersIn, AsteroidsIn, CloudsIn
    <2>4. LibraryInv'
      <3>1. IsFiniteSet(DOMAIN library')
        BY <2>1, FS_AddElement DEF StartupInv, LibraryInv
      <3>2. \A i \in 1 .. item + 1 : i \in 1 .. item \/ i = item + 1
        BY <2>2
      <3>3. \A i \in 1 .. item + 1 : <<"Ship", config.ships[i].type>> \in DOMAIN library'
        BY <1>1, <2>1, <2>3, <3>2 DEF StartupInv, LibraryInv
      <3>4. \A i \in 1 .. ModulesIn :
               <<config.modules[i].class, config.modules[i].type>> \in DOMAIN library'
        BY <1>1, <2>1 DEF StartupInv, LibraryInv
      <3> QED
        BY <2>2, <2>3, <3>1, <3>3, <3>4 DEF LibraryInv
    <2>5. AccountsInv'
      <3>1. accounts = <<>> /\ accounts' = <<>>
        BY <1>1, <2>1 DEF StartupInv, AccountsInv
      <3>2. DOMAIN accounts' = {}
        BY <3>1
      <3>3. \A i \in 1 .. 0 : FALSE
        OBVIOUS
      <3> QED
        BY <2>3, <3>1, <3>2, <3>3 DEF AccountsInv, ShipsAreWhole
    <2>6. RocksInv'
      <3>1. \A i : PiecesOf(i)' = PiecesOf(i)
        BY <2>1 DEF PiecesOf
      <3> QED
        BY <2>1, <2>2, <2>3, <3>1 DEF StartupInv, RocksInv
    <2>7. ListInv'
      BY <1>1, <2>2 DEF StartupInv, ListInv
    <2> QED
      BY <2>2, <2>4, <2>5, <2>6, <2>7 DEF StartupInv
  <1> QED
    BY <1>2, <1>3 DEF LoadShipBlueprint

(* An object of the world: a new element of the list, and no new blueprint or player *)
LEMMA QuietLibrary ==
    ASSUME StartupInv, UNCHANGED <<config, loadPhase, library, accounts, told>>,
           ModulesIn' = ModulesIn, ShipsIn' = ShipsIn, PlayersIn' = PlayersIn
    PROVE  LibraryInv' /\ AccountsInv'
  <1>1. LibraryInv'
    BY DEF StartupInv, LibraryInv
  <1>2. ShipsAreWhole'
    BY DEF StartupInv, AccountsInv, ShipsAreWhole
  <1>3. \A i : PlayerIsIn(config.players[i]) => PlayerIsIn(config.players[i])'
    BY DEF PlayerIsIn
  <1> QED
    BY <1>1, <1>2, <1>3 DEF StartupInv, AccountsInv

(* An asteroid of the file *)
LEMMA AsteroidInv ==
    ASSUME StartupInv, LoadAsteroid PROVE StartupInv'
  <1>1. Loading("asteroids") /\ loadPhase = "asteroids"
    BY LoadingFacts DEF LoadAsteroid
  <1>2. CASE Fail
    BY <1>1, <1>2, FailInv
  <1>3. CASE Loaded
    <2> DEFINE e == <<"asteroid", item + 1>>
    <2>1. rocks' = Append(rocks, e) /\ UNCHANGED <<library, accounts>>
      BY <1>1, <1>3 DEF LoadAsteroid, Fail, Loaded
    <2>2. PhaseInv' /\ UNCHANGED <<config, loadPhase, told>> /\ item' = item + 1 /\ item \in Nat
      BY <1>1, <1>3, PhaseItem DEF StartupInv, PhaseInv
    <2>3. /\ ModulesIn' = ModulesIn /\ ShipsIn' = ShipsIn /\ PlayersIn' = PlayersIn
          /\ AsteroidsIn = item /\ AsteroidsIn' = item + 1 /\ CloudsIn = 0 /\ CloudsIn' = 0
      BY <1>1, <2>2 DEF ItemsIn, ModulesIn, ShipsIn, PlayersIn, AsteroidsIn, CloudsIn
    <2>4. LibraryInv' /\ AccountsInv'
      BY <2>1, <2>2, <2>3, QuietLibrary
    <2>5. RocksInv'
      <3> DEFINE n == Len(rocks)
      <3>1. /\ IsList(rocks) /\ n \in Nat /\ DOMAIN rocks = 1 .. n
            /\ IsList(rocks') /\ Len(rocks') = n + 1
            /\ \A k \in 1 .. n : rocks'[k] = rocks[k]
            /\ rocks'[n + 1] = e
        BY <2>1, AppendFacts, ListFacts DEF StartupInv, RocksInv
      <3>2. DOMAIN rocks' = 1 .. n + 1
        BY <3>1, ListFacts
      <3> HIDE DEF n
      <3>3. \A k \in 1 .. n + 1 : k \in 1 .. n \/ k = n + 1
        BY <3>1
      <3>4. \A i : e # <<"cloud", i>>
        OBVIOUS
      <3>5. n + 1 \notin DOMAIN rocks /\ n + 1 \in DOMAIN rocks' /\ DOMAIN rocks \subseteq DOMAIN rocks'
        BY <3>1, <3>2
      <3>6. \A k \in DOMAIN rocks' : k \in DOMAIN rocks \/ k = n + 1
        BY <3>1, <3>2, <3>3
      <3>7. \A k \in DOMAIN rocks : rocks'[k] = rocks[k]
        BY <3>1
      <3>8. \A i : PiecesOf(i)' = PiecesOf(i)
        BY <3>1, <3>4, <3>5, <3>6, <3>7 DEF PiecesOf
      <3>9. ASSUME NEW i \in 1 .. item + 1 PROVE \E k \in DOMAIN rocks' : rocks'[k] = <<"asteroid", i>>
        <4>1. CASE i = item + 1
          BY <3>1, <3>5, <4>1
        <4>2. CASE i \in 1 .. item
          BY <1>1, <2>3, <3>5, <3>7, <4>2 DEF StartupInv, RocksInv
        <4> QED
          BY <2>2, <4>1, <4>2
      <3>10. \A i \in DOMAIN config.clouds : i > 0 => PiecesOf(i) = {}
        BY <1>1, <2>3 DEF StartupInv, RocksInv
      <3>11. \A i \in 1 .. 0 : FALSE
        OBVIOUS
      <3> QED
        BY <2>2, <2>3, <3>1, <3>8, <3>9, <3>10, <3>11 DEF RocksInv
    <2>6. ListInv'
      BY <1>1, <2>2 DEF StartupInv, ListInv
    <2> QED
      BY <2>2, <2>4, <2>5, <2>6 DEF StartupInv
  <1> QED
    BY <1>2, <1>3 DEF LoadAsteroid

(* The pieces of a cloud *)
LEMMA CloudInv ==
    ASSUME StartupInv, LoadCloud PROVE StartupInv'
  <1>1. Loading("clouds") /\ loadPhase = "clouds" /\ config.hasAsteroids /\ item # Len(config.clouds)
    BY LoadingFacts DEF LoadCloud
  <1>2. CASE Fail
    BY <1>1, <1>2, FailInv
  <1>3. CASE Loaded
    <2>0. PICK x : x = item + 1
      OBVIOUS
    <2> DEFINE e == <<"cloud", x>>
               total == config.clouds[x].total
    <2>1. rocks' = rocks \o [i \in 1 .. total |-> e] /\ UNCHANGED <<library, accounts>>
      BY <1>1, <1>3, <2>0 DEF LoadCloud, Fail, Loaded
    <2>2. PhaseInv' /\ UNCHANGED <<config, loadPhase, told>> /\ item' = item + 1 /\ item \in Nat
      BY <1>1, <1>3, PhaseItem DEF StartupInv, PhaseInv
    <2>3. /\ ModulesIn' = ModulesIn /\ ShipsIn' = ShipsIn /\ PlayersIn' = PlayersIn
          /\ AsteroidsIn' = AsteroidsIn /\ CloudsIn = item /\ CloudsIn' = item + 1
      BY <1>1, <2>2 DEF ItemsIn, ModulesIn, ShipsIn, PlayersIn, AsteroidsIn, CloudsIn
    <2>4. LibraryInv' /\ AccountsInv'
      BY <2>1, <2>2, <2>3, QuietLibrary
    <2>5. x \in DOMAIN config.clouds /\ total \in Nat /\ DOMAIN config.clouds \subseteq Nat
          /\ x \in Nat /\ x > item
      BY <1>1, <2>0, <2>2, FileFacts DEF StartupInv, PhaseInv
    <2>6. RocksInv'
      <3> DEFINE n == Len(rocks)
      <3>1. /\ IsList(rocks) /\ n \in Nat /\ DOMAIN rocks = 1 .. n
            /\ IsList(rocks') /\ Len(rocks') = n + total
            /\ \A k \in 1 .. n : rocks'[k] = rocks[k]
            /\ \A k \in n + 1 .. n + total : rocks'[k] = e
        <4> DEFINE t == rocks \o [i \in 1 .. total |-> e]
        <4>1. IsList(rocks) /\ n \in Nat /\ DOMAIN rocks = 1 .. n
          BY ListFacts DEF StartupInv, RocksInv
        <4> HIDE DEF e, total
        <4>2. /\ IsList(t) /\ Len(t) = Len(rocks) + total
              /\ \A k \in 1 .. Len(rocks) : t[k] = rocks[k]
              /\ \A k \in Len(rocks) + 1 .. Len(rocks) + total : t[k] = e
          BY <2>5, <4>1, ConcatenationFacts
        <4>3. rocks' = t
          BY <2>1
        <4> HIDE DEF t
        <4> QED
          BY <4>1, <4>2, <4>3
      <3>2. DOMAIN rocks' = 1 .. n + total
        BY <3>1, ListFacts
      <3> HIDE DEF n, total
      <3>3. \A k \in 1 .. n + total : k \in 1 .. n \/ k \in n + 1 .. n + total
        BY <2>5, <3>1
      <3>4. \A k \in n + 1 .. n + total : k \in 1 .. n + total /\ k \notin 1 .. n
        BY <2>5, <3>1
      <3>5. 1 .. n \subseteq 1 .. n + total
        BY <2>5, <3>1
      <3>6. ASSUME NEW i, i # x PROVE PiecesOf(i)' = PiecesOf(i)
        <4>1. e # <<"cloud", i>>
          BY <3>6
        <4> HIDE DEF e
        <4> QED
          BY <3>1, <3>2, <3>3, <3>5, <4>1 DEF PiecesOf
      <3>7. PiecesOf(x) = {}
        BY <1>1, <2>2, <2>3, <2>5 DEF StartupInv, RocksInv
      <3>8. PiecesOf(x)' = n + 1 .. n + total
        <4>1. ASSUME NEW k \in 1 .. n PROVE rocks'[k] # e
          BY <3>1, <3>7 DEF PiecesOf
        <4>2. PiecesOf(x)' = {k \in DOMAIN rocks' : rocks'[k] = e}
          BY DEF PiecesOf
        <4> HIDE DEF e
        <4> QED
          BY <3>1, <3>2, <3>3, <3>4, <4>1, <4>2
      <3>9. Cardinality(n + 1 .. n + total) = total
        <4>1. n + 1 \in Int /\ n + total \in Int /\ (n + total) - (n + 1) + 1 = total
              /\ (n + 1 > n + total => total = 0)
          BY <2>5, <3>1
        <4> QED
          BY <4>1, FS_Interval
      <3>10. ASSUME NEW i \in 1 .. item + 1
             PROVE  Cardinality(PiecesOf(i)') = config.clouds[i].total
        <4>1. CASE i = x
          BY <3>8, <3>9, <4>1 DEF total
        <4>2. CASE i \in 1 .. item
          <5>1. i # x
            BY <2>2, <2>5, <4>2
          <5>2. Cardinality(PiecesOf(i)) = config.clouds[i].total
            BY <1>1, <2>3, <4>2 DEF StartupInv, RocksInv
          <5> QED
            BY <3>6, <5>1, <5>2
        <4> QED
          BY <2>0, <2>2, <4>1, <4>2
      <3>11. ASSUME NEW i \in DOMAIN config.clouds, i > item + 1 PROVE PiecesOf(i)' = {}
        <4>1. i # x /\ i > item
          BY <2>0, <2>2, <2>5, <3>11
        <4> QED
          BY <1>1, <2>3, <3>6, <4>1 DEF StartupInv, RocksInv
      <3>12. \A i \in 1 .. AsteroidsIn : \E k \in DOMAIN rocks' : rocks'[k] = <<"asteroid", i>>
        <4>1. \A i \in 1 .. AsteroidsIn : \E k \in DOMAIN rocks : rocks[k] = <<"asteroid", i>>
          BY <1>1 DEF StartupInv, RocksInv
        <4>2. \A k \in DOMAIN rocks : k \in DOMAIN rocks' /\ rocks'[k] = rocks[k]
          BY <3>1, <3>2, <3>5
        <4> QED
          BY <4>1, <4>2
      <3> QED
        BY <2>2, <2>3, <3>1, <3>10, <3>11, <3>12 DEF RocksInv
    <2>7. ListInv'
      BY <1>1, <2>2 DEF StartupInv, ListInv
    <2> QED
      BY <2>2, <2>4, <2>6, <2>7 DEF StartupInv
  <1> QED
    BY <1>2, <1>3 DEF LoadCloud

(* The end of the game *)
LEMMA ArbitratorInv ==
    ASSUME StartupInv, MakeArbitrator PROVE StartupInv'
  <1>1. Loading("arbitrator") /\ loadPhase = "arbitrator"
    BY LoadingFacts DEF MakeArbitrator
  <1>2. CASE Fail
    BY <1>1, <1>2, FailInv
  <1>3. CASE Loaded
    <2>1. UNCHANGED <<library, accounts, rocks>>
      BY <1>1, <1>3 DEF MakeArbitrator, Fail, Loaded
    <2>2. PhaseInv' /\ UNCHANGED <<config, loadPhase, told>>
      BY <1>1, <1>3, PhaseItem DEF StartupInv, PhaseInv
    <2>3. /\ ModulesIn' = ModulesIn /\ ShipsIn' = ShipsIn /\ PlayersIn' = PlayersIn
          /\ AsteroidsIn' = AsteroidsIn /\ CloudsIn' = CloudsIn
      BY <1>1, <2>2 DEF ItemsIn, ModulesIn, ShipsIn, PlayersIn, AsteroidsIn, CloudsIn
    <2>4. LibraryInv' /\ AccountsInv'
      BY <2>1, <2>2, <2>3, QuietLibrary
    <2>5. RocksInv'
      <3>1. \A i : PiecesOf(i)' = PiecesOf(i)
        BY <2>1 DEF PiecesOf
      <3> QED
        BY <2>1, <2>2, <2>3, <3>1 DEF StartupInv, RocksInv
    <2>6. ListInv'
      BY <1>1, <2>2 DEF StartupInv, ListInv
    <2> QED
      BY <2>2, <2>4, <2>5, <2>6 DEF StartupInv
  <1> QED
    BY <1>2, <1>3 DEF MakeArbitrator

(* A ship that can be built has all its modules *)
LEMMA BuiltWhole ==
    ASSUME NEW type, NEW name, NEW origin
    PROVE  /\ BuildShip(type, name, origin).type = type
           /\ BuildShip(type, name, origin).name = name
           /\ BuildShip(type, name, origin).origin = origin
           /\ CanBuild(type) =>
                 BuildShip(type, name, origin).modules = ToSet(library[<<"Ship", type>>])
  <1> DEFINE ship == BuildShip(type, name, origin)
             all == library[<<"Ship", type>>]
  <1>1. /\ ship.type = type /\ ship.name = name /\ ship.origin = origin
        /\ ship.modules = {m \in ToSet(all) : GetBlueprint(m[2])}
    BY DEF BuildShip
  <1>2. ASSUME CanBuild(type), NEW m \in ToSet(all) PROVE GetBlueprint(m[2])
    BY <1>2 DEF CanBuild, ToSet
  <1> QED
    BY <1>1, <1>2

(* A player and his ships *)
LEMMA PlayerInv ==
    ASSUME StartupInv, LoadPlayer PROVE StartupInv'
  <1>1. Loading("players") /\ loadPhase = "players" /\ item # Len(config.players)
    BY LoadingFacts DEF LoadPlayer
  <1>2. CASE Fail
    BY <1>1, <1>2, FailInv
  <1>3. CASE Loaded
    <2>0. PICK x : x = item + 1
      OBVIOUS
    <2> DEFINE player == config.players[x]
               new == player.login
               ship(i) == BuildShip(player.ships[i].type, player.ships[i].name, "file")
               fleet == [i \in DOMAIN player.ships |-> ship(i)]
    <2>1. /\ PlayerIsMade(player) /\ new \notin DOMAIN accounts
          /\ accounts' = [l \in DOMAIN accounts \cup {new} |-> IF l = new THEN fleet ELSE accounts[l]]
          /\ UNCHANGED <<library, rocks>>
      BY <1>1, <1>3, <2>0 DEF LoadPlayer, Fail, Loaded
    <2>2. PhaseInv' /\ UNCHANGED <<config, loadPhase, told>> /\ item' = item + 1 /\ item \in Nat
      BY <1>1, <1>3, PhaseItem DEF StartupInv, PhaseInv
    <2>3. /\ ModulesIn' = ModulesIn /\ ShipsIn' = ShipsIn /\ PlayersIn = item /\ PlayersIn' = item + 1
          /\ AsteroidsIn' = AsteroidsIn /\ CloudsIn' = CloudsIn
      BY <1>1, <2>2 DEF ItemsIn, ModulesIn, ShipsIn, PlayersIn, AsteroidsIn, CloudsIn
    <2>4. x \in DOMAIN config.players /\ IsList(player.ships)
      <3>1. item + 1 \in 1 .. Len(config.players)
        BY <1>1, FileFacts DEF StartupInv, PhaseInv
      <3> QED
        BY <2>0, <3>1, FileFacts DEF StartupInv, PhaseInv
    <2>5. Len(player.ships) \in Nat /\ DOMAIN player.ships = 1 .. Len(player.ships)
      BY <2>4, ListFacts
    <2>6. LibraryInv'
      BY <2>1, <2>2, <2>3 DEF StartupInv, LibraryInv
    <2>7. \A i \in DOMAIN player.ships :
             /\ ship(i).type = player.ships[i].type /\ ship(i).name = player.ships[i].name
             /\ ship(i).origin = "file"
             /\ ship(i).modules = ToSet(library[<<"Ship", ship(i).type>>])
      <3> SUFFICES ASSUME NEW i \in DOMAIN player.ships
                   PROVE  /\ ship(i).type = player.ships[i].type /\ ship(i).name = player.ships[i].name
                          /\ ship(i).origin = "file"
                          /\ ship(i).modules = ToSet(library[<<"Ship", ship(i).type>>])
        OBVIOUS
      <3>1. CanBuild(player.ships[i].type)
        BY <2>1 DEF PlayerIsMade
      <3> HIDE DEF player
      <3>2. /\ ship(i).type = player.ships[i].type /\ ship(i).name = player.ships[i].name
            /\ ship(i).origin = "file"
            /\ ship(i).modules = ToSet(library[<<"Ship", player.ships[i].type>>])
        BY <3>1, BuiltWhole
      <3> HIDE DEF ship
      <3> QED
        BY <3>2
    <2>8. IsList(fleet) /\ Len(fleet) = Len(player.ships) /\ DOMAIN fleet = DOMAIN player.ships
      <3> DEFINE n == Len(player.ships)
      <3>1. n \in Nat /\ fleet = [i \in 1 .. n |-> ship(i)]
        BY <2>5
      <3> HIDE DEF n, ship, fleet
      <3>2. \A i \in 1 .. n : fleet[i] \in ToSet(fleet)
        BY <3>1 DEF ToSet
      <3>3. fleet \in Seq(ToSet(fleet)) /\ Len(fleet) = n /\ DOMAIN fleet = 1 .. n
        <4>1. fleet = [i \in 1 .. n |-> fleet[i]]
          BY <3>1
        <4> QED
          BY <3>1, <3>2, <4>1
      <3> QED
        BY <2>5, <3>3 DEF IsList, n
    <2>9. \A i \in DOMAIN fleet : fleet[i] = ship(i)
      OBVIOUS
    <2> HIDE DEF fleet, ship, player
    <2>10. /\ DOMAIN accounts' = DOMAIN accounts \cup {new} /\ accounts'[new] = fleet
           /\ \A l \in DOMAIN accounts : accounts'[l] = accounts[l]
      BY <2>1
    <2> HIDE DEF new
    <2>11. \A l \in DOMAIN accounts' : IsList(accounts'[l])
      BY <2>8, <2>10 DEF StartupInv, AccountsInv
    <2>12. ShipsAreWhole'
      <3> SUFFICES ASSUME NEW l, l \in DOMAIN accounts', NEW i, i \in DOMAIN accounts'[l]
                   PROVE  accounts'[l][i].modules = ToSet(library[<<"Ship", accounts'[l][i].type>>])
        BY <2>1 DEF ShipsAreWhole
      <3>1. CASE l = new
        <4>1. i \in DOMAIN fleet /\ accounts'[l][i] = ship(i)
          BY <2>9, <2>10, <3>1
        <4> QED
          BY <2>7, <2>8, <4>1
      <3>2. CASE l \in DOMAIN accounts
        <4>1. accounts'[l] = accounts[l]
          BY <2>10, <3>2
        <4> QED
          BY <3>2, <4>1 DEF StartupInv, AccountsInv, ShipsAreWhole
      <3> QED
        BY <2>10, <3>1, <3>2
    <2>13. DOMAIN accounts = {config.players[i].login : i \in 1 .. item}
           /\ \A i \in 1 .. item : PlayerIsIn(config.players[i])
      BY <1>1, <2>3 DEF StartupInv, AccountsInv
    <2>14. x = item + 1 /\ \A i \in 1 .. item + 1 : i \in 1 .. item \/ i = x
      BY <2>0, <2>2
    <2>15. item + 1 \in 1 .. item + 1 /\ 1 .. item \subseteq 1 .. item + 1
      BY <2>2
    <2>16. DOMAIN accounts' = {config.players[i].login : i \in 1 .. item + 1}
      BY <2>10, <2>13, <2>14, <2>15 DEF new, player
    <2>17. ASSUME NEW i \in 1 .. item + 1 PROVE PlayerIsIn(config.players[i])'
      <3>1. CASE i = x
        <4>1. accounts'[config'.players[i].login] = fleet /\ config'.players[i].ships = player.ships
          BY <2>2, <2>10, <3>1 DEF new, player
        <4>2. \A k \in DOMAIN fleet : /\ k \in DOMAIN player.ships /\ fleet[k].origin = "file"
                                      /\ fleet[k].type = player.ships[k].type
                                      /\ fleet[k].name = player.ships[k].name
          BY <2>7, <2>8, <2>9
        <4>3. Len(fleet) >= Len(player.ships)
          BY <2>5, <2>8
        <4> QED
          BY <4>1, <4>2, <4>3 DEF PlayerIsIn
      <3>2. CASE i \in 1 .. item
        <4>1. PlayerIsIn(config.players[i]) /\ config.players[i].login \in DOMAIN accounts
          BY <2>13, <3>2
        <4>2. accounts'[config.players[i].login] = accounts[config.players[i].login]
          BY <2>10, <4>1
        <4> QED
          BY <2>2, <4>1, <4>2 DEF PlayerIsIn
      <3> QED
        BY <2>14, <3>1, <3>2
    <2>18. AccountsInv'
      BY <1>1, <2>2, <2>3, <2>11, <2>12, <2>16, <2>17 DEF AccountsInv
    <2>19. RocksInv'
      <3>1. \A i : PiecesOf(i)' = PiecesOf(i)
        BY <2>1 DEF PiecesOf
      <3> QED
        BY <2>1, <2>2, <2>3, <3>1 DEF StartupInv, RocksInv
    <2>20. ListInv'
      BY <1>1, <2>2 DEF StartupInv, ListInv
    <2> QED
      BY <2>2, <2>6, <2>18, <2>19, <2>20 DEF StartupInv
  <1> QED
    BY <1>2, <1>3 DEF LoadPlayer

(* A ship from the administrator's panel comes after the ships of the player *)
LEMMA SpawnInv ==
    ASSUME StartupInv, NEW login, NEW name, login \in DOMAIN accounts, SpawnShip(login, name)
    PROVE  StartupInv'
  <1> DEFINE old == accounts[login]
             ship == BuildShip(name[2], "spawned", "panel")
             n == Len(old)
  <1>1. /\ loadPhase = "running" /\ CanBuild(name[2])
        /\ accounts' = [accounts EXCEPT ![login] = Append(old, ship)]
        /\ UNCHANGED <<config, loadPhase, item, library, rocks, told>>
    BY DEF SpawnShip
  <1>2. ship.origin = "panel" /\ ship.modules = ToSet(library[<<"Ship", ship.type>>])
    <2>1. /\ ship.type = name[2] /\ ship.origin = "panel"
          /\ ship.modules = ToSet(library[<<"Ship", name[2]>>])
      BY <1>1, BuiltWhole
    <2> HIDE DEF ship
    <2> QED
      BY <2>1
  <1> HIDE DEF ship
  <1>3. /\ IsList(old) /\ n \in Nat /\ DOMAIN old = 1 .. n
        /\ IsList(Append(old, ship)) /\ Len(Append(old, ship)) = n + 1
        /\ \A k \in 1 .. n : Append(old, ship)[k] = old[k]
        /\ Append(old, ship)[n + 1] = ship
    BY AppendFacts, ListFacts DEF StartupInv, AccountsInv
  <1>4. /\ DOMAIN accounts' = DOMAIN accounts
        /\ accounts'[login] = Append(old, ship)
        /\ \A l \in DOMAIN accounts : l # login => accounts'[l] = accounts[l]
    BY <1>1
  <1> DEFINE now == accounts'[login]
  <1>5. /\ IsList(now) /\ Len(now) = n + 1 /\ DOMAIN now = 1 .. n + 1
        /\ \A k \in 1 .. n : now[k] = old[k]
        /\ now[n + 1] = ship
    BY <1>3, <1>4, ListFacts
  <1>6. \A k \in 1 .. n + 1 : k \in 1 .. n \/ k = n + 1
    BY <1>3
  <1>7. now = accounts'[login] /\ old = accounts[login]
    OBVIOUS
  <1> HIDE DEF n, now, old
  <1>8. /\ ModulesIn' = ModulesIn /\ ShipsIn' = ShipsIn /\ PlayersIn' = PlayersIn
        /\ AsteroidsIn' = AsteroidsIn /\ CloudsIn' = CloudsIn
    BY <1>1 DEF ItemsIn, ModulesIn, ShipsIn, PlayersIn, AsteroidsIn, CloudsIn
  <1>9. PhaseInv' /\ LibraryInv'
    BY <1>1, <1>8 DEF StartupInv, PhaseInv, LibraryInv
  <1>10. \A l \in DOMAIN accounts' : IsList(accounts'[l])
    BY <1>4, <1>5, <1>7 DEF StartupInv, AccountsInv
  <1>11. ShipsAreWhole'
    <2> SUFFICES ASSUME NEW l, l \in DOMAIN accounts', NEW i, i \in DOMAIN accounts'[l]
                 PROVE  accounts'[l][i].modules = ToSet(library[<<"Ship", accounts'[l][i].type>>])
      BY <1>1 DEF ShipsAreWhole
    <2>1. \A k \in DOMAIN old : old[k].modules = ToSet(library[<<"Ship", old[k].type>>])
      BY <1>7 DEF StartupInv, AccountsInv, ShipsAreWhole
    <2>2. CASE l = login
      <3>1. i \in 1 .. n \/ i = n + 1
        BY <1>5, <1>6, <1>7, <2>2
      <3>2. CASE i \in 1 .. n
        BY <1>3, <1>5, <1>7, <2>1, <2>2, <3>2
      <3>3. CASE i = n + 1
        BY <1>2, <1>5, <1>7, <2>2, <3>3
      <3> QED
        BY <3>1, <3>2, <3>3
    <2>3. CASE l # login
      <3>1. accounts'[l] = accounts[l] /\ l \in DOMAIN accounts
        BY <1>4, <2>3
      <3> QED
        BY <3>1 DEF StartupInv, AccountsInv, ShipsAreWhole
    <2> QED
      BY <2>2, <2>3
  <1>12. ASSUME NEW i \in 1 .. PlayersIn, PlayerIsIn(config.players[i]),
                config.players[i].login \in DOMAIN accounts, i \in DOMAIN config.players
         PROVE  PlayerIsIn(config.players[i])'
    <2>1. PICK player : player = config.players[i] /\ player = config'.players[i]
      BY <1>1
    <2>2. CASE player.login = login
      <3> DEFINE m == Len(player.ships)
      <3>1. m \in Nat /\ DOMAIN player.ships = 1 .. m
        BY <1>12, <2>1, FileFacts, ListFacts DEF StartupInv, PhaseInv
      <3>2. n >= m /\ \A k \in DOMAIN old :
                        IF k \in DOMAIN player.ships
                        THEN /\ old[k].origin = "file" /\ old[k].type = player.ships[k].type
                             /\ old[k].name = player.ships[k].name
                        ELSE old[k].origin = "panel"
        BY <1>7, <1>12, <2>1, <2>2 DEF PlayerIsIn, n
      <3> HIDE DEF m
      <3>3. n + 1 >= m /\ n + 1 \notin 1 .. m
        BY <1>3, <3>1, <3>2
      <3>4. \A k \in DOMAIN now :
              IF k \in DOMAIN player.ships
              THEN /\ now[k].origin = "file" /\ now[k].type = player.ships[k].type
                   /\ now[k].name = player.ships[k].name
              ELSE now[k].origin = "panel"
        <4> SUFFICES ASSUME NEW k, k \in DOMAIN now
                     PROVE  IF k \in DOMAIN player.ships
                            THEN /\ now[k].origin = "file" /\ now[k].type = player.ships[k].type
                                 /\ now[k].name = player.ships[k].name
                            ELSE now[k].origin = "panel"
          OBVIOUS
        <4>1. k \in 1 .. n \/ k = n + 1
          BY <1>5, <1>6
        <4>2. CASE k \in 1 .. n
          BY <1>3, <1>5, <3>2, <4>2
        <4>3. CASE k = n + 1
          <5>1. now[k].origin = "panel" /\ k \notin DOMAIN player.ships
            BY <1>2, <1>5, <3>1, <3>3, <4>3
          <5> QED
            BY <5>1
        <4> QED
          BY <4>1, <4>2, <4>3
      <3>5. Len(now) >= Len(player.ships)
        BY <1>5, <3>3 DEF m
      <3>6. accounts'[config'.players[i].login] = now /\ config'.players[i] = player
        BY <1>7, <2>1, <2>2
      <3> QED
        BY <3>4, <3>5, <3>6 DEF PlayerIsIn
    <2>3. CASE player.login # login
      <3>1. accounts'[player.login] = accounts[player.login]
        BY <1>4, <1>12, <2>1, <2>3
      <3> QED
        BY <1>12, <2>1, <3>1 DEF PlayerIsIn
    <2> QED
      BY <2>2, <2>3
  <1>13. AccountsInv'
    <2>1. PlayersIn = Len(config.players) /\ DOMAIN config.players = 1 .. PlayersIn
      BY <1>1, FileFacts DEF ItemsIn, PlayersIn, StartupInv, PhaseInv
    <2>2. /\ DOMAIN accounts = {config.players[i].login : i \in 1 .. PlayersIn}
          /\ \A i \in 1 .. PlayersIn : PlayerIsIn(config.players[i])
      BY <1>1 DEF StartupInv, AccountsInv
    <2>3. \A i \in 1 .. PlayersIn : PlayerIsIn(config.players[i])'
      BY <1>12, <2>1, <2>2
    <2>4. DOMAIN accounts' = {config'.players[i].login : i \in 1 .. PlayersIn'}
      BY <1>1, <1>4, <1>8, <2>2
    <2> QED
      BY <1>1, <1>8, <1>10, <1>11, <2>3, <2>4 DEF AccountsInv
  <1>14. RocksInv'
    <2>1. \A i : PiecesOf(i)' = PiecesOf(i)
      BY <1>1 DEF PiecesOf
    <2> QED
      BY <1>1, <1>8, <2>1 DEF StartupInv, RocksInv
  <1>15. ListInv'
    BY <1>1 DEF StartupInv, ListInv, ListIsExact
  <1> QED
    BY <1>9, <1>13, <1>14, <1>15 DEF StartupInv

(* A list for a client *)
LEMMA ListStepInv ==
    ASSUME StartupInv, NEW filter, ListBlueprints(filter) PROVE StartupInv'
  <1> DEFINE names == {n \in DOMAIN library : StartsWith(n, filter)}
  <1>1. /\ loadPhase = "running"
        /\ told' = [filter |-> filter, messages |-> NamesInMessages(SetToSeq(names))]
        /\ UNCHANGED <<config, loadPhase, item, library, accounts, rocks>>
    BY DEF ListBlueprints
  <1>2. /\ ModulesIn' = ModulesIn /\ ShipsIn' = ShipsIn /\ PlayersIn' = PlayersIn
        /\ AsteroidsIn' = AsteroidsIn /\ CloudsIn' = CloudsIn
    BY <1>1 DEF ItemsIn, ModulesIn, ShipsIn, PlayersIn, AsteroidsIn, CloudsIn
  <1>3. PhaseInv' /\ LibraryInv'
    BY <1>1, <1>2 DEF StartupInv, PhaseInv, LibraryInv
  <1>4. AccountsInv'
    <2>1. ShipsAreWhole'
      BY <1>1 DEF StartupInv, AccountsInv, ShipsAreWhole
    <2>2. \A i : PlayerIsIn(config.players[i]) => PlayerIsIn(config.players[i])'
      BY <1>1 DEF PlayerIsIn
    <2> QED
      BY <1>1, <1>2, <2>1, <2>2 DEF StartupInv, AccountsInv
  <1>5. RocksInv'
    <2>1. \A i : PiecesOf(i)' = PiecesOf(i)
      BY <1>1 DEF PiecesOf
    <2> QED
      BY <1>1, <1>2, <2>1 DEF StartupInv, RocksInv
  <1>6. TellsAll(NamesInMessages(SetToSeq(names)), names)
    <2>1. IsFiniteSet(names)
      BY FS_Subset DEF StartupInv, LibraryInv
    <2> QED
      BY <2>1, SetIsTold
  <1>7. ListIsExact'
    <2> DEFINE list == NamesInMessages(SetToSeq(names))
    <2>1. told'.messages = list /\ told'.filter = filter /\ library' = library
      BY <1>1
    <2>2. names = {n \in DOMAIN library' : StartsWith(n, told'.filter)}
      BY <2>1
    <2> HIDE DEF list, names
    <2>3. TellsAll(told'.messages, {n \in DOMAIN library' : StartsWith(n, told'.filter)})
      BY <1>6, <2>1, <2>2 DEF list
    <2> QED
      BY <2>3 DEF ListIsExact, TellsAll
  <1> QED
    BY <1>1, <1>3, <1>4, <1>5, <1>7 DEF StartupInv, ListInv

(* Nothing is loaded at first *)
LEMMA StartupStart == StartupInit => StartupInv
  <1> SUFFICES ASSUME StartupInit PROVE StartupInv
    OBVIOUS
  <1>1. /\ config \in Configurations /\ loadPhase = "start" /\ item = 0 /\ told.filter = "none"
        /\ library = <<>> /\ accounts = <<>> /\ rocks = <<>>
    BY DEF StartupInit
  <1>2. DOMAIN library = {} /\ DOMAIN accounts = {} /\ DOMAIN rocks = {} /\ IsList(rocks)
    BY <1>1 DEF IsList
  <1>3. ModulesIn = 0 /\ ShipsIn = 0 /\ PlayersIn = 0 /\ AsteroidsIn = 0 /\ CloudsIn = 0
    BY <1>1 DEF ItemsIn, ModulesIn, ShipsIn, PlayersIn, AsteroidsIn, CloudsIn
  <1>4. \A i \in 1 .. 0 : FALSE
    OBVIOUS
  <1>5. PhaseInv
    BY <1>1 DEF PhaseInv, Phases
  <1>6. LibraryInv
    BY <1>2, <1>3, <1>4, FS_EmptySet DEF LibraryInv
  <1>7. AccountsInv
    BY <1>1, <1>2, <1>3, <1>4 DEF AccountsInv, ShipsAreWhole
  <1>8. RocksInv
    BY <1>2, <1>3, <1>4 DEF RocksInv, PiecesOf
  <1> QED
    BY <1>1, <1>5, <1>6, <1>7, <1>8 DEF StartupInv, ListInv

(* Every step keeps to it *)
LEMMA StartupStep == StartupInv /\ [StartupNext]_startupVars => StartupInv'
  <1> SUFFICES ASSUME StartupInv, [StartupNext]_startupVars PROVE StartupInv'
    OBVIOUS
  <1>1. CASE Initialize \/ NextSection
    BY <1>1, PhaseChangeInv
  <1>2. CASE \/ LoadModuleBlueprint \/ LoadShipBlueprint \/ LoadPlayer
             \/ LoadAsteroid \/ LoadCloud \/ MakeArbitrator
    BY <1>2, ModuleInv, ShipInv, PlayerInv, AsteroidInv, CloudInv, ArbitratorInv
  <1>3. CASE \E login \in DOMAIN accounts, name \in DOMAIN library : SpawnShip(login, name)
    BY <1>3, SpawnInv
  <1>4. CASE \E filter \in Filters : ListBlueprints(filter)
    BY <1>4, ListStepInv
  <1>5. CASE UNCHANGED startupVars
    <2>1. UNCHANGED <<config, loadPhase, item, library, accounts, rocks, told>>
      BY <1>5 DEF startupVars
    <2>2. /\ ModulesIn' = ModulesIn /\ ShipsIn' = ShipsIn /\ PlayersIn' = PlayersIn
          /\ AsteroidsIn' = AsteroidsIn /\ CloudsIn' = CloudsIn
      BY <2>1 DEF ItemsIn, ModulesIn, ShipsIn, PlayersIn, AsteroidsIn, CloudsIn
    <2>3. PhaseInv'
      BY <2>1 DEF StartupInv, PhaseInv
    <2>4. LibraryInv' /\ AccountsInv'
      BY <2>1, <2>2, QuietLibrary
    <2>5. \A i : PiecesOf(i)' = PiecesOf(i)
      BY <2>1 DEF PiecesOf
    <2>6. RocksInv'
      BY <2>1, <2>2, <2>5 DEF StartupInv, RocksInv
    <2>7. ListInv'
      BY <2>1 DEF StartupInv, ListInv, ListIsExact
    <2> QED
      BY <2>3, <2>4, <2>6, <2>7 DEF StartupInv
  <1> QED
    BY <1>1, <1>2, <1>3, <1>4, <1>5 DEF StartupNext

(* A server that runs is what its configuration says *)
LEMMA StartupGives == StartupInv => StartupIsComplete
  <1> SUFFICES ASSUME StartupInv PROVE StartupIsComplete
    OBVIOUS
  <1>1. ShipsAreWhole
    BY DEF StartupInv, AccountsInv
  <1>2. ListIsExact
    BY DEF StartupInv, ListInv, ListIsExact
  <1>3. ASSUME loadPhase = "running" PROVE NothingIsLeftOut
    <2>1. /\ ModulesIn = Len(config.modules) /\ ShipsIn = Len(config.ships)
          /\ PlayersIn = Len(config.players) /\ AsteroidsIn = Len(config.asteroids)
          /\ CloudsIn = Len(config.clouds)
      BY <1>3 DEF ItemsIn, ModulesIn, ShipsIn, PlayersIn, AsteroidsIn, CloudsIn
    <2>2. /\ DOMAIN config.modules = 1 .. ModulesIn /\ DOMAIN config.ships = 1 .. ShipsIn
          /\ DOMAIN config.players = 1 .. PlayersIn /\ DOMAIN config.asteroids = 1 .. AsteroidsIn
          /\ DOMAIN config.clouds = 1 .. CloudsIn
      BY <2>1, FileFacts DEF StartupInv, PhaseInv
    <2>3. /\ \A i \in DOMAIN config.modules :
                <<config.modules[i].class, config.modules[i].type>> \in DOMAIN library
          /\ \A i \in DOMAIN config.ships : <<"Ship", config.ships[i].type>> \in DOMAIN library
      BY <1>3, <2>2 DEF StartupInv, LibraryInv
    <2>4. /\ DOMAIN accounts = {config.players[i].login : i \in DOMAIN config.players}
          /\ \A i \in DOMAIN config.players : PlayerIsIn(config.players[i])
      BY <1>3, <2>2 DEF StartupInv, AccountsInv
    <2>5. /\ \A i \in DOMAIN config.asteroids : \E k \in DOMAIN rocks : rocks[k] = <<"asteroid", i>>
          /\ config.hasAsteroids =>
                \A i \in DOMAIN config.clouds : Cardinality(PiecesOf(i)) = config.clouds[i].total
      BY <1>3, <2>2 DEF StartupInv, RocksInv
    <2> QED
      BY <2>3, <2>4, <2>5 DEF NothingIsLeftOut, PiecesOf
  <1>4. NothingIsLeftOut
    BY <1>3 DEF NothingIsLeftOut
  <1> QED
    BY <1>1, <1>2, <1>4 DEF StartupIsComplete

(* A server that runs has loaded all its file names, with as many players, ships,
   asteroids and clouds as there are; its players' ships have all modules of their
   blueprints (ShipBlueprint.cpp:35), also those the administrator spawns later; and the
   list of blueprints tells every name once, whatever the length of a message
   (BlueprintsStorage.cpp:76). *)
THEOREM StartupStaysComplete == StartupSpec => []StartupIsComplete
  <1> QED
    BY StartupStart, StartupStep, StartupGives, PTL DEF StartupSpec

-----------------------------------------------------------------------------
(* What the run of MCIndustry checks on its instance holds of every instance. *)
THEOREM IndustryKeepsItsPromises ==
    IndustrySpec => [](/\ ResourcesAreConserved /\ TransfersAreExact /\ ShipsArePaid
                       /\ ThrustActsAsAsked /\ StartupIsComplete)
  <1>1. IndustryInit => ProductionInit /\ NavigationInit /\ StartupInit
    BY DEF IndustryInit
  <1>2. [IndustryNext]_industryVars => /\ [ProductionNext]_productionVars
                                      /\ [NavigationNext]_navigationVars
                                      /\ [StartupNext]_startupVars
    BY DEF IndustryNext, industryVars, WorkshopNext
  <1>3. IndustrySpec => ProductionSpec
    BY <1>1, <1>2, PTL DEF IndustrySpec, ProductionSpec
  <1>4. IndustrySpec => NavigationSpec
    BY <1>1, <1>2, PTL DEF IndustrySpec, NavigationSpec
  <1>5. IndustrySpec => StartupSpec
    BY <1>1, <1>2, PTL DEF IndustrySpec, StartupSpec
  <1> QED
    BY <1>3, <1>4, <1>5, ResourcesStayConserved, TransfersStayExact, ShipsStayPaid,
       ThrustsActAsAsked, StartupStaysComplete, PTL

(* The board is fair in the composed specification as well. *)
THEOREM IndustryIsJudgedFairly == TargetScore >= Goal => (IndustrySpec => BoardIsFair)
  <1>1. IndustryInit => ArbitratorInit
    BY DEF IndustryInit
  <1>2. [IndustryNext]_industryVars => [ArbitratorNext]_arbitratorVars
    BY DEF IndustryNext, industryVars
  <1>3. IndustrySpec => ArbitratorSpec
    BY <1>1, <1>2, PTL DEF IndustrySpec, ArbitratorSpec
  <1> QED
    BY <1>3, BoardStaysFair, PTL
=============================================================================
