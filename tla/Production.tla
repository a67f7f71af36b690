----------------------------- MODULE Production -----------------------------
(***************************************************************************)
(* Resources on their way from an asteroid to a ship: an AsteroidMiner     *)
(* mines into the container it is bound to, containers transfer (module    *)
(* Cargo), a Shipyard takes what a building ship needs from its container. *)
(*                                                                         *)
(* The asteroid holds one useful resource and stones; the composition of a *)
(* mined portion is random.  A ship needs one portion per unit of labor.   *)
(***************************************************************************)
EXTENDS Cargo

CONSTANTS
    Aboard,         \* the containers on the ship of the miner and the shipyard
    Mass,           \* of the asteroid
    CycleTime,      \* m_nCycleTimeMs
    YieldPerCycle,  \* m_nYeildPerCycle
    Labor,          \* of the ship's blueprint
    IndPeriod       \* 500 ms, the period of building reports

ASSUME ProductionAssumption ==
    /\ Aboard \subseteq Containers
    /\ {Mass, CycleTime, YieldPerCycle, Labor} \subseteq Nat /\ IndPeriod \in Nat \ {0}

VARIABLES
    mass,           \* PhysicalObject::m_weight of the asteroid
    miner,          \* the AsteroidMiner
    yard,           \* the Shipyard
    ships,          \* ships that have been built
    spent           \* resources that the shipyard has consumed

productionVars == <<cargoVars, mass, miner, yard, ships, spent>>

NoBox == "no container"

ProductionInit ==
    /\ CargoInit
    /\ mass = Mass
    /\ miner = [active |-> FALSE, box |-> NoBox, progress |-> 0]
    /\ yard = [active |-> FALSE, box |-> NoBox, progress |-> 0, sinceInd |-> 0]
    /\ ships = 0
    /\ spent = 0

-----------------------------------------------------------------------------
(* AsteroidMiner *)

BindMiner(c) ==
    /\ phase = "mine"
    /\ miner' = [miner EXCEPT !.box = c]
    /\ UNCHANGED <<cargoVars, mass, yard, ships, spent>>

(* startMiningRequest, for an asteroid that exists and is in range *)
StartMining ==
    /\ phase = "mine"
    /\ ~miner.active
    /\ miner.box # NoBox
    /\ miner' = [miner EXCEPT !.active = TRUE]
    /\ UNCHANGED <<cargoVars, mass, yard, ships, spent>>

(* stopMiningRequest; or proceed() finds the asteroid out of range *)
StopMining ==
    /\ phase = "mine"
    /\ miner.active
    /\ miner' = [miner EXCEPT !.active = FALSE]
    /\ UNCHANGED <<cargoVars, mass, yard, ships, spent>>

(* Asteroid::yield: `stones` of the portion are useless *)
Yield(stones) ==
    LET n == Least(YieldPerCycle, mass) IN [left |-> mass - n, mined |-> n - stones]

(* AsteroidMiner::proceed; what does not fit into the container is gone *)
Mine(span, stones) ==
    LET progress == miner.progress + span
        yield == Yield(stones)
        put == IF yield.mined > 0 THEN Fits(yield.mined, used[miner.box]) ELSE 0
        cycle == miner.active /\ progress >= CycleTime
    IN  /\ phase = "mine"
        /\ phase' = "build"
        /\ stones <= Least(YieldPerCycle, mass)
        /\ cycle \/ stones = 0
        /\ \/ /\ cycle
              /\ mass' = yield.left
              /\ amount' = [amount EXCEPT ![miner.box] = @ + put]
              /\ used' = [used EXCEPT ![miner.box] = @ + put]
              /\ lost' = lost + stones + yield.mined - put
              /\ miner' = [miner EXCEPT !.progress = progress - CycleTime,
                                        !.active = put >= yield.mined]
           \/ /\ ~cycle
              /\ miner' = IF miner.active THEN [miner EXCEPT !.progress = progress] ELSE miner
              /\ UNCHANGED <<mass, amount, used, lost>>
        /\ UNCHANGED <<portsVars, transfer, worker, dt, team, raced, yard, ships, spent>>

-----------------------------------------------------------------------------
(* Shipyard *)

(* bindToCargo; an empty name unbinds *)
BindYard(c) ==
    /\ phase = "build"
    /\ yard' = [yard EXCEPT !.box = c]
    /\ UNCHANGED <<cargoVars, mass, miner, ships, spent>>

(* startBuildReq; the task is reset even if its blueprint is not found *)
StartBuild(found) ==
    /\ phase = "build"
    /\ ~yard.active
    /\ yard.box # NoBox
    /\ yard' = [yard EXCEPT !.active = found, !.progress = 0, !.sinceInd = 0]
    /\ UNCHANGED <<cargoVars, mass, miner, ships, spent>>

(* consumeExactly: all or nothing *)
CanConsume(n) == yard.box # NoBox /\ amount[yard.box] >= n

(* mutant: a report is enough to finish the ship *)
IsBuiltEarly(progress) == progress > 0
IsBuilt(progress) == progress = Labor

(* Shipyard::proceed and finishBuildingProcedure *)
Build(span) ==
    LET inc == Least(span, Labor - yard.progress)
        since == yard.sinceInd + span
        report == since > IndPeriod
        task == [yard EXCEPT !.sinceInd = IF report THEN since % IndPeriod ELSE since]
        done == report /\ IsBuilt(yard.progress + inc)
    IN  /\ phase = "build"
        /\ phase' = "cargo"
        /\ \/ /\ yard.active
              /\ CanConsume(inc)
              /\ amount' = [amount EXCEPT ![yard.box] = Max({@ - inc, 0})]
              /\ used' = [used EXCEPT ![yard.box] = amount'[yard.box]]   \* recalculateUsedSpace
              /\ spent' = spent + inc
              /\ yard' = [task EXCEPT !.progress = @ + inc, !.active = ~done]
              /\ ships' = IF done THEN ships + 1 ELSE ships
           \/ /\ yard.active
              /\ ~CanConsume(inc)
              /\ yard' = task
              /\ UNCHANGED <<amount, used, spent, ships>>
           \/ /\ ~yard.active
              /\ UNCHANGED <<amount, used, spent, ships, yard>>
        /\ UNCHANGED <<portsVars, transfer, worker, dt, team, raced, mass, miner, lost>>

-----------------------------------------------------------------------------
ProductionNext ==
    \/ CargoNext /\ UNCHANGED <<mass, miner, yard, ships, spent>>
    \/ \E c \in Aboard : BindMiner(c)
    \/ StartMining
    \/ StopMining
    \/ \E span \in Spans, stones \in 0..YieldPerCycle : Mine(span, stones)
    \/ \E c \in Aboard \cup {NoBox} : BindYard(c)
    \/ \E found \in BOOLEAN : StartBuild(found)
    \/ \E span \in Spans : Build(span)

ProductionSpec == ProductionInit /\ [][ProductionNext]_productionVars

(* To keep instances small: one thread, a miner, a shipyard and one port
   (PortsBound); or several threads, more ports, and transfers alone.  A race
   ends a behaviour. *)
PortsBound == 1

WorkshopNext ==
    /\ ~raced
    /\ ProductionNext
    /\ IF team = 1 THEN nextKey' <= PortsBound + 1 ELSE UNCHANGED <<miner, yard>>

WorkshopSpec == ProductionInit /\ [][WorkshopNext]_productionVars

-----------------------------------------------------------------------------
(* Properties *)

Stored(boxes) == SumFunctionOnSet(amount, boxes)
Reserved(boxes) == SumFunctionOnSet([c \in Containers |-> transfer[c].reserved], boxes)

(* With one thread always, and with several until one takes resources from a
   container while another one puts some into it, no step of proceed() of a
   container, a miner or a shipyard makes or loses resources unnoticed (the
   total never changes), and the used space of a container is what its
   resources take, whenever no thread is at work on it. *)
ResourcesAreConserved ==
    team = 1 \/ ~raced =>
        /\ Stored(Containers) + Reserved(Containers) + mass + spent + lost
              = Mass + Volume * Cardinality(Filled)
        /\ \A c \in Containers : worker[c].at \notin Takes /\ ~Locked(c) => used[c] = amount[c]

(* The open ports are those their containers know of, each has one owner, and
   no two have the same secret key: closing and opening reuses ids, not keys. *)
PortsAreExact ==
    /\ \A p \in PortIds : ports[p].key > 0 => opened[ports[p].owner] = p
    /\ \A c \in Containers : opened[c] # NoPort => ports[opened[c]].owner = c
    /\ \A p, q \in PortIds : ports[p].key = ports[q].key /\ ports[p].key > 0 => p = q

(* A transfer delivers to the container that owned the port when the transfer
   was accepted, even if the port has been closed and its id opened by another
   container since (m_nPortSecretKey). *)
DeliveredToOwner ==
    \A c \in Containers : worker[c].at \in Works => Receiver(c) = transfer[c].to

(* Although an overfilled receiver gives resources back to the reserve of the
   sender, a transfer never reserves more than it still has to deliver: one
   that ends with SUCCESS has delivered the amount it was asked for and has
   nothing left in its reserve.  Neither is negative while threads have not
   raced. *)
NothingOverReserved ==
    \A c \in Containers :
        /\ transfer[c].reserved <= transfer[c].left
        /\ raced \/ (amount[c] >= 0 /\ transfer[c].reserved >= 0)

(* However ports are closed and opened again while transfers go on, a transfer
   delivers what it reserved, and to the container it was meant for. *)
TransfersAreExact == PortsAreExact /\ DeliveredToOwner /\ NothingOverReserved

(* Every ship has cost what its blueprint says: a building process takes
   nothing while it is frozen, and it neither ends early nor pays twice. *)
ShipsArePaid ==
    spent = Labor * ships + (IF yard.active THEN yard.progress ELSE 0)

(* The assertion of recalculateUsedSpace: what is left after a shipyard took
   its resources is not more than the container can hold. *)
RecalculationFits ==
    [][phase = "build" /\ phase' = "cargo" /\ yard.active /\ yard.box # NoBox
          => amount'[yard.box] <= Volume]_productionVars
=============================================================================
