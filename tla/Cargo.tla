------------------------------- MODULE Cargo -------------------------------
(***************************************************************************)
(* modules::ResourceContainer: resources in containers, the ports that the *)
(* containers open and the transfers to these ports.                       *)
(*                                                                         *)
(* One resource of density 1 stands for all of them, and an amount is a    *)
(* number of the portions that are transferred in one unit of time.        *)
(* proceed() of several containers runs in up to `team` threads at once.   *)
(* It takes resources from its own container without m_accessMutex, while  *)
(* another thread may be in putResource() of this container, which only    *)
(* excludes itself: every read and every write of m_amount and of          *)
(* m_nUsedSpace in these two is a step.                                    *)
(***************************************************************************)
EXTENDS Integers, FiniteSets, FiniteSetsExt, Functions

CONSTANTS
    Containers,
    Volume,         \* m_nVolume
    Filled,         \* the containers that are full at first
    Teams,          \* numbers of threads to try
    Spans,          \* intervals that proceed() may get
    Orders,         \* amounts that clients ask to transfer
    KeysBound,      \* bound on m_nNextSecretKey
    LeftBound       \* bound on m_activeTransfer.m_nLeft, which may grow

ASSUME CargoAssumption ==
    /\ IsFiniteSet(Containers) /\ Volume \in Nat
    /\ Filled \subseteq Containers
    /\ Spans \subseteq Nat /\ Spans # {}
    /\ Orders \subseteq Nat

VARIABLES
    amount, used,   \* m_amount, m_nUsedSpace
    ports,          \* m_allPorts: id -> secret key and owner of the port
    opened,         \* m_nOpenedPortId
    nextKey,        \* m_nNextSecretKey
    transfer,       \* m_activeTransfer; `to`: who owned the port at first
    worker,         \* where the thread in proceed() of a container is
    dt,             \* the interval of this cycle
    team,           \* the number of threads
    phase,          \* whose manager works now
    lost,           \* resources that are in no container any more
    raced           \* resources were taken from a container while some were put into it

cargoVars == <<amount, used, ports, opened, nextKey, transfer, worker, dt, team,
               phase, lost, raced>>
portsVars == <<ports, opened, nextKey>>

NoPort == 0
PortIds == 1..Cardinality(Containers)
Closed == [key |-> 0, owner |-> "nobody"]
NoTransfer == [port |-> NoPort, key |-> 0, left |-> 0, reserved |-> 0, to |-> "nobody"]
Away == [at |-> "away", n |-> 0, read |-> 0]
Least(a, b) == IF a < b THEN a ELSE b

CargoInit ==
    /\ amount = [c \in Containers |-> IF c \in Filled THEN Volume ELSE 0]
    /\ used = amount
    /\ ports = [p \in PortIds |-> Closed]
    /\ opened = [c \in Containers |-> NoPort]
    /\ nextKey = 1
    /\ transfer = [c \in Containers |-> NoTransfer]
    /\ worker = [c \in Containers |-> Away]
    /\ dt = 0
    /\ team \in Teams
    /\ phase = "cargo"
    /\ lost = 0
    /\ raced = FALSE

-----------------------------------------------------------------------------
(* Commands *)

(* openPort: the pool of ids gives the least free one *)
OpenPort(c) ==
    /\ phase = "cargo"
    /\ opened[c] = NoPort
    /\ nextKey <= KeysBound
    /\ LET id == Min({p \in PortIds : ports[p].key = 0})
       IN  /\ opened' = [opened EXCEPT ![c] = id]
           /\ ports' = [ports EXCEPT ![id] = [key |-> nextKey, owner |-> c]]
    /\ nextKey' = nextKey + 1
    /\ UNCHANGED <<amount, used, transfer, worker, dt, team, phase, lost, raced>>

ClosePort(c) ==
    /\ phase = "cargo"
    /\ opened[c] # NoPort
    /\ ports' = [ports EXCEPT ![opened[c]] = Closed]
    /\ opened' = [opened EXCEPT ![c] = NoPort]
    /\ UNCHANGED <<amount, used, nextKey, transfer, worker, dt, team, phase, lost, raced>>

(* transfer: a request for a port that is open, with its access key *)
Transfer(c, id, n) ==
    /\ phase = "cargo"
    /\ transfer[c] = NoTransfer
    /\ ports[id].key > 0
    /\ transfer' = [transfer EXCEPT ![c] =
                       [port |-> id, key |-> ports[id].key, left |-> n,
                        reserved |-> 0, to |-> ports[id].owner]]
    /\ UNCHANGED <<amount, used, portsVars, worker, dt, team, phase, lost, raced>>

-----------------------------------------------------------------------------
(* proceed() *)

(* What putResource() accepts of n when `u` of the volume is in use *)
Fits(n, u) == Least(n, Volume - u)

(* mutant: a key that has changed goes unnoticed *)
PortIsReusable(c) == ports[transfer[c].port].key > 0
PortIsMine(c) ==
    /\ ports[transfer[c].port].key > 0
    /\ ports[transfer[c].port].key = transfer[c].key
Receiver(c) == ports[transfer[c].port].owner

(* Where a thread is: in consumeResource() of c itself, at the check before
   putResource(), or in putResource() of the receiver, which holds its mutex.
   `n` is how much it moves, `read` what it has read and not written back yet. *)
Takes == {"counted", "space read", "space taken", "amount read", "amount taken"}
Adds == {"locked", "amount found", "amount added", "space found"}
Works == Takes \cup Adds \cup {"puts"}

Locked(c) == \E d \in Containers : worker[d].at \in Adds /\ Receiver(d) = c

(* mutant: what was reserved is forgotten *)
TerminateForgets(c) ==
    /\ transfer' = [transfer EXCEPT ![c] = NoTransfer]
    /\ worker' = [worker EXCEPT ![c] = Away]
    /\ UNCHANGED <<amount, used, lost>>

(* terminateActiveTransfer: reserved resources go back, as far as they fit *)
Terminate(c) ==
    LET reserved == transfer[c].reserved
        back == IF reserved > 0 THEN Fits(reserved, used[c]) ELSE 0
    IN  /\ ~Locked(c)
        /\ amount' = [amount EXCEPT ![c] = @ + back]
        /\ used' = [used EXCEPT ![c] = @ + back]
        /\ lost' = lost + reserved - back
        /\ transfer' = [transfer EXCEPT ![c] = NoTransfer]
        /\ worker' = [worker EXCEPT ![c] = Away]

(* The manager starts proceed() of every container with a transfer; it returns
   at once if no time has passed *)
StartCargo(span) ==
    /\ phase = "cargo"
    /\ \A c \in Containers : transfer[c].left <= LeftBound
    /\ phase' = "transfer"
    /\ dt' = span
    /\ worker' = [c \in Containers |->
                     IF transfer[c] # NoTransfer /\ span > 0
                     THEN [Away EXCEPT !.at = "waits"] ELSE Away]
    /\ UNCHANGED <<amount, used, portsVars, transfer, team, lost, raced>>

(* A thread takes the next container from the list *)
MayStart(c) ==
    /\ worker[c].at = "waits"
    /\ Cardinality({d \in Containers : worker[d].at \in Works}) < team

(* The port has been closed, or the receiver is too far away *)
ProceedAborts(c) ==
    /\ MayStart(c)
    /\ Terminate(c)
    /\ UNCHANGED <<portsVars, dt, team, phase, raced>>

(* How much more the transfer reserves: a negative number when the interval is
   shorter than the one before, and the receiver did not take everything *)
Portion(c) == Least(dt, transfer[c].left) - transfer[c].reserved

(* consumeResource: how much is taken ... *)
ProceedCounts(c) ==
    /\ MayStart(c)
    /\ PortIsMine(c)
    /\ worker' = [worker EXCEPT ![c] = [at |-> "counted", n |-> Least(amount[c], Portion(c)), read |-> 0]]
    /\ raced' = (raced \/ Locked(c))
    /\ UNCHANGED <<amount, used, portsVars, transfer, dt, team, phase, lost>>

(* A read whose value is written back by a later step *)
Load(c, before, after, value) ==
    /\ worker[c].at = before
    /\ worker' = [worker EXCEPT ![c].at = after, ![c].read = value]
    /\ UNCHANGED <<amount, used, portsVars, transfer, dt, team, phase, lost, raced>>

ProceedLoads(c) ==
    \/ Load(c, "counted", "space read", used[c])
    \/ Load(c, "space taken", "amount read", amount[c])
    \/ Load(c, "locked", "amount found", amount[Receiver(c)])
    \/ Load(c, "amount added", "space found", used[Receiver(c)])

(* ... first from the used space ... *)
ProceedTakesSpace(c) ==
    /\ worker[c].at = "space read"
    /\ used' = [used EXCEPT ![c] = worker[c].read - worker[c].n]
    /\ worker' = [worker EXCEPT ![c].at = "space taken"]
    /\ UNCHANGED <<amount, portsVars, transfer, dt, team, phase, lost, raced>>

(* ... then from the amount; only this thread knows of the reserve ... *)
ProceedTakesAmount(c) ==
    /\ worker[c].at = "amount read"
    /\ amount' = [amount EXCEPT ![c] = worker[c].read - worker[c].n]
    /\ transfer' = [transfer EXCEPT ![c].reserved = @ + worker[c].n]
    /\ worker' = [worker EXCEPT ![c].at = "amount taken"]
    /\ UNCHANGED <<used, portsVars, dt, team, phase, lost, raced>>

(* ... and neither stays negative *)
ProceedClamps(c) ==
    /\ worker[c].at = "amount taken"
    /\ amount' = [amount EXCEPT ![c] = Max({@, 0})]
    /\ used' = [used EXCEPT ![c] = Max({@, 0})]
    /\ worker' = [worker EXCEPT ![c].at = "puts"]
    /\ UNCHANGED <<portsVars, transfer, dt, team, phase, lost, raced>>

(* putResource() of the receiver locks its mutex and looks how much fits ... *)
ProceedLocks(c) ==
    LET r == Receiver(c)
    IN  /\ worker[c].at = "puts"
        /\ ~Locked(r)
        /\ worker' = [worker EXCEPT ![c] =
               [at |-> "locked", n |-> Fits(transfer[c].reserved, used[r]), read |-> 0]]
        /\ raced' = (raced \/ worker[r].at \in Takes)
        /\ UNCHANGED <<amount, used, portsVars, transfer, dt, team, phase, lost>>

(* ... adds it to the amount, what is not reserved any more from now on ... *)
ProceedAddsAmount(c) ==
    LET n == worker[c].n
    IN  /\ worker[c].at = "amount found"
        /\ amount' = [amount EXCEPT ![Receiver(c)] = worker[c].read + n]
        /\ transfer' = [transfer EXCEPT ![c] = [@ EXCEPT !.left = transfer[c].left - n,
                                                         !.reserved = transfer[c].reserved - n]]
        /\ worker' = [worker EXCEPT ![c].at = "amount added"]
        /\ UNCHANGED <<used, portsVars, dt, team, phase, lost, raced>>

(* ... and to the used space.  A transfer with nothing left is over; it has
   reserved nothing then (NothingOverReserved). *)
ProceedAddsSpace(c) ==
    /\ worker[c].at = "space found"
    /\ used' = [used EXCEPT ![Receiver(c)] = worker[c].read + worker[c].n]
    /\ transfer' = IF transfer[c].left = 0 THEN [transfer EXCEPT ![c] = NoTransfer] ELSE transfer
    /\ worker' = [worker EXCEPT ![c] = Away]
    /\ UNCHANGED <<amount, portsVars, dt, team, phase, lost, raced>>

StopCargo ==
    /\ phase = "transfer"
    /\ \A c \in Containers : worker[c] = Away
    /\ phase' = "mine"
    /\ dt' = 0
    /\ UNCHANGED <<amount, used, portsVars, transfer, worker, team, lost, raced>>

CargoNext ==
    \/ \E c \in Containers :
          \/ OpenPort(c)
          \/ ClosePort(c)
          \/ \E id \in PortIds, n \in Orders : Transfer(c, id, n)
          \/ ProceedAborts(c)
          \/ ProceedCounts(c)
          \/ ProceedLoads(c)
          \/ ProceedTakesSpace(c)
          \/ ProceedTakesAmount(c)
          \/ ProceedClamps(c)
          \/ ProceedLocks(c)
          \/ ProceedAddsAmount(c)
          \/ ProceedAddsSpace(c)
    \/ \E span \in Spans : StartCargo(span)
    \/ StopCargo
=============================================================================
