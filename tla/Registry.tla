------------------------------ MODULE Registry ------------------------------
(***************************************************************************)
(* utils::GlobalContainer and GlobalObject: the registry of all objects of *)
(* a type, indexed by the ids of a ThreadSafeIdPool (IdPool).  An object   *)
(* is constructed in three critical sections: it takes an id, it registers *)
(* a null pointer and, in the constructor of its class, itself.  The       *)
(* threads of a stage construct objects too (shipyards build ships), so    *)
(* these sections interleave.  Objects are destroyed, and the containers   *)
(* that mirror the registry are created and dropped, while no object is    *)
(* being constructed (by the main thread, or in another stage).            *)
(***************************************************************************)
EXTENDS IdPool, FiniteSets

CONSTANT Builders    \* threads that construct objects

ASSUME RegistryAssumption == First = 1 /\ IsFiniteSet(Builders)

VARIABLES
    team,        \* the threads that run
    creating,    \* creating[t]: the id of the object t constructs, 0: none
    named,       \* its null pointer is registered
    instances,   \* gInstances: TRUE is a pointer to an object, FALSE is null
    counter,     \* gRegisteredObjectsCounter
    mirror,      \* m_baseObjects of the ConcreteObjectsContainer in use
    observed,    \* there is such a container
    rabort       \* an assertion failed

objectVars == <<team, creating, named, instances, counter, mirror, observed, rabort>>
registryVars == <<next, available, held, objectVars>>

Quiet == \A t \in Builders : creating[t] = 0

RegistryInit ==
    /\ Init
    /\ team \in {{t} : t \in Builders} \cup {Builders}
    /\ creating = [t \in Builders |-> 0]
    /\ named = [t \in Builders |-> FALSE]
    /\ instances = <<>>
    /\ counter = 0
    /\ mirror = <<>>
    /\ observed = FALSE
    /\ rabort = FALSE

(* GlobalObject(): an id from the pool ... *)
TakeId(t) ==
    /\ ~rabort
    /\ t \in team /\ creating[t] = 0
    /\ GetReleased \/ GetNew
    /\ creating' = [creating EXCEPT ![t] = CHOOSE id \in held' : id \notin held]
    /\ UNCHANGED <<team, named, instances, counter, mirror, observed, rabort>>

(* push_back when id is the size of the vector, v[id] = x otherwise; the same
   in registerSelf and in ConcreteObjectsContainer::onRegistered *)
Put(v, id, x) == [i \in 1 .. (IF id > Len(v) THEN id ELSE Len(v)) |-> IF i = id THEN x ELSE v[i]]

(* ... registerSelf(nullptr) in GlobalObject's constructor, then
   registerSelf(this) in the constructor of the class.  The assertion that the
   id is not beyond the end fails when a later id is registered first. *)
RegisterSelf(t) ==
    /\ ~rabort /\ creating[t] # 0
    /\ LET id == creating[t]
       IN  \/ /\ id > Len(instances) + 1
              /\ rabort' = TRUE
              /\ UNCHANGED <<creating, named, instances, counter, mirror>>
           \/ /\ id <= Len(instances) + 1
              /\ instances' = Put(instances, id, named[t])
              /\ mirror' = IF observed THEN Put(mirror, id, named[t]) ELSE mirror
              /\ counter' = IF named[t] THEN counter + 1 ELSE counter
              /\ named' = [named EXCEPT ![t] = ~@]
              /\ creating' = IF named[t] THEN [creating EXCEPT ![t] = 0] ELSE creating
              /\ UNCHANGED rabort
    /\ UNCHANGED <<next, available, held, team, observed>>

(* mutant: the observers are told of constructions only *)
DestroyUnobserved(id) ==
    /\ ~rabort /\ Quiet
    /\ Release(id)
    /\ instances' = [instances EXCEPT ![id] = FALSE]
    /\ counter' = counter - 1
    /\ UNCHANGED <<team, creating, named, mirror, observed, rabort>>

(* ~GlobalObject, under gMutex *)
Destroy(id) ==
    /\ ~rabort /\ Quiet
    /\ Release(id)
    /\ instances' = [instances EXCEPT ![id] = FALSE]
    /\ counter' = counter - 1
    /\ mirror' = IF observed THEN [mirror EXCEPT ![id] = FALSE] ELSE mirror
    /\ UNCHANGED <<team, creating, named, observed, rabort>>

(* Containers::getContainerWith creates a container (or finds the one that is
   in use): it attaches itself as an observer and copies the registry. *)
GetContainer ==
    /\ ~rabort /\ Quiet /\ ~observed
    /\ observed' = TRUE /\ mirror' = instances
    /\ UNCHANGED <<next, available, held, team, creating, named, instances, counter, rabort>>

(* ContainersCache::proceed drops a container that nobody asked for in a while:
   its destructor detaches it. *)
DropContainer ==
    /\ ~rabort /\ Quiet /\ observed
    /\ observed' = FALSE /\ mirror' = <<>>
    /\ UNCHANGED <<next, available, held, team, creating, named, instances, counter, rabort>>

RegistryNext ==
    \/ \E t \in Builders : TakeId(t) \/ RegisterSelf(t)
    \/ \E id \in held : Destroy(id)
    \/ GetContainer
    \/ DropContainer

RegistrySpec == RegistryInit /\ [][RegistryNext]_registryVars

-----------------------------------------------------------------------------
(* Every object that is completely constructed is found at its id, every other
   entry is null, and the counter is their number: however constructions
   interleave and ids are reused, no object hides another one. *)
RegistryIsExact ==
    LET alive == held \ {creating[t] : t \in Builders}
    IN  /\ \A id \in alive : id <= Len(instances) /\ instances[id]
        /\ \A id \in 1..Len(instances) : instances[id] => id \in alive
        /\ counter = Cardinality(alive)

(* A container of the world mirrors the registry entry by entry, from its
   creation on. *)
MirrorIsExact == observed => mirror = instances

(* An id is never registered beyond the end (the assertion of registerSelf)
   as long as one thread at a time constructs objects. *)
RegisteredInOrder == rabort => Cardinality(team) > 1

(* The ids, the registry and its mirrors agree, whichever threads construct and
   destroy objects meanwhile. *)
ObjectsAreExact == Partition /\ RegistryIsExact /\ MirrorIsExact /\ RegisteredInOrder
=============================================================================
