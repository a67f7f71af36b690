----------------------------- MODULE MCThreads -----------------------------
(***************************************************************************)
(* The threads of the server and what they share: the conveyor, a manager  *)
(* of modules, the test's thread in front of the clock, the registry of    *)
(* objects with its pool of ids, and the pool of chunks.  Barriers and     *)
(* mutexes keep them apart, so that they do not interact: a behaviour is   *)
(* one of either of them, as `part` says.                                  *)
(***************************************************************************)
EXTENDS Conveyor, ModulesManager, Harness, Registry, ChunksPool

VARIABLE part

threadsVars == <<conveyorVars, managerVars, harnessVars, registryVars, chunksVars, part>>

ThreadsInit ==
    /\ ConveyorInit /\ ManagerInit /\ HarnessInit /\ RegistryInit /\ ChunksInit
    /\ part \in {"conveyor", "modules", "harness", "objects", "chunks"}
    /\ part # "modules" => crew = Workers
    /\ part # "objects" => team = Builders

ThreadsNext ==
    /\ \/ /\ part = "conveyor" /\ ConveyorNext
          /\ UNCHANGED <<managerVars, harnessVars, registryVars, chunksVars>>
       \/ /\ part = "modules" /\ ManagerNext
          /\ UNCHANGED <<conveyorVars, harnessVars, registryVars, chunksVars>>
       \/ /\ part = "harness" /\ HarnessNext
          /\ UNCHANGED <<conveyorVars, managerVars, registryVars, chunksVars>>
       \/ /\ part = "objects" /\ RegistryNext
          /\ UNCHANGED <<conveyorVars, managerVars, harnessVars, chunksVars>>
       \/ /\ part = "chunks" /\ ChunksNext
          /\ UNCHANGED <<conveyorVars, managerVars, harnessVars, registryVars>>
    /\ UNCHANGED part

(* Every thread is scheduled, and the barrier lets waiting threads go. *)
ConveyorFairness ==
    /\ WF_conveyorVars(part = "conveyor" /\ MasterStep)
    /\ \A t \in Slaves : WF_conveyorVars(part = "conveyor" /\ SlaveStep(t))
    /\ WF_conveyorVars(part = "conveyor" /\ Barrier)

ThreadsSpec == ThreadsInit /\ [][ThreadsNext]_threadsVars /\ ConveyorFairness

-----------------------------------------------------------------------------
(* A logic that is always due, with two stages as the managers of modules have,
   and one with a cooldown *)
TwoLogics == <<2, 1>>
OneRests == <<0, 3>>

(* (proceedingTime, tick): whole, with a rest, one tick, and none *)
MCSkips == {<<3, 2>>, <<2, 2>>, <<3, 1>>, <<0, 1>>}

(* the sizes of the three lists of chunks *)
MCCounts == <<2, 1, 1>>

(* Neither an id with its object nor a chunk is lost or given out twice, by the
   threads that share the registry and by the sockets that share the pool. *)
PoolsAreExact == ObjectsAreExact /\ ChunksAreExact
=============================================================================
