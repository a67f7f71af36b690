--------------------------- MODULE ModulesManager ---------------------------
(***************************************************************************)
(* modules::CommonModulesManager and utils::IdArray: how the threads of    *)
(* the conveyor share the modules of one type.  In the first stage each    *)
(* module handles the messages it has buffered, and the modules that       *)
(* become active are pushed to the list of busy modules; in the second one *)
(* the busy modules are proceeded, and those that become idle are dropped  *)
(* from the list.  Threads take modules and entries of the list with       *)
(* atomic counters; std::vector::push_back is not atomic.  (Barriers keep  *)
(* the stages apart: see Conveyor.)                                        *)
(***************************************************************************)
EXTENDS Integers, Sequences, FiniteSets

CONSTANTS
    Workers,     \* the threads that the conveyor may have
    Total,       \* the number of modules: their ids are 0..Total-1
    ListBound    \* bound of the model on the length of the list and its count

ASSUME ManagerAssumption ==
    /\ IsFiniteSet(Workers)
    /\ Total \in Nat
    /\ ListBound \in Nat

VARIABLES
    crew,       \* the threads it has: configured when the server starts
    mstage,     \* the stage that is executed, or "none"
    mstate,     \* BaseModule::m_eState of each module
    nextId,     \* m_nNextId
    ids,        \* IdArray::m_ids
    total,      \* IdArray::m_nTotalIds
    nextIndex,  \* IdArray::m_nNextIndex (counting from 1; below 1: past the end)
    at,         \* where each thread is
    cur,        \* the module it works on
    index,      \* and its place in the list
    abort       \* the assertion of onDeactivated() has failed

list == <<ids, total, nextIndex>>
managerVars == <<crew, mstage, mstate, nextId, ids, total, nextIndex, at, cur, index, abort>>

Modules == 0 .. Total - 1
Invalid == -1
Valid(id) == id # Invalid
States == {"idle", "activating", "active", "deactivating"}

(* switchToActiveState and switchToIdleState *)
SwitchToActive(s) == IF s = "active" THEN s ELSE "activating"
SwitchToIdle(s) == IF s = "idle" THEN s ELSE "deactivating"

ManagerInit ==
    /\ crew \in (SUBSET Workers) \ {{}}
    /\ mstage = "none"
    /\ mstate = [m \in Modules |-> "idle"]
    /\ nextId = 0
    /\ ids = <<>>
    /\ total = 0
    /\ nextIndex = 0
    /\ at = [t \in Workers |-> "done"]
    /\ cur = [t \in Workers |-> 0]
    /\ index = [t \in Workers |-> 0]
    /\ abort = FALSE

Moves(t, from, to) == at[t] = from /\ at' = [at EXCEPT ![t] = to]
AllDone == \A t \in crew : at[t] = "done"

-----------------------------------------------------------------------------
(* prephare(eStageHandleMessages) *)
PrephareHandleMessages ==
    /\ ~abort
    /\ mstage = "none" /\ Total > 0
    /\ mstage' = "handle"
    /\ nextId' = 0
    /\ at' = [t \in Workers |-> IF t \in crew THEN "fetch" ELSE "done"]
    /\ UNCHANGED <<crew, mstate, list, cur, index, abort>>

(* handleAllMessages *)
Fetch(t) ==
    /\ ~abort
    /\ \/ /\ nextId < Total
          /\ Moves(t, "fetch", "handle")
          /\ cur' = [cur EXCEPT ![t] = nextId]
          /\ nextId' = nextId + 1
       \/ /\ nextId >= Total
          /\ Moves(t, "fetch", "done")
          /\ UNCHANGED <<cur, nextId>>
    /\ UNCHANGED <<crew, mstage, mstate, list, index, abort>>

(* What a batch of messages makes of the state of a module: each message may
   call switchToActiveState or switchToIdleState (Engine::setThrust). *)
Outcomes(s) ==
    {s, SwitchToActive(s), SwitchToIdle(s),
     SwitchToActive(SwitchToIdle(s)), SwitchToIdle(SwitchToActive(s))}

HandleMessages(t) ==
    /\ ~abort
    /\ at[t] = "handle"
    /\ \E s \in Outcomes(mstate[cur[t]]) :
          /\ mstate' = [mstate EXCEPT ![cur[t]] = s]
          /\ s = "activating" => /\ Len(ids) + Cardinality(crew) <= ListBound
                                 /\ total + Cardinality(crew) <= ListBound
          /\ at' = [at EXCEPT ![t] = IF s = "activating" THEN "push" ELSE "fetch"]
    /\ UNCHANGED <<crew, mstage, nextId, list, cur, index, abort>>

(* push_back: the end of the vector is read, and then an element is written
   there and the end is moved behind it.  m_nTotalIds is atomic. *)
ReadEnd(t) ==
    /\ ~abort
    /\ Moves(t, "push", "write")
    /\ index' = [index EXCEPT ![t] = Len(ids) + 1]
    /\ UNCHANGED <<crew, mstage, mstate, nextId, list, cur, abort>>

(* mutant: the module is activated without being pushed *)
NotPushed(t) ==
    /\ ~abort
    /\ Moves(t, "write", "fetch")
    /\ mstate' = [mstate EXCEPT ![cur[t]] = "active"]
    /\ UNCHANGED <<crew, mstage, nextId, list, cur, index, abort>>

(* The first n cells of the memory of the vector: what is in it, and behind its
   end (another thread may have moved it back) modules that were pushed there. *)
Memory(n) ==
    {s \in [1 .. n -> Modules \cup {Invalid}] :
        \A i \in 1 .. n : IF i <= Len(ids) THEN s[i] = ids[i] ELSE s[i] \in Modules}

Push(t) ==
    /\ ~abort
    /\ Moves(t, "write", "fetch")
    /\ \E kept \in Memory(index[t] - 1) : ids' = Append(kept, cur[t])
    /\ total' = total + 1
    /\ mstate' = [mstate EXCEPT ![cur[t]] = "active"]
    /\ UNCHANGED <<crew, mstage, nextId, nextIndex, cur, index, abort>>

-----------------------------------------------------------------------------
(* prephare(eStageProceeding): begin() first removes the entries that were
   dropped, one after another, and fills the gap with the last one. *)
ClearInvalidId(i) ==
    /\ ~abort
    /\ mstage = "handle" /\ AllDone
    /\ ids[i] = Invalid /\ \A j \in 1 .. i - 1 : Valid(ids[j])
    /\ ids' = SubSeq([ids EXCEPT ![i] = ids[Len(ids)]], 1, Len(ids) - 1)
    /\ UNCHANGED <<crew, mstage, mstate, nextId, total, nextIndex, at, cur, index, abort>>

PrephareProceeding ==
    /\ ~abort
    /\ mstage = "handle" /\ AllDone
    /\ \A i \in DOMAIN ids : Valid(ids[i])
    /\ nextIndex' = Len(ids)
    /\ \/ /\ total = 0
          /\ mstage' = "none"
          /\ UNCHANGED at
       \/ /\ total # 0
          /\ mstage' = "proceed"
          /\ at' = [t \in Workers |-> IF t \in crew THEN "next" ELSE "done"]
    /\ UNCHANGED <<crew, mstate, nextId, ids, total, cur, index, abort>>

(* getNextId *)
GetNextId(t) ==
    /\ ~abort
    /\ nextIndex' = nextIndex - 1
    /\ \/ /\ nextIndex >= 1
          /\ Moves(t, "next", "proceed")
          /\ index' = [index EXCEPT ![t] = nextIndex]
          /\ cur' = [cur EXCEPT ![t] = ids[nextIndex]]
       \/ /\ nextIndex < 1
          /\ Moves(t, "next", "done")
          /\ UNCHANGED <<index, cur>>
    /\ UNCHANGED <<crew, mstage, mstate, nextId, ids, total, abort>>

(* proceed() of the module: it may switch to the idle state *)
Proceed(t) ==
    /\ ~abort
    /\ Moves(t, "proceed", "check")
    /\ \E s \in {mstate[cur[t]], SwitchToIdle(mstate[cur[t]])} :
          mstate' = [mstate EXCEPT ![cur[t]] = s]
    /\ UNCHANGED <<crew, mstage, nextId, list, cur, index, abort>>

(* isDeactivating() and dropIndex() *)
DropIndex(t) ==
    /\ ~abort
    /\ Moves(t, "check", "deactivate")
    /\ mstate[cur[t]] = "deactivating"
    /\ ids' = [ids EXCEPT ![index[t]] = Invalid]
    /\ total' = total - 1
    /\ UNCHANGED <<crew, mstage, mstate, nextId, nextIndex, cur, index, abort>>

StaysBusy(t) ==
    /\ ~abort
    /\ Moves(t, "check", "next")
    /\ mstate[cur[t]] # "deactivating"
    /\ UNCHANGED <<crew, mstage, mstate, nextId, list, cur, index, abort>>

(* onDeactivated, with its assertion *)
OnDeactivated(t) ==
    /\ ~abort
    /\ Moves(t, "deactivate", "next")
    /\ abort' = (mstate[cur[t]] # "deactivating")
    /\ mstate' = [mstate EXCEPT ![cur[t]] = "idle"]
    /\ UNCHANGED <<crew, mstage, nextId, list, cur, index>>

EndStage ==
    /\ ~abort
    /\ mstage = "proceed" /\ AllDone
    /\ mstage' = "none"
    /\ UNCHANGED <<crew, mstate, nextId, list, at, cur, index, abort>>

Aborted == abort /\ UNCHANGED managerVars

ManagerNext ==
    \/ PrephareHandleMessages
    \/ \E i \in DOMAIN ids : ClearInvalidId(i)
    \/ PrephareProceeding
    \/ EndStage
    \/ \E t \in crew :
          \/ Fetch(t) \/ HandleMessages(t) \/ ReadEnd(t) \/ Push(t)
          \/ GetNextId(t) \/ Proceed(t) \/ DropIndex(t) \/ StaysBusy(t) \/ OnDeactivated(t)
    \/ Aborted

ManagerSpec == ManagerInit /\ [][ManagerNext]_managerVars

-----------------------------------------------------------------------------
(* Properties *)

ManagerTypeOK ==
    /\ crew \subseteq Workers
    /\ mstage \in {"none", "handle", "proceed"}
    /\ mstate \in [Modules -> States]
    /\ nextId \in 0 .. Total
    /\ ids \in Seq(Modules \cup {Invalid})
    /\ total \in Nat
    /\ nextIndex \in Int
    /\ at \in [Workers -> {"done", "fetch", "handle", "push", "write",
                          "next", "proceed", "check", "deactivate"}]
    /\ cur \in [Workers -> Modules \cup {0}]
    /\ index \in [Workers -> Nat]
    /\ abort \in BOOLEAN

(* The messages of a module are handled by one thread at a time, and no two
   threads get the same module in a cycle. *)
HandledByOneThread ==
    \A t, other \in Workers :
        t # other /\ at[t] \in {"handle", "push", "write"}
                  /\ at[other] \in {"handle", "push", "write"} => cur[t] # cur[other]

Listed(m) == \E i \in DOMAIN ids : ids[i] = m
OneThread == Cardinality(crew) = 1

(* With one thread, an active module is in the list of busy modules when a
   cycle ends, whatever messages switched it on and off. *)
BusyIsListedByOneThread ==
    mstage = "none" /\ ~abort /\ OneThread => \A m \in Modules : mstate[m] = "active" => Listed(m)

(* With one thread, m_nTotalIds is the number of modules in the list: when it
   is 0, and the second stage is skipped, nobody is waiting to be proceeded. *)
TotalIsExact ==
    ~abort /\ OneThread => total = Cardinality({i \in DOMAIN ids : Valid(ids[i])})

(* The modules are shared by the threads, and those that are busy are not
   forgotten. *)
BusyListIsExact ==
    ManagerTypeOK /\ HandledByOneThread /\ BusyIsListedByOneThread /\ TotalIsExact

(* "it will be proceeded until is switches to Idle state"
   (CommonModulesManager.h): with any number of threads, an active module is in
   the list of busy modules when a cycle ends. *)
BusyIsListed ==
    mstage = "none" /\ ~abort => \A m \in Modules : mstate[m] = "active" => Listed(m)
=============================================================================
