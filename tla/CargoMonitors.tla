--------------------------- MODULE CargoMonitors ---------------------------
(***************************************************************************)
(* The sessions that monitor a ResourceContainer.  A request to monitor is *)
(* buffered, so its session may be closed by the time it is handled; such  *)
(* a dead session is found out when an update can not be sent to it.       *)
(***************************************************************************)
EXTENDS Naturals, Sequences, FiniteSets, SequencesExt

CONSTANT Watchers   \* sessions of the container

VARIABLES
    content,      \* what the container holds; a number that changes
    modified,     \* m_lModifiedFlag
    watchList,    \* m_monitoringSessions
    watching,     \* sessions that are open
    requested,    \* buffered requests to monitor
    told,         \* the content a session was told last
    removed       \* dead sessions that the last round of updates has removed

cargoMonitorsVars == <<content, modified, watchList, watching, requested, told, removed>>

Nothing == 3

CargoMonitorsInit ==
    /\ content = 0
    /\ modified = FALSE
    /\ watchList = <<>>
    /\ watching = Watchers
    /\ requested = {}
    /\ told = [s \in Watchers |-> Nothing]
    /\ removed = 0

-----------------------------------------------------------------------------
(* UnorderedVector::remove: the last element takes the place of the i-th one *)
RemoveUnordered(list, i) ==
    SubSeq([list EXCEPT ![i] = Last(list)], 1, Len(list) - 1)

(* UnorderedVector::removeFirst *)
RemoveFirstUnordered(list, s) ==
    IF Contains(list, s) THEN RemoveUnordered(list, SelectInSeq(list, LAMBDA x : x = s)) ELSE list

PushMonitor(list, s) == IF Contains(list, s) THEN list ELSE Append(list, s)

(* sendUpdatesIfRequired: a session that can not be told is removed, and the
   one that takes its place is passed over. *)
TellOrRemove(w, i) ==
    IF i > Len(w.list) THEN w
    ELSE IF w.list[i] \in watching THEN [w EXCEPT !.told = @ \cup {w.list[i]}]
    ELSE [w EXCEPT !.list = RemoveUnordered(@, i)]

Sweep(list) ==
    LET after[i \in 0..Len(list)] ==
            IF i = 0 THEN [list |-> list, told |-> {}] ELSE TellOrRemove(after[i - 1], i)
    IN after[Len(list)]

-----------------------------------------------------------------------------
RequestMonitor(s) ==
    /\ s \in watching
    /\ requested' = requested \cup {s}
    /\ UNCHANGED <<content, modified, watchList, watching, told, removed>>

(* The session is closed: onSessionClosed.  Another one opens later. *)
CloseWatcher(s) ==
    /\ s \in watching
    /\ watching' = watching \ {s}
    /\ watchList' = RemoveFirstUnordered(watchList, s)
    /\ UNCHANGED <<content, modified, requested, told, removed>>

(* mutant: the content is not sent at once *)
MonitorSilently(s) ==
    /\ s \in requested
    /\ requested' = requested \ {s}
    /\ watchList' = PushMonitor(watchList, s)
    /\ UNCHANGED <<content, modified, watching, told, removed>>

(* monitor: the request leaves the buffer *)
Monitor(s) ==
    /\ s \in requested
    /\ requested' = requested \ {s}
    /\ watchList' = PushMonitor(watchList, s)
    /\ told' = IF s \in watching THEN [told EXCEPT ![s] = content] ELSE told
    /\ UNCHANGED <<content, modified, watching, removed>>

(* putResource, consume, consumeExactly: some other content *)
Modify ==
    /\ content' = (content + 1) % 3
    /\ modified' = TRUE
    /\ UNCHANGED <<watchList, watching, requested, told, removed>>

(* ResourceContainerManager::proceedAdditionalStage *)
SendUpdates ==
    LET swept == Sweep(watchList)
    IN  /\ modified
        /\ modified' = FALSE
        /\ watchList' = swept.list
        /\ told' = [s \in Watchers |-> IF s \in swept.told THEN content ELSE told[s]]
        /\ removed' = Len(watchList) - Len(swept.list)
        /\ UNCHANGED <<content, watching, requested>>

CargoMonitorsNext ==
    \/ \E s \in Watchers : RequestMonitor(s) \/ CloseWatcher(s) \/ Monitor(s)
    \/ Modify
    \/ SendUpdates

CargoMonitorsSpec == CargoMonitorsInit /\ [][CargoMonitorsNext]_cargoMonitorsVars

-----------------------------------------------------------------------------
(* Properties *)

(* After a round of updates the live monitoring sessions know the content,
   but for one at most for each dead session the round removed; a session is
   on the list once, and (onSessionClosed) a closed one is there only if its
   request was handled too late. *)
MonitorsAreTold ==
    /\ IsInjective(watchList)
    /\ ~modified =>
          Cardinality({s \in watching : Contains(watchList, s) /\ told[s] # content}) <= removed
=============================================================================
