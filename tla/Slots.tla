------------------------------- MODULE Slots -------------------------------
(***************************************************************************)
(* The slots of a commutator: modules are attached, destroyed, put offline *)
(* and detached, sessions to them are opened and closed, and other         *)
(* sessions of the commutator monitor the slots.  Client code sees the     *)
(* slots only through module_info lists and the updates it is sent.        *)
(*                                                                         *)
(* m_monitoringSessions is a vector of which onSessionClosed reads         *)
(* elements past the end: the model keeps its memory (mem) beside its size *)
(* (monitors), and such a read yields what the memory still holds.         *)
(*                                                                         *)
(* Requests to monitor are buffered, with a timestamp for as long as it    *)
(* says, and closing their session does not remove them: one may be        *)
(* handled at any time after that, as if the session were open.            *)
(***************************************************************************)
EXTENDS Naturals, Sequences, SequencesExt

CONSTANTS
    Ships,           \* modules that may be attached
    Links,        \* sessions of the client
    MonitorsLimit    \* 8

Null == "null"       \* an empty slot, m_modules[i].reset()
Com == "commutator"
Closed == "closed"   \* what a session of the commutator leads to when it is closed

ASSUME SlotsAssumption ==
    /\ Null \notin Ships /\ Com \notin Ships /\ Closed \notin Ships
    /\ MonitorsLimit \in Nat \ {0}

VARIABLES
    slots,      \* Commutator::m_modules
    status,     \* BaseModule::m_eStatus; "new": not built yet
    target,     \* what a session leads to, Null or Closed: nothing
    mem,        \* memory of m_monitoringSessions
    monitors,   \* m_monitoringSessions.size()
    view,       \* the slots as a session has been told of
    repeated,   \* a session has asked for monitoring twice
    stale,       \* sessions whose request was handled when they were closed
    crashed     \* a null pointer was dereferenced

slotsVars == <<slots, status, target, mem, monitors, view, repeated, stale, crashed>>

Unknown == <<"unknown">>   \* the session has not asked for the list
Monitors(s) == \E i \in 1..monitors : mem[i] = s
ActiveSessions(module) == {s \in Links : target[s] = module}
IsNew(s) == target[s] \in {Null, Closed} /\ \A i \in DOMAIN mem : mem[i] # s

SlotsInit ==
    /\ slots = <<>>
    /\ status = [m \in Ships |-> "new"]
    /\ target = [s \in Links |-> Null]
    /\ mem = [i \in 1..MonitorsLimit |-> Null]
    /\ monitors = 0
    /\ view = [s \in Links |-> Unknown]
    /\ repeated = FALSE
    /\ stale = {}
    /\ crashed = FALSE

-----------------------------------------------------------------------------
(* What a client that knows `known` makes of the update about a slot *)
Learns(known, slot, module) ==
    IF known = Unknown THEN Unknown
    ELSE [i \in 1..(IF slot > Len(known) THEN slot ELSE Len(known)) |->
             IF i = slot THEN module ELSE IF i <= Len(known) THEN known[i] ELSE Null]

(* mutant: the last monitoring session is skipped *)
ToldButLast(views, slot, module) ==
    [s \in Links |-> IF \E i \in 1..(monitors - 1) : mem[i] = s
                        THEN Learns(views[s], slot, module) ELSE views[s]]

(* sendModuleAttachedUpdate, sendModuleDetachedUpdate *)
Told(views, slot, module) ==
    [s \in Links |-> IF Monitors(s) THEN Learns(views[s], slot, module) ELSE views[s]]

(* attachModule: the first slot whose module is destroyed is used again, its
   module is detached; an empty slot in front of it is dereferenced. *)
AttachModule(m) ==
    /\ status[m] = "new" /\ ~crashed
    /\ status' = [status EXCEPT ![m] = "online"]
    /\ LET stops == {i \in DOMAIN slots : slots[i] = Null \/ status[slots[i]] = "destroyed"}
           slot  == CHOOSE i \in stops : \A j \in stops : i <= j
       IN  \/ /\ stops = {}
              /\ slots' = Append(slots, m)
              /\ view' = Told(view, Len(slots) + 1, m)
              /\ UNCHANGED <<target, crashed>>
           \/ /\ stops # {} /\ slots[slot] = Null
              /\ crashed' = TRUE
              /\ UNCHANGED <<slots, view, target>>
           \/ /\ stops # {} /\ slots[slot] # Null
              /\ slots' = [slots EXCEPT ![slot] = m]
              /\ target' = [s \in Links |-> IF target[s] = slots[slot] THEN Null ELSE target[s]]
              /\ view' = Told(Told(view, slot, Null), slot, m)
              /\ UNCHANGED crashed
    /\ UNCHANGED <<mem, monitors, repeated, stale>>

(* putOffline, putOnline, onDoestroyed *)
ChangeStatus(m, to) ==
    /\ ~crashed
    /\ status[m] \in {"online", "offline"} /\ to # status[m]
    /\ status' = [status EXCEPT ![m] = to]
    /\ UNCHANGED <<slots, target, mem, monitors, view, repeated, stale, crashed>>

(* mutant: the loop stops at the first slot *)
ToDetachFirst == {i \in DOMAIN slots : i = 1 /\ slots[i] # Null /\ status[slots[i]] = "destroyed"
                                       /\ ActiveSessions(slots[i]) # {}}

(* The slots that checkSlots detaches: the module is destroyed and has open
   sessions *)
ToDetach == {i \in DOMAIN slots : slots[i] # Null /\ status[slots[i]] = "destroyed"
                                  /\ ActiveSessions(slots[i]) # {}}

(* checkSlots: destroyed modules with open sessions are detached, their
   sessions are closed (detachModule) *)
CheckSlots ==
    /\ ~crashed /\ ToDetach # {}
    /\ slots' = [i \in DOMAIN slots |-> IF i \in ToDetach THEN Null ELSE slots[i]]
    /\ target' = [s \in Links |->
                     IF \E i \in ToDetach : target[s] = slots[i] THEN Null ELSE target[s]]
    /\ view' = [s \in Links |->
                   IF Monitors(s) /\ view[s] # Unknown
                   THEN [i \in DOMAIN view[s] |-> IF i \in ToDetach THEN Null ELSE view[s][i]]
                   ELSE view[s]]
    /\ UNCHANGED <<status, mem, monitors, repeated, stale, crashed>>

-----------------------------------------------------------------------------
(* A session of the commutator is opened; the id is a new one. *)
OpenCommutatorSession(s) ==
    /\ ~crashed
    /\ IsNew(s)
    /\ target' = [target EXCEPT ![s] = Com]
    /\ UNCHANGED <<slots, status, mem, monitors, view, repeated, stale, crashed>>

(* onOpenTunnelRequest: only modules that are online accept tunnels *)
OpenTunnel(s, slot) ==
    /\ ~crashed
    /\ IsNew(s)
    /\ \E com \in Links : target[com] = Com
    /\ slots[slot] # Null /\ status[slots[slot]] = "online"
    /\ target' = [target EXCEPT ![s] = slots[slot]]
    /\ UNCHANGED <<slots, status, mem, monitors, view, repeated, stale, crashed>>

(* onMonitoringRequest: whether the session is still open is not looked at. *)
OnMonitoringRequest(s) ==
    /\ ~crashed /\ target[s] \in {Com, Closed}
    /\ monitors < MonitorsLimit
    /\ mem' = [mem EXCEPT ![monitors + 1] = s]
    /\ monitors' = monitors + 1
    /\ repeated' = (repeated \/ Monitors(s))
    /\ stale' = IF target[s] = Closed THEN stale \cup {s} ELSE stale
    /\ UNCHANGED <<slots, status, target, view, crashed>>

(* getAllModulesInfo, asked for by a session that monitors: empty slots are
   not listed.  What is sent to a closed session is lost. *)
GetAllModulesInfo(s) ==
    /\ ~crashed /\ target[s] = Com /\ Monitors(s)
    /\ view' = [view EXCEPT ![s] = slots]
    /\ UNCHANGED <<slots, status, target, mem, monitors, repeated, stale, crashed>>

(* Commutator::onSessionClosed: the loop goes over the old size. *)
DropMonitor(v, i, s) ==
    IF v.mem[i] = s
    THEN [mem |-> [v.mem EXCEPT ![i] = v.mem[v.size]], size |-> v.size - 1]
    ELSE v

WithoutMonitor(v, s) ==
    LET after[i \in 0..v.size] == IF i = 0 THEN v ELSE DropMonitor(after[i - 1], i, s)
    IN after[v.size]

(* The client closes a session, or the module does because it is not online
   when it handles a message (BaseModule::handleMessage). *)
OnLinkClosed(s) ==
    /\ ~crashed /\ target[s] \notin {Null, Closed}
    /\ LET v == WithoutMonitor([mem |-> mem, size |-> monitors], s)
       IN  \/ /\ target[s] = Com
              /\ mem' = v.mem /\ monitors' = v.size
           \/ /\ target[s] # Com
              /\ UNCHANGED <<mem, monitors>>
    /\ target' = [target EXCEPT ![s] = IF @ = Com THEN Closed ELSE Null]
    /\ view' = [view EXCEPT ![s] = Unknown]
    /\ UNCHANGED <<slots, status, repeated, stale, crashed>>

SlotsNext ==
    \/ \E m \in Ships : AttachModule(m)
    \/ \E m \in Ships, to \in {"online", "offline", "destroyed"} : ChangeStatus(m, to)
    \/ CheckSlots
    \/ \E s \in Links :
          \/ OpenCommutatorSession(s)
          \/ \E slot \in DOMAIN slots : OpenTunnel(s, slot)
          \/ OnMonitoringRequest(s)
          \/ GetAllModulesInfo(s)
          \/ OnLinkClosed(s)

SlotsSpec == SlotsInit /\ [][SlotsNext]_slotsVars

-----------------------------------------------------------------------------
(* What a client knows of the slots from one list and the updates after it is
   what they are, as long as no session asked for monitoring twice: no update
   is lost when slots are reused or other sessions stop monitoring. *)
MonitorsSeeSlots ==
    \/ repeated
    \/ \A s \in Links : target[s] = Com /\ view[s] # Unknown => view[s] = slots

(* The monitoring sessions are sessions of the commutator that are open, each
   kept once, or were closed before their request was handled: those, and no
   others, use up one of the eight places for ever.  Again as long as no session
   asked twice. *)
MonitorsAreOpen ==
    \/ repeated
    \/ \A i \in 1..monitors : target[mem[i]] = Com \/ (target[mem[i]] = Closed /\ mem[i] \in stale)

EachIsKeptOnce ==
    repeated \/ \A i, j \in 1..monitors : mem[i] = mem[j] => i = j

(* The monitors of a commutator are those who may be told, and know the slots. *)
MonitorsAreExact == MonitorsSeeSlots /\ MonitorsAreOpen /\ EachIsKeptOnce

(* The sessions of a destroyed module are closed in the end, although a slot is
   checked only while its module has open sessions. *)
DestroyedIsLeft ==
    \A m \in Ships : (status[m] = "destroyed" /\ ~crashed) ~> (ActiveSessions(m) = {} \/ crashed)
=============================================================================
