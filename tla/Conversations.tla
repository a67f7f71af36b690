--------------------------- MODULE Conversations ---------------------------
(***************************************************************************)
(* Clients that call a module.  A client has a SyncPipe, the queue of all  *)
(* messages of its session: a call waits for the first message whatever it *)
(* is (waitConcrete() takes it and then looks at its kind), or returns     *)
(* with a timeout.  The server handles requests in the order they came.    *)
(*                                                                         *)
(* `device` is the kind of module the clients talk to; what is asked and   *)
(* answered is in module Protocol.  Every message carries the number of    *)
(* the call it was caused by, 0 if the client did not wait for it.  The    *)
(* clients do not know these numbers: the question is when they could do   *)
(* without.                                                                *)
(***************************************************************************)
EXTENDS Protocol, SequencesExt

CONSTANTS
    Peers,          \* sessions
    CallsBound,     \* calls made in a behaviour
    SlotsBound      \* slots of a commutator

VARIABLES
    device,         \* kind of the module
    peers,          \* its opened sessions
    inbox,          \* requests that wait to be handled
    tasks,          \* activities: for whom, for which call
    watchers,       \* sessions that get messages without asking (monitors, services)
    slots,          \* of a commutator: which ones hold a module
    pipe,           \* SyncPipe::m_receivedMessages of each session
    call,           \* the last call of each session
    calls           \* number of calls made

conversationVars == <<device, peers, inbox, tasks, watchers, slots, pipe, call, calls>>
serverVars == <<inbox, tasks, watchers, slots>>

(* A call is `clean` if it found its session so and nothing has come between
   since (see Disturbed), `mixed` if it has heard a message of another call,
   `late` if it has run out of time *)
NoCall == [name |-> "none", id |-> 0, script |-> <<>>,
           clean |-> FALSE, mixed |-> FALSE, late |-> FALSE]

ConversationsInit ==
    /\ device \in DOMAIN Calls
    /\ peers \in (SUBSET Peers) \ {{}}
    /\ inbox = <<>> /\ tasks = {} /\ watchers = {}
    /\ slots = <<TRUE>>
    /\ pipe = [p \in Peers |-> <<>>]
    /\ call = [p \in Peers |-> NoCall]
    /\ calls = 0

-----------------------------------------------------------------------------
(* The client *)

Waiting(p) == call[p].script # <<>>

(* Nothing that the session did not ask for in this call is there, or may
   come.  A shipyard reports to all sessions, whoever started to build. *)
IsClean(p) ==
    /\ pipe[p] = <<>>
    /\ \A i \in 1..Len(inbox) : inbox[i].peer # p
    /\ \A t \in tasks : t.peer # p
    /\ p \notin watchers
    /\ device = "Shipyard" => peers = {p}

(* getAttachedModulesList() asks for the number of slots first *)
RequestOf(name) == IF name = "getAttachedModulesList" THEN "getTotalSlots" ELSE name

StartCall(p, name) ==
    /\ p \in peers /\ ~Waiting(p)
    /\ calls < CallsBound
    /\ calls' = calls + 1
    /\ call' = [call EXCEPT ![p] =
                    [name |-> name, id |-> calls + 1, script |-> Calls[device][name],
                     clean |-> IsClean(p), mixed |-> FALSE, late |-> FALSE]]
    /\ inbox' = Append(inbox, [peer |-> p, id |-> calls + 1, name |-> RequestOf(name)])
    /\ UNCHANGED <<device, peers, tasks, watchers, slots, pipe>>

(* Waiting for a message that the session has not asked for now *)
StartWaiting(p, name) ==
    /\ p \in peers /\ ~Waiting(p)
    /\ calls < CallsBound
    /\ calls' = calls + 1
    /\ call' = [call EXCEPT ![p] = [NoCall EXCEPT !.name = name, !.id = calls + 1,
                                                  !.script = Waits[device][name]]]
    /\ UNCHANGED <<device, peers, serverVars, pipe>>

(* The rest of the script after a message of the kind *)
AfterHearing(script, kind) ==
    CASE kind \in Head(script).goes  -> Tail(script)
      [] kind \in Head(script).again -> script
      [] OTHER                       -> <<>>

(* The call when it has heard a message and goes on with a script *)
Heard(c, m, script) == [c EXCEPT !.script = script, !.mixed = @ \/ m.id # c.id]

Hear(p) ==
    /\ Waiting(p) /\ pipe[p] # <<>>
    /\ LET m == Head(pipe[p]) IN
       /\ ~(call[p].name = "getAttachedModulesList" /\ m.kind = "total_slots")
       /\ call' = [call EXCEPT ![p] = Heard(@, m, AfterHearing(@.script, m.kind))]
    /\ pipe' = [pipe EXCEPT ![p] = Tail(@)]
    /\ UNCHANGED <<device, peers, serverVars, calls>>

(* getAttachedModulesList() expects one message for every slot *)
ExpectInfos(total) == [i \in 1..total |-> IF i < total THEN Wait({"module_info"}, {}, {})
                                                      ELSE Wait({}, {}, {"module_info"})]

HearTotalSlots(p) ==
    /\ Waiting(p) /\ pipe[p] # <<>>
    /\ LET m == Head(pipe[p]) IN
       /\ call[p].name = "getAttachedModulesList" /\ m.kind = "total_slots"
       /\ call' = [call EXCEPT ![p] = Heard(@, m, ExpectInfos(m.total))]
       /\ inbox' = Append(inbox, [peer |-> p, id |-> call[p].id, name |-> "allModulesInfo"])
    /\ pipe' = [pipe EXCEPT ![p] = Tail(@)]
    /\ UNCHANGED <<device, peers, tasks, watchers, slots, calls>>

(* waitFor() ran out of time before a message came *)
Timeout(p) ==
    /\ Waiting(p) /\ pipe[p] = <<>>
    /\ call' = [call EXCEPT ![p].script = <<>>, ![p].late = TRUE]
    /\ UNCHANGED <<device, peers, serverVars, pipe, calls>>

DropQueuedMessage(p) ==
    /\ ~Waiting(p) /\ pipe[p] # <<>>
    /\ pipe' = [pipe EXCEPT ![p] = <<>>]
    /\ UNCHANGED <<device, peers, serverVars, call, calls>>

-----------------------------------------------------------------------------
(* The server *)

Tagged(kinds, id) == [i \in 1..Len(kinds) |-> [kind |-> kinds[i], id |-> id, total |-> Len(slots)]]

(* the pipes when the peer has been sent messages *)
Sent(p, kinds, id) == [pipe EXCEPT ![p] = @ \o Tagged(kinds, id)]

(* what a session is sent on behalf of somebody's call: its own number only
   to the caller *)
SentToAll(kinds, caller, id) ==
    [p \in Peers |-> IF p \in peers THEN pipe[p] \o Tagged(kinds, IF p = caller THEN id ELSE 0)
                                    ELSE pipe[p]]

(* The calls when something has come between for those of some sessions that
   still wait: they are not clean any more *)
Disturbed(sessions) ==
    [p \in Peers |-> IF Waiting(p) /\ p \in sessions THEN [call[p] EXCEPT !.clean = FALSE]
                                                     ELSE call[p]]

Answer(r) ==
    /\ r.name \in DOMAIN Answers[device]
    /\ \E kinds \in Answers[device][r.name] : pipe' = Sent(r.peer, kinds, r.id)
    /\ UNCHANGED <<tasks, watchers>>

Task(r) == [peer |-> r.peer, id |-> r.id, over |-> FALSE]

(* Requests that start an activity of a scanner, container or miner *)
Begin(r) ==
    /\ device \in DOMAIN Activities
    /\ LET a == Activities[device] IN
       /\ r.name = a.call
       /\ \/ /\ tasks # {}
             /\ pipe' = Sent(r.peer, a.busy, r.id)
             /\ UNCHANGED tasks
          \/ /\ tasks = {}
             /\ \E kinds \in a.refused : pipe' = Sent(r.peer, kinds, r.id)
             /\ UNCHANGED tasks
          \/ /\ tasks = {}
             /\ tasks' = {[Task(r) EXCEPT !.id = IF a.owed THEN @ ELSE 0]}
             /\ pipe' = Sent(r.peer, a.started, r.id)
    /\ UNCHANGED watchers

(* That mining is stopped is told to the session that has started it; a miner
   that is only about to start is idle *)
StopMining(r) ==
    /\ device = "AsteroidMiner" /\ r.name = "stopMining"
    /\ \/ pipe' = Sent(r.peer, <<"miner_is_idle">>, r.id) /\ UNCHANGED tasks
       \/ \E t \in tasks :
          /\ pipe' = [p \in Peers |->
                 pipe[p] \o (IF p = r.peer THEN Tagged(<<"stopping">>, r.id) ELSE <<>>)
                         \o (IF p = t.peer THEN Tagged(<<"mining_is_stopped">>,
                                                       IF p = r.peer THEN r.id ELSE 0)
                                           ELSE <<>>)]
          /\ tasks' = {}
    /\ UNCHANGED watchers

(* That the shipyard is busy is told to all sessions *)
StartBuild(r) ==
    /\ device = "Shipyard" /\ r.name = "build"
    /\ \/ tasks # {} /\ pipe' = SentToAll(<<"shipyard_is_busy">>, r.peer, r.id) /\ UNCHANGED tasks
       \/ tasks = {} /\ pipe' = Sent(r.peer, <<"build_refused">>, r.id) /\ UNCHANGED tasks
       \/ tasks = {} /\ pipe' = Sent(r.peer, <<"build_started">>, r.id) /\ tasks' = {Task(r)}
    /\ UNCHANGED watchers

(* The clock takes new ticks as soon as the ticks are over, also when the
   administrator who asked for them has not been told yet; it refuses them
   when it is not in the debug mode *)
ProceedTicks(r) ==
    /\ device = "AdministratorPanel" /\ r.name = "proceed"
    /\ \/ pipe' = Sent(r.peer, <<"status">>, r.id) /\ UNCHANGED tasks
       \/ /\ \A t \in tasks : t.over
          /\ tasks' = {Task(r)}
          /\ UNCHANGED pipe
    /\ UNCHANGED watchers

(* That the clock is terminated is also told to who waits for ticks, who may
   be another administrator: the status looks like an answer to his call *)
Terminate(r) ==
    /\ device = "AdministratorPanel" /\ r.name = "terminate"
    /\ \/ tasks = {} /\ pipe' = Sent(r.peer, <<"status">>, r.id) /\ UNCHANGED call
       \/ \E t \in tasks :
          /\ pipe' = [p \in Peers |->
                 pipe[p] \o (IF p = r.peer THEN Tagged(<<"status">>, r.id) ELSE <<>>)
                         \o (IF p = t.peer THEN Tagged(<<"status">>, 0) ELSE <<>>)]
          /\ call' = Disturbed({t.peer})
    /\ UNCHANGED <<tasks, watchers>>

(* A request of monitoring; the answer of a container or a ship is what the
   updates look like as well *)
MonitorAnswer == [Ship |-> "state", PassiveScanner |-> "monitor_ack",
                  ResourceContainer |-> "content", Commutator |-> "monitor_ack"]
MonitorUpdate == [Ship |-> "state", PassiveScanner |-> "update",
                  ResourceContainer |-> "content", Commutator |-> "update"]

StartMonitoring(r) ==
    /\ device \in DOMAIN MonitorAnswer
    /\ r.name \in {"monitor", "monitoring"}
    /\ pipe' = Sent(r.peer, <<MonitorAnswer[device]>>, r.id)
    /\ watchers' \in {watchers, watchers \union {r.peer}}
    /\ UNCHANGED tasks

(* A session becomes a service, or is refused *)
OpenService(r) ==
    /\ device = "Messanger" /\ r.name = "openService"
    /\ pipe' = Sent(r.peer, <<"open_service_status">>, r.id)
    /\ watchers' \in {watchers, watchers \union {r.peer}}
    /\ UNCHANGED tasks

(* A request goes to a service before the client is told *)
RouteRequest(r) ==
    /\ device = "Messanger" /\ r.name = "request"
    /\ \/ pipe' = Sent(r.peer, <<"not_routed">>, r.id) /\ UNCHANGED tasks
       \/ \E w \in watchers :
          /\ pipe' = [p \in Peers |->
                 pipe[p] \o (IF p = w THEN Tagged(<<"request">>, 0) ELSE <<>>)
                         \o (IF p = r.peer THEN Tagged(<<"routed">>, r.id) ELSE <<>>)]
          /\ tasks' = tasks \union {Task(r)}
    /\ UNCHANGED watchers

(* A response goes to the client of the transaction it names, whatever
   session it comes from; a wrong number is answered with a status *)
ForwardResponse(r) ==
    /\ device = "Messanger" /\ r.name = "sendResponse"
    /\ \/ \E t \in tasks : pipe' = Sent(t.peer, <<"response">>, t.id) /\ tasks' = tasks \ {t}
       \/ pipe' = Sent(r.peer, <<"not_routed">>, r.id) /\ UNCHANGED tasks
    /\ UNCHANGED watchers

(* Only slots that are not empty are told of *)
SendModulesInfo(r) ==
    /\ device = "Commutator" /\ r.name = "allModulesInfo"
    /\ LET attached == {i \in 1..Len(slots) : slots[i]} IN
       pipe' = Sent(r.peer, [i \in 1..Cardinality(attached) |-> "module_info"], r.id)
    /\ UNCHANGED <<tasks, watchers>>

Handle(r) == \/ Answer(r) \/ Begin(r) \/ StopMining(r) \/ StartBuild(r) \/ ProceedTicks(r)
             \/ StartMonitoring(r) \/ OpenService(r) \/ RouteRequest(r) \/ ForwardResponse(r)
             \/ SendModulesInfo(r)

Serve ==
    /\ inbox # <<>>
    /\ \/ Handle(Head(inbox)) /\ UNCHANGED call
       \/ Terminate(Head(inbox))
    /\ inbox' = Tail(inbox)
    /\ UNCHANGED <<device, peers, slots, calls>>

(* An activity goes on, or ends *)
Report(t) ==
    /\ \/ /\ device \in DOMAIN Activities
          /\ \E kind \in Activities[device].reports : pipe' = Sent(t.peer, <<kind>>, t.id)
       \/ /\ device = "Shipyard"
          /\ pipe' = SentToAll(<<"build_in_progress">>, t.peer, t.id)
    /\ UNCHANGED <<device, peers, serverVars, call, calls>>

(* The cargo lacks resources: the build goes on when they are there, but who
   waits for its end is told so and returns *)
BuildIsFrozen(t) ==
    /\ device = "Shipyard"
    /\ pipe' = SentToAll(<<"build_frozen">>, t.peer, t.id)
    /\ call' = Disturbed({t.peer})
    /\ UNCHANGED <<device, peers, serverVars, calls>>

Finish(t) ==
    /\ \/ /\ device \in DOMAIN Activities
          /\ \E kinds \in Activities[device].ends : pipe' = Sent(t.peer, kinds, t.id)
       \/ /\ device = "Shipyard"
          /\ pipe' = SentToAll(<<"build_complete", "building_complete">>, t.peer, t.id)
       \/ /\ device = "AdministratorPanel" /\ t.over
          /\ pipe' = Sent(t.peer, <<"now">>, t.id)
       \/ /\ device = "Messanger"      \* nobody has responded in time
          /\ pipe' = Sent(t.peer, <<"not_routed">>, t.id)
    /\ tasks' = tasks \ {t}
    /\ UNCHANGED <<device, peers, inbox, watchers, slots, call, calls>>

(* The clock has made the last tick; it is told about in the next cycle *)
TicksAreOver(t) ==
    /\ device = "AdministratorPanel" /\ ~t.over
    /\ tasks' = {[t EXCEPT !.over = TRUE]}
    /\ UNCHANGED <<device, peers, inbox, watchers, slots, pipe, call, calls>>

Update ==
    /\ device \in {"Ship", "PassiveScanner", "ResourceContainer"} /\ watchers # {}
    /\ pipe' = [p \in Peers |-> IF p \in watchers
                                THEN pipe[p] \o Tagged(<<MonitorUpdate[device]>>, 0)
                                ELSE pipe[p]]
    /\ UNCHANGED <<device, peers, serverVars, call, calls>>

(* A module is attached to a new slot or leaves its slot.  A list of modules
   that is being taken meanwhile is not a clean one. *)
ChangeSlots ==
    /\ device = "Commutator"
    /\ \/ /\ Len(slots) < SlotsBound /\ \A i \in 1..Len(slots) : slots[i]
          /\ slots' = Append(slots, TRUE)
       \/ \E i \in 1..Len(slots) : slots[i] /\ slots' = [slots EXCEPT ![i] = FALSE]
    /\ pipe' = [p \in Peers |-> IF p \in watchers
                                THEN pipe[p] \o Tagged(<<MonitorUpdate[device]>>, 0)
                                ELSE pipe[p]]
    /\ call' = Disturbed({p \in Peers : call[p].name = "getAttachedModulesList"})
    /\ UNCHANGED <<device, peers, inbox, tasks, watchers, calls>>

(* the bound on messages that come unasked *)
PipeHasRoom == \A p \in Peers : Len(pipe[p]) < 2

ConversationsNext ==
    \/ \E p \in Peers :
       \/ \E name \in DOMAIN Calls[device] : StartCall(p, name)
       \/ device \in DOMAIN Waits /\ \E name \in DOMAIN Waits[device] : StartWaiting(p, name)
       \/ Hear(p) \/ HearTotalSlots(p) \/ Timeout(p) \/ DropQueuedMessage(p)
    \/ Serve
    \/ \E t \in tasks :
       (PipeHasRoom /\ (Report(t) \/ BuildIsFrozen(t))) \/ Finish(t) \/ TicksAreOver(t)
    \/ PipeHasRoom /\ (Update \/ ChangeSlots)

ConversationsSpec == ConversationsInit /\ [][ConversationsNext]_conversationVars

-----------------------------------------------------------------------------
(* A call that finds its session clean understands nobody else's message as
   its own, and when it returns without a timeout it leaves none of its
   messages for the next call: without numbers in the messages the client
   still tells the answers of its calls apart (SyncPipe.h, waitConcrete).
   Three calls are left out from the moment on at which they are disturbed: a
   build that is reported frozen, ticks while the clock is terminated, a list
   of modules while the slots change. *)
CleanCallIsWhole ==
    \A p \in Peers :
        call[p].clean =>
            /\ ~call[p].mixed
            /\ ~Waiting(p) /\ ~call[p].late /\ Calls[device][call[p].name] # <<>> =>
                   /\ \A i \in 1..Len(pipe[p]) : pipe[p][i].id # call[p].id
                   /\ \A i \in 1..Len(inbox) : inbox[i].id # call[p].id
                   /\ \A t \in tasks : t.id # call[p].id

(* The calls of the client that are not answered although the server lost
   nothing: the cancel of a build, the second status of a change of the
   clock's mode or of its termination, the indication about somebody else's mining, the infos about
   empty slots, and ticks that were reported to the next administrator. *)
MayWaitInVain(p) ==
    \/ call[p].name \in {"cancelBuild", "switchMode", "terminate", "stopMining", "proceed"}
    \/ call[p].name = "getAttachedModulesList" /\ \E i \in 1..Len(slots) : ~slots[i]

(* Every other clean call that waits with an empty pipe is still owed
   something by the server: a request that is not handled yet or an activity. *)
NobodyWaitsInVain ==
    \A p \in Peers :
        Waiting(p) /\ call[p].clean /\ pipe[p] = <<>> /\ ~MayWaitInVain(p) =>
            \/ \E i \in 1..Len(inbox) : inbox[i].id = call[p].id
            \/ \E t \in tasks : t.id = call[p].id
=============================================================================
