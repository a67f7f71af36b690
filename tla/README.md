# Verification of the space-expansion server

TLA+ models of the server of space-expansion (`src/server`), of its functional
tests and of the C++ client they use, the TLC runs that check the models on small
instances, and TLAPS proofs of some of the properties for every instance. The
models are translated from the C++ source; `PROJECT.json` maps each definition to
the lines it stands for, and lists the hazards the properties are about.

## 1. The system

The server simulates a world of ships in which players control ships through
their modules over UDP, with protobuf messages.

- **Threads.** `Conveyor` runs a chain of logics, again and again. Each stage of
  a logic is prepared by the main thread alone (`prephare`) and then executed by
  all threads (`proceed`), between two waits on one barrier.
- **Time.** `SystemManager::run` asks `Clock` for an interval of game time and
  passes it to the conveyor. An administrator (or a test) may stop the clock and
  ask for ticks.
- **Network.** `UdpDispatcher` polls sockets in `prephare`, so every datagram is
  received by the main thread while no other thread works. `UdpSocket` finds the
  connection by the sender's endpoint; `SessionMux` (one per player) finds the
  session by its id and passes the message to the handler of the session.
- **Sessions.** A login gives a client a connection with a root session.
  Further sessions ("tunnels") lead to modules: the root session opens one to the
  root commutator, and commutators open tunnels to the modules in their slots.
- **Modules.** A module buffers its messages (`BufferedProtobufTerminal`) and
  handles them in a stage of its manager (`CommonModulesManager`), where the
  threads share the modules of a type; busy modules are proceeded in a second
  stage. So a request is handled after the state it was sent in, and in
  particular after its session may have been closed.
- **World.** `NewtonEngine` moves all physical objects in several threads and
  keeps them in the cells of `Grid`; scanners look objects up by cells.
- **Shared state across threads.** `SessionMux` is called by every thread and
  has a mutex; modules have their own; `IdArray`, `GlobalContainer`,
  `SimpleIdPool`, the cells and the filters are shared with atomics, mutexes,
  spinlocks, or nothing.

### Inventory

| Component | State | Operations | Hard behaviour | Correct when |
|---|---|---|---|---|
| SessionMux | table of sessions, free indexes, connections with the ids of their sessions | addConnection, createSession, closeSession, closeConnection, markAllConnectionsAsClosed, onMessageReceived | indexes reused, stale ids, closing is a loop with callbacks | no session outlives its connection; no index leaks; ids name what they named |
| Connectivity check | two timestamps per connection | checkConnectionsActivity | timeouts against late answers | bounded silence; who answers stays |
| UdpSocket, AccessPanel | slots of two kinds, ports | createPersistentSession, onDataReceived, login | a slot is reused while its request waits; unparsable datagrams | each slot in use is owed an answer, and gets it |
| AdministratorPanel | token, session | login, commands | sessions of one address reused by another | only who is logged in is obeyed |
| Commutator, BaseModule | slots, sessions of each module, monitors | open_tunnel, close_tunnel, attach, detach, monitor, checkSlots | requests handled later, in another thread; iteration over a vector that shrinks | all live sessions counted, within the limit; monitors see the slots |
| BufferedProtobufTerminal | two queues | onMessageReceived, handleBufferedMessages | timestamps in the future, a full queue | every message handled once, not too soon |
| Conveyor | state of the cycle, schedule | proceed, joinAsSlave, stop | barriers | stages apart, no deadlock, rate limited |
| CommonModulesManager, IdArray | next module, list of busy modules | handleAllMessages, proceedBusyModules | threads share the list | a busy module is proceeded until idle |
| SimpleIdPool, ChunksPool | mark, released ids; lists of chunks | getNext, release; get, release | reuse in any order | none lost, none given out twice |
| GlobalContainer | instances, mirrors | registerSelf, destructor | id and slot in several critical sections | dense, no slot lost, mirrors agree |
| ResourceContainer | amounts, ports, transfer | put, consume, transfer, open/close port, monitor | two containers, two threads; a port closed during a transfer | amounts conserved, within volume |
| Shipyard, AsteroidMiner | building process, mining cycle | start, cancel, proceed | they share a container with transfers | a ship costs what its blueprint says |
| Messanger | services, transactions | open_service, request, response, timeout | a session closed with requests pending; replacement by force | at most one answer per request, and one in the end |
| SystemClock module, Ship | rings, subscriptions | ring, subscribe, proceed | 32-bit periods; sessions closed | nobody is served late |
| Clock, ClockControl | mode, ticks, time lost | pause, play, terminate, proceed ticks | real and in-game time | intervals are never negative; ticks are reported |
| Newton, Grid | positions, cells | move, spawn, filter | threads move objects at the same time | an object is in its cell and no other |
| Scanners | scan in progress, list of detected objects | scan, proceed | the world moves between request and answer | each scan answered, with what is there |
| Screen, ObjectsFilter | rectangle, filtered objects | move, show, proceed | all threads insert into one vector | each object in the rectangle, once |
| Arbitrators | leaderboard | score, sort, game over | threads share the rows | order and end of the game match the scores |
| Configuration, Blueprints | sections | load, build, list | early returns that leave things half loaded | a server that runs is what its file says |
| Functional tests, C++ client | barrier, pipes | proceed, skipTime, calls | answers without numbers, shared sessions | tests and server in lock step; an answer is taken for its own call |

The python SDK, the web client and the demos are clients of the server and are
not modelled; a client is present through what it may send.

## 2. Modules

| Module | Models | Run |
|---|---|---|
| `SessionMux` | `Network/SessionMux.*` with the UDP sessions of the connections | `session_mux`, `session_mux_null` |
| `Tunnels`, `MCTunnels` | commutators and modules' sessions, composed with `SessionMux` (EXTENDS) | `tunnels`, `tunnels_parent` |
| `Connectivity` | heartbeats and timeouts, persistent sessions of `UdpSocket` | `network` |
| `Login`, `AdminLogin` | the table of a promiscuous socket and `AccessPanel`; `AdministratorPanel` (EXTENDS, for the table) | `network` |
| `BufferedTerminal` | `Network/BufferedProtobufTerminal.h` | `network`, `buffered_terminal_drop` |
| `Conveyor` | `Conveyor/Conveyor.cpp` | `threads` |
| `ModulesManager` | `Modules/CommonModulesManager.h`, `Utils/IdArray.h` | `threads`, `modules_manager_push` |
| `IdAllocator`, `IdPool`, `Registry` | what an id pool promises; `Utils/SimpleIdPool.h`; `Utils/GlobalContainer.h`, `GlobalObject.h`, `ObjectsContainer` on top of the pool (EXTENDS) | `threads` |
| `ChunksPool` | `Utils/ChunksPool.*` as `UdpSocket::send` uses it | `threads` |
| `Clock`, `ClockControl`, `Harness` | `Utils/Clock.*`; the administrator's control of it; the barrier and the clock of the functional tests (both EXTEND `Clock`) | `services`, `threads` |
| `RequestReply`, `Messanger` | what the messanger promises; `Modules/Messanger` with the `Utils/IndexedVector.hpp` it keeps services and transactions in | `services` |
| `Subscribers` | `Utils/SubscriptionsBox.h`; `Modules/SystemClock`, the monitoring of `Modules/Ship` | `services` |
| `Slots` | slots and monitors of `Modules/Commutator` | `services` |
| `CargoMonitors` | the monitoring sessions of `ResourceContainer` | `services` |
| `Cargo`, `Production` | `ResourceContainer`; `AsteroidMiner` and `Shipyard` that use its containers (EXTENDS) | `industry`, `race` |
| `Startup` | `SystemManager`, `ConfigDI`, blueprints, `PlayersStorage`, `BlueprintsStorage`, spawning | `industry` |
| `Arbitrator` | `Arbitrators/` | `industry` |
| `Navigation` | the client's autopilot, `Modules/Engine`, the order of the stages | `industry` |
| `World`, `Scanners` | `Newton/`, `World/Grid`, and `CelestialScanner`, `AsteroidScanner` that search it (EXTENDS) | `world` |
| `PassiveScanner` | `Modules/PassiveScanner` | `world` |
| `Screen` | `AdministratorPanel/Screen`, the objects' filters | `world` |
| `Protocol`, `Conversations` | what each call of the C++ client expects and what each module answers; the two of them with several clients (EXTENDS) | `world` |
| `SessionsProofs`, `NetworkProofs`, `PoolsProofs`, `ThreadsProofs`, `WorldProofs`, `IndustryProofs`, `ServicesProofs` | theorems about the modules above (section 4) | proved |

**Sums of components.** `MCNetwork`, `MCThreads`, `MCServices`, `MCIndustry` and
`MCWorld` each put together components that neither call each other nor share
state. Exploring the product of their states would show nothing that exploring
each of them does not, so the variable `part`, chosen in the initial state, says
which component a behaviour is about, and the others stand still. Components that
do interact are composed by EXTENDS, as the table says: their actions change the
state of both.

Definitions whose comment says "mutant" are changed copies of a definition that
follows them. They are not part of a model:
they are what the properties are tried against.

### SessionMux

`sess`, `reuse`, `up` and `list` are the members of the same name in the code
(`m_sessions`, `m_indexesToReuse`, `Connection::m_lUp`,
`Connection::m_sessions`). A position of the table and the 16-bit index stored
in it are kept apart (`Index`), since the code casts one to the other. Tokens are
model values: they are only compared. A failed assertion ends the process (the
server is built with assertions), which is the value of `abort`; so each
assertion is a property of its own. `m_mutex` is held while a connection is
closed, so the other operations wait for `job` to end; the loop is still one step
per session, as it calls handlers. The operations that close a connection differ
in whether the client is told and the UDP slot is freed (`byServer`).

### Tunnels and Slots

`Tunnels` EXTENDS `SessionMux` and uses its actions. `phase` is "receive" while
the main thread is alone and "work" while the threads run modules. A request is
put into the `inbox` of its commutator and taken later. `opening` is the tunnel
between `createSession` and `openSession`; up to `threads` commutators may be
there. Each session that dies in a step of SessionMux is reported to its handler
in that step (`HandlersNotified`), as the code does under the mutex. The id 0 that
`createSession` returns when there is no index left is counted in `nulls`: the
module keeps it in its vector, where it takes a place for ever, since no session
with this id is ever closed.

`Slots` has the rest of a commutator: attached modules, their status, and the
monitoring sessions. `onSessionClosed` goes on reading past the end of
`m_monitoringSessions` after it removed an element, so the model keeps the memory
of the vector (`mem`) beside its size. A buffered request of monitoring is handled
also when its session has been closed (`Closed`); such a session is never removed
again, and `stale` (history) remembers it. Where the code dereferences the
null pointer of a slot, the model goes to `crashed`.

### The ways in

`Connectivity`: only differences of time matter, so both timestamps are ages. The
unit of the runs is 100 ms: 4, 14 and 2 are the 400 and 1400 ms of the code and a
check at least every 200 ms. A client in `Responsive` sends every heartbeat back,
and the echo arrives within `RoundTrip`, in any order; any other client may do
anything. A client at an endpoint in `SharedEndpoints` may log in twice; all its
datagrams are taken for the first of its connections. Datagrams that are lost are
those that are never received.

`Login` has the table of a promiscuous socket, which `AdminLogin` uses as well. A
datagram is a record of where it came from, its slot and what it asks; it waits in
a set, as timestamps let the server handle it in any order. `unowed` are the slots
taken by datagrams that could not be parsed: nothing answers them. The panel looks at
tokens only: a buffered command is executed also when its slot was closed meanwhile
(`AdminCommand`), and an Access message that is no login closes its session, that of an
administrator who has logged in too (`AdminNotALogin`). `tries`, `mine` and `commands`
are history.

`BufferedTerminal`: `handleBufferedMessages` is modelled message by message.
Messages are numbered; a message that was moved to the other queue leaves an empty
one (number 0), as `std::move` does. The in-game time passes between cycles only.

### Threads

`Conveyor`: `pc` is the place of each thread, and the barrier lets all go when all
wait, wherever they wait: the code has one barrier for both waits of a stage and
for `stop()`, which is called by `stopConveyor` and, after the slaves were joined,
by `~Conveyor` (`Stop`). A slave reads `m_State` (`selected`) when it proceeds. `given` and
`runs` are history.

`ModulesManager`: `std::vector::push_back` is two steps (the end is read, then the
element is written and the end moved), so that two threads can lose an element;
`m_nTotalIds`, `m_nNextIndex` and `m_nNextId` are atomic. `crew` is the threads
the server was started with, so one run has both one and two. `Outcomes` is what a
batch of messages does to the activity of a module.

`Registry`: an object takes an id (a step of `IdPool`), registers a null pointer
and then itself, and these three critical sections of several threads interleave.

`Harness`: the thread of the test and the thread of the server with the barrier
between them, and the clock that the test changes without a lock. `overtaken` is
history: the test terminated the server before it had looked at the clock.

### Services

`Messanger` counts time in cycles: a transaction keeps how many are left. A
message waits in the set `pending`, and its session may be closed meanwhile.
`RequestReply` is the abstract specification: a request is rejected with one
status, or routed and then answered once.

`Subscribers` has two kinds, the `SystemClock` module and the `Ship`, as `kind`
says; a period in ms is multiplied by 1000 in 32 bits (`PeriodSpan`).

`ClockControl` is the loop of `SystemManager::run` with the clock, the
administrator's messages and the report of ticks that are done.

### Industry

`Cargo` has one resource of density 1. `proceed()` of a container takes resources
from its own container without `m_accessMutex`, while other threads put some into it.
So each read and each write of the amount and of the used space that may interleave is
a step of its own: `consumeResource()` is `ProceedCounts`, `ProceedTakesSpace`,
`ProceedTakesAmount` and `ProceedClamps`, with reads (`ProceedLoads`) before the
writes, and `putResource()` of the receiver is `ProceedLocks`, `ProceedAddsAmount` and
`ProceedAddsSpace`. `raced` is history: one thread puts into a container from which
another one takes. `Production` adds a
miner and a shipyard on the same containers. Mined portions have any composition.

`Startup`: a section of the configuration is the sequence of its items, an item is
the set of the fields that can be read from it. The configurations of the run
contain a whole one, and for each early return of the loader one that takes it. A name
is a pair of class and type; the filter of a list of blueprints is a beginning of the
full name, so that "Ship" lists shipyards too (`StartsWith`).

`Navigation`: a ship has arrived or not and a thrust is zero or not; what remains
is when a thrust begins and ends, in the order of the stages of a cycle.

### World and clients

`World` has a grid with exact arithmetic (`Unit` positions to a metre), and an
object moves by at most `Speed` in any direction. A move from cell to cell is two
steps (enter the new one, leave the old one), as each cell has its own lock.
`displaced` are objects that were spawned or moved by an administrator since: they
get into their cell in the next cycle.
`Scanners` asks in one cycle and answers in a later one. Nobody looks at whether the
session of a buffered request is still open, so closed ones start scans as well
(`late` marks them); the celestial scanner forgets the session of its scan when it is
closed, the asteroid scanner does not.

`PassiveScanner`: of a position matters whether it is in range, and the time to
the next report of an object is any of `Delays`. `std::sort` is not stable, so
objects due at one time are in any order after a global scan (`Orders`); the loop of
`proceed()` is a recursive function of the round (`UpdateFront`, `Updates`). The code
reads the front of its list after it may have become empty; the model then goes to
`crashed`.

`Screen`: a position of the rectangle is the set of the objects it touches; each
thread tests objects, fills its own buffer and empties it into the vector under a
lock. Results of a filter stay where they are until the next run; `wish` and `shown`
are history, who asked last for what, and what the filter that ran for it was to find.

`Protocol` is data: for every call of the client the script of its waits, and for
every request what a module may answer. `Conversations` lets clients of one module
execute calls at the same time, and checks scripts against answers. A call that begins
with an empty pipe and nothing under way is `clean`. It stops being clean when the server
sends what makes it end before its activity does, or what only looks like its answer
(`Disturbed`): a build that is reported frozen, on which `waitingWhileBuilding` returns
although the build goes on (`BuildIsFrozen`); the status that terminating the clock
sends to who waits for ticks (`Terminate`); slots that change while they are listed
(`ChangeSlots`).

## 3. Runs

Passing runs show their properties for all behaviours within the bounds.

| Run | States | Bounds |
|---|---|---|
| `session_mux` | 1,025,000 | 2 connections, 3 ids each, 5 positions, 2 tokens |
| `tunnels` | 424,000 | 1 connection, 2 commutators, 1 and 2 threads, limit of 1 session |
| `network` | 162,000 | 2 connections, 2 endpoints; 3 slots (1 persistent), 2 addresses, 2 players, 1 port, 2 tokens; 3 messages, queue of 2 |
| `threads` | 359,000 | 3 slaves, 2 logics (2 stages and 1, cooldown 0 and 3); 2 workers, 2 modules; 4 ids, 2 builders; 4 chunks and 1 from the heap; 4 ways to skip time |
| `services` | 806,000 | 2 sessions, 2 services, 3 requests; 2 modules, 3 monitoring sessions; 2 subscribers with wrapping periods; 1 administrator; 3 watchers |
| `industry` | 1,604,000 | 2 containers of 2 portions, 1 and 2 threads; 3 rivals, 2 judges; 2 updates of a thrust; the configurations of `MCIndustry` |
| `world` | 2,196,000 | 2x2 cells, 3 objects, 1 session that scans (2 kinds of scanners); 2 things to notice; 4 bodies, 2 threads; 2 clients with 2 calls each, every device and every call |

Two connections are the least for one to interfere with another; two tokens the
least for an index to get an old token again. Two containers are the least for
transfers that cross. Two threads are the least for a race, and three slaves show
that a barrier for all does not depend on there being one other thread. A buffer
of 2 (`BufferSize`) with 3 bodies makes a filtering thread empty its buffer both
when it is full and at the end. Two slots and one report per cycle make an object
of the passive scanner wait for another. One session scans: it is closed and asks before and
after that, which is what the scanners do not look at; that a second session asking
meanwhile changes nothing is left to `ScansStayExact`, which is for any number of them.

What they show, by run:

- `session_mux`: `NoOrphanSessions`, `FreeIndexesExact`; `ConnectionsAreExact`
  (`TypeOK`, `RootSessionAlive`, `UdpMatchesConnection`, `DestructorIsClean`);
  `ClosingIsExact` (`ClosedIndCanLeave`, and `ClosesOwnSessionsOnly` if no token
  is drawn twice for an index).
- `tunnels`: `TunnelsAreExact`. All open tunnels are counted by their modules,
  within the limit. That no dead session is counted holds with one thread only:
  with two, a session may be closed between `createSession` and `openSession`.
- `network`: `DisconnectedInTime`, `VanishedIsDisconnected`;
  `ResponsiveStaysConnected`, which excludes a client that logs in twice from one
  endpoint; `LoginSlotsAreOwed` and `LoginSlotsReturn`, from which the slots of
  unparsable datagrams are excluded, since nothing frees them;
  `AdministratorsAreServed`, where a token is accepted until an administrator who
  has logged in sends another Access message; `QueuesAreExact`, `EveryMessageHandled`.
- `threads`: `StagesAreApart`, `ScheduleIsExact`; `ThreadsMeet`: every cycle that
  begins ends, and the slaves are joined when the server stops (what `~Conveyor` does
  after that, see below, is not claimed); `BusyListIsExact`, of which two parts are about one thread:
  `modules_manager_push` refutes them for two; `PoolsAreExact`, where an id is never registered beyond the end
  with one constructing thread only (with two, the assertion of `registerSelf` may
  fail); `AllocatorSpec`, the refinement of `IdAllocator` by
  the pool under the registry; `LockStepHolds`, but for a server that was
  terminated before it looked at the clock (`overtaken`).
- `services`: `RequestsAreServed` contains the refinement of `RequestReply` by
  `Messanger`; `RoutedIsAnswered`; `SubscribersAreServed`, where a period that
  overflows to 0 lets the `SystemClock` hang in its loop (the limits of the `Ship`
  prevent it there); `MonitorsAreExact`, until a session
  asks twice to monitor a commutator, and with sessions that were closed before their
  request was handled as the only dead ones; `MonitorsAreTold`; `DestroyedIsLeft`;
  `ClockIsExact`, `AdministratorIsAnswered`.
- `industry`: `ResourcesAreConserved`, unless two threads have raced for a
  container; `TransfersAreExact`, `ShipsArePaid`, `StartupIsComplete`,
  `BoardIsFair`, and `ThrustActsAsAsked`: a thrust acts for the time asked for less
  the interval of the cycle that handled it, so a short one does not act at all.
- `world`: `CellsAreExact`; `ScansAreExact` (what is reported, and that each scan is
  answered once, to who asked for it); `NobodyIsOverlooked`, where in range means in
  range and in the grid; `ScreenIsExact` (the answer is that of a filter which ran for
  the last request, and goes to who made it); `CleanCallIsWhole`; and
  `NobodyWaitsInVain`, which names the calls of the client that may wait in vain
  (`MayWaitInVain`).

Runs that are expected to end in a violation compare the code with what a
comment, an assertion or a document of the repository says.

| Run | What TLC finds |
|---|---|
| `session_mux_null` | a late message over connection 0 reaches a null handler |
| `tunnels_parent` | a buffered open_tunnel outlives its session |
| `buffered_terminal_drop` | messages handled again when the delayed queue is full |
| `modules_manager_push` | a busy module is lost when two threads push |
| `race` | with two threads, one takes from a container without its mutex while the other puts into it: what one of them wrote is lost, and the assertion of `recalculateUsedSpace` fails |

Other places where the models leave what a comment, an assertion or a document
says, seen with TLC and not kept as runs:

- closing an already closed session while connection 0 is down fails the
  assertion of `isRootSession` (`SessionMux.cpp:382`), `abort = "isRootSession"`;
- with `SizeBound > IndexSpan`, the login that finds 2^16 positions in use gets
  index 0 (`SessionMux.cpp:157`), `abort = "invalidSessionId"`;
- the sessions of the root commutator are not limited (`Player.cpp:74`);
- close_tunnel closes tunnels opened over another connection
  (`Commutator.cpp:230`), where `ICommutator.md` says it can not;
- silence is limited to 1.4 seconds, not to 2 (`SessionMux.h:132`);
- `~Conveyor` calls `stop()` also when `stopConveyor` has called it and joined the
  slaves (`Conveyor.cpp:34`), and then waits at line 92 for ever, as the barrier was
  made for all threads: `pc[Master] = "joined" ~> pc[Master] = "stopped"` is violated;
- with one thread, a transfer whose receiver is full keeps a reserve, and gives it
  back when the next interval is shorter: `consumeResource` of a negative amount does
  not look at the volume (`ResourceContainer.cpp:83`), so that a container which was
  filled meanwhile has more than it can hold and the assertion at line 395 fails
  (`RecalculationFits` under `WorkshopSpec` with intervals of 1 and 2, a miner and a
  shipyard on one container);
- after a late cycle a logic is proceeded again before its cooldown is over
  (`Conveyor.cpp:72`);
- a module switched off and on in one batch is listed as busy twice, and with two
  threads the assertion of `onDeactivated` may fail (`BaseModule.h:57`).

`CHECK_DEADLOCK FALSE` is in the runs of the sums: in each there is a component
that may stop. The process of a conveyor ends or waits for ever in `~Conveyor`, a test is
torn down, the game is over, the loading of a broken configuration fails, a
module crashes, or a bound on time, rings, tokens or calls is reached.

**Fairness.** All of it is of steps that the server's own loop or the operating
system takes, never of clients, except for the echoes of clients that are said to
be responsive.

- Conveyor (`ConveyorFairness`): each thread is scheduled and the barrier lets
  waiting threads go.
- Connectivity (`ConnectivityFairness`): time passes, the check is executed, and
  echoes of `Responsive` clients arrive.
- Login (`LoginFairness`): a buffered message is handled in the end, weakly fair
  for each slot, since a slot keeps its message until then.
- BufferedTerminal (`TerminalFairness`): cycles go on and end, and time passes
  between cycles (strong fairness of `ClockTick`, which is disabled while a cycle
  runs; the clock is not paused for ever).
- Messanger, slots, clock control (`MessangerFairness`, `SlotsFairness`,
  `ControlFairness`): the stages of the conveyor that they belong to are executed
  in every cycle; the loop of `SystemManager::run` goes round.

The condition `part = "x" /\ A` in these formulas keeps fairness from asking for
steps of components that stand still.

**Refinement.** `IdPool` implements `IdAllocator` (every id is given out once, the
smallest first), with what is held as the mapping; `Messanger` implements
`RequestReply`, with what clients were told as the mapping, from which services,
transactions, deadlines and sessions are absent.

## 4. Proofs

Seven modules hold theorems, for every value of the constants that satisfies the
assumptions of the modules (`MuxAssumption`, `CargoAssumption`, ...). These
assumptions say that limits and lengths of time are natural numbers, that what is
counted is finite, and that marks such as `NoHandler` are not values. Those that
say more are named below. A theorem
whose name is a sentence states the property a run checks; the last theorem of each
sum of components (`NetworkKeepsItsPromises`, `ThreadsKeepTheirPromises`,
`ObservationStaysExact`, `IndustryKeepsItsPromises`, `ServicesKeepTheirPromises`) shows that the properties hold
in the very specification of the run. Proofs have one lemma per action, or per
part of the invariant where the actions are many and small.

### SessionsProofs

`SessionMux`, for every number of connections, handlers and tokens.

- `SessionMuxTypeCorrect`: `TypeOK` is inductive, for any size of the table.
- Everything else assumes `NoWrap` (`SizeBound <= IndexSpan`): the table has not
  outgrown its 16-bit indexes. Past them a login gets the index of another
  session, closing its connection does not find its root session, and
  `NoOrphanSessions` fails; so the assumption is needed.
- `SessionsAreNotOrphaned`, `FreeIndexesAreExact`, `DestructorFindsNoSession` from
  `MuxInv`. `NoOrphanSessions` needs that position 0 is never alive, which needs
  that 0 is never free; the destructor needs that the job holds all connections
  that are still open (`Unlinking`).
- `RootSessionsStayAlive`, `UdpSessionsMatchConnections`,
  `ClosedIndicationsCanLeave`, `OnlyOwnSessionsAreClosed` from `ConnInv`, which
  is inductive relative to `MuxInv`. That a root session survives the closing of
  other connections rests on `Root`: nobody else lists its index, because the
  index was new (connections list only indexes of the table) and is not freed
  while the session is alive. A login must also find the list of its connection
  empty, which is why the UDP session is part of the invariant.
- `ConnectionsStayExact` and `ClosingStaysExact` put these together to the
  properties `ConnectionsAreExact` and `ClosingIsExact` of the run.

`Tunnels`: `TunnelsStayExact`, for every tree of commutators and modules, every number of
threads and every limit, under `NoWrap`, on top of `MuxInv`. The check of the limit
and the entry of the session into the module are two critical sections, so the
limit is not inductive: `PlaceIsKept` says that a thread between them still has a
place, because a module is in the slots of one commutator and a commutator is run
by one thread (`TunnelsAssumption` has the slots disjoint, as `attachModule` is
called once for a module). `ThreadAlone` says that with one thread the session just
created is still alive then, which is false with two, and is what keeps dead
sessions from being counted. `DeathsAreReported` is the lemma the steps of
`SessionMux` share: what dies in a step is taken from its module in that step.

### NetworkProofs

- Connectivity: `SilentAreDisconnectedInTime` (the property `DisconnectedInTime`),
  from `ConnectivityTypeCorrect`, `SilenceIsBounded` and
  `ClosedOnlyAfterTwoHeartbeats`, with `PeriodsAssumption` (two heartbeats and
  their checks fit into the disconnection timeout, and so does a round trip after
  one, as they do in the code). A check that finds a recent heartbeat does not look
  at the silence, so the bound is not inductive. `Ages` relates the two ages with
  the time since the last check: one of them is younger than a heartbeat timeout
  before that check, and the silence exceeds the age of the last heartbeat by at
  most the disconnection timeout, by one heartbeat period if one heartbeat was sent
  into it, by nothing if none was.
- `ResponsiveAreKept` adds that an answer is on its way whenever a heartbeat has
  been sent into the silence (`AnswerIsComing`), and that datagrams of an endpoint
  that is not shared go to the one connection it has (`OneConnection`).
- `LoginSlotsStayOwed`: with the types, and with no login in a persistent slot,
  `LoginSlotsAreOwed` is inductive.
- `AdministratorsStayServed`: `AdminInv` needs who has ever logged in
  (`HoldersHaveWon`, `SendersHaveWon`), since a persistent slot outlives the login
  and a message in it outlives the slot's token; and that an address which has
  logged in once holds one slot (`OneSlotEach`).
- `QueuesStayExact`: `TerminalInv` says where each message is during the loop over
  the first queue: handled, delayed, or still ahead (`LoopProgress`,
  `StillAhead`), in one place only, empty ones apart (`PlacedOnce`), and that the
  delayed ones are sorted (`Descending`), which the insertion keeps. The property
  is an action property: each message handled is due, in order, and new unless the
  queue has overflown.

### PoolsProofs

- `IdPoolTypeCorrect`, `IdPoolPartition`, for every `First <= Last`: `TypeOK` and
  `Partition` together are inductive. Neither is alone: that a released id is below
  the mark, and that it waits only once, is what makes `release` keep the vector
  sorted, and that it is sorted is what makes `getNext` return the smallest.
- `IdPoolImplementsAllocator`: a step of the pool is a step of `IdAllocator`.
- `ObjectsStayExact`, `RegistryUsesThePool`: an object's id, its slot and the
  mirrors agree although they are written in separate critical sections.
  `UnderConstruction` says how far each thread has come, `Registered` who is found
  where, and `AloneInOrder` why a single thread never registers beyond the end.
- `ChunksStayExact`: the chunks of each size lie together (`ArenaFacts`), so the
  address tells the list a chunk returns to.

### ThreadsProofs

- `ClockStaysExact`: `ClockIsExact` is inductive as it stands. The deviation
  takes up what the in-game time does not: a slip that was cut off, real time that
  passed in debug mode, and, negative, debug ticks that ran ahead. That in-game
  time and deviation together are never ahead of the real time (`NeverAhead`) is
  what makes the next interval a natural number, and each call restores the sum.
- `StagesAreKeptApart`, `ScheduleStaysExact`, for every number of slaves and
  logics: one barrier serves two waits and the stop, and what keeps them apart is
  `Together` (where the slaves are, for each place of the master) with `Announced`
  and `Taken` (`m_State` changes only while no slave may read it). `ScheduleInv`
  and `Progress` do the same for the cooldowns.
- `BusyListStaysExact`: `FetchedOnce` and `TakenOnce` say what the two atomic
  counters give (a module or an entry to one thread). The counter of entries and
  the vector change in separate steps, so `TotalCounts` counts dropped entries that
  are still in it, and `EndsRead` what a thread has read before it writes.
- `LockStepIsKept`: test and server are between the same waits (`MeetInPairs`),
  what happens after `terminate()` (`StopsInOrder`), and ticks left and time passed
  make up what was to be skipped (`SkipProgress`), which needs products and was
  reduced to `OneTickLess` and `TicksCover`.
- `PoolsStayExact`, `IdsAreTheAllocators`: the properties `PoolsAreExact` and
  `AllocatorSpec` of the run.

### WorldProofs

- `WorldInvariant`, `CellsStayExact`, for every grid, speed and number of objects
  and threads. An object is listed in its cell and in the one it is leaving
  (`ListedThere`); that these differ (`LeavesForAnother`) is why leaving the old
  cell does not remove it from the new one. The cell of a position is computed by
  division, so the lemmas on `\div` and `%` come first.
- `ScansStayExact`: the scan looks into the cells between two corners; that no
  object within the radius is elsewhere needs that division is monotone
  (`DivisionMonotone`) and that a coordinate differs by no more than the distance
  (`CollectedIsExact`). `BatchesAreExact` shows that cutting the list into messages
  neither drops nor repeats an entry, for every length of the list and of a
  message. Whoever a celestial scan answers is open, or nobody, or was closed before
  its request was handled (`late`): `ScannersInv` carries this through the time the
  scan takes, also when its session is closed then.
- `ScreenStaysExact`: while threads filter, `FoundIsShared` says that what was
  found so far is split between the result and the threads' buffers, which are
  disjoint; a buffer that is full is moved in one step. `WishIsKept` relates the
  request with the filter: as long as it is armed it is so for the request made last,
  and when it is not, and somebody waits, the result is what it found for that request.

- `NobodyIsEverOverlooked`, for every number of objects, every limit of reports, all
  delays and intervals between cycles. An object waits first for the global scan that
  finds it (`WaitsForScan`), then for the time of its report (`WaitsForTime`), and when
  it is due for its rivals (`WaitsForRivals`): those listed no later than it, or no later
  than when it came into range. A cycle that does not report it reports a rival
  (`SomeoneWentFirst`), whose next report is in the future; and it never gets a new one,
  because the list stays sorted while time passes (`NoNewRivals`), the scan keeps known
  times (`ScanKeeps`) and the loop ends with nothing due or the limit reached
  (`LoopResult`). So it waits one interval per other object at most. The proof found
  that the bound had one interval too few: an object is known one interval after
  `EdgeTime` and due one interval late, and the old bound, which had passed with steps
  of 1, is exceeded with steps of 1 and 3, which the run now has.
- `CallsStayClean`, for every number of clients, calls and slots: messages have no
  numbers, so a client tells the answers of its calls apart by their order alone.
  `ConversationsInv` says of each call that found its session clean in which stage it
  is (`StageOf`): its request has not been handled (`Asked`); the number of slots is
  told (`Counted`); an activity owes it messages (`Served`); all is told (`Told`); or
  nothing more comes (`InVain`), which only the calls of `MayWaitInVain` reach. In each
  stage the messages in its pipe take its script to what it still waits for
  (`Follows`); when all is told, the messages of others are behind its own (`Ends`).
  It also says that the numbers of calls, which only the model has, are their own
  (`OwnNumber`). That the tables of `Protocol` fit each other is a lemma per device
  (`AnswersFit`, `ActivityFits`, `MonitorFits`): every answer takes the script of its
  call to its end and to nothing before it. The steps of the server are of one kind
  (`ServerStep`): they add messages of calls that a request or an activity was caused
  by (`Causes`), so what holds of a call that is told everything is shown once
  (`ToldLater`), and each action is left to show where the call it serves goes
  (`CallsGoOn`). Where a step disturbs calls, nothing is claimed of them any more, and
  the others are shown to go on as if it had not (`DisturbedKeepsCalls`). Steps of clients leave the calls of others alone (`AnotherCallStays`).
  For the proof the record of a call that has heard a message (`Heard`) and the script
  of a call that lists modules (`ExpectInfos`) got names, and the modules that are
  attached are counted as a set.

### IndustryProofs

- `ThrustsActAsAsked`, for all ticks and requests: while a thrust acts, the time it
  has acted and the time it has left add up to the time asked for, less the
  interval in which it was handled (`NavigationInv`).
- `TransfersStayExact`, for every number of containers, all amounts and all
  threads. A port is named by a number that is reused and a key that is not:
  `PortsInv` says that a key which is valid is that of one port, and
  `TransfersInv` that a key which still fits its port leads to the container the
  transfer was accepted for. `WorkersInv` keeps this for a thread past the check,
  because ports change in another stage. Nothing is claimed of the used space: after a
  race it is not what the resources take (`race`).
- `ShipsStayPaid`: `ShipsArePaid` needs that progress never exceeds the labor of
  the ship; then the last interval is cut off and paid in part.
- `ResourcesStayConserved`: asteroid, containers, reserves, ships and what is
  counted as lost always add up to what was there at first. `BalanceInv` says so
  until two threads race (`raced`): then what a thread has read is still there when it
  writes, although each read and each write is a step. `SoloInv` says why a single thread
  never races: nobody else is in `proceed()`. `CalmInv` says how far the thread has come
  with each number. That a sum over
  all containers changes by what one of them changes (`SumChanges`) is proved by
  induction over subsets, see below.
- `StartupStaysComplete`, for all configurations that hold lists
  (`ConfigurationsAssumption`) and every length of a message. `StartupInv` says of each
  section that the first items of it, as many as are loaded, are where they belong
  (`ModulesIn` to `CloudsIn`), also while later sections are loaded: a blueprint is not
  replaced under a ship, because there is no ship before the last blueprint
  (`AccountsInv`); the pieces of a cloud are as many as it has, because no later item
  adds any (`PiecesOf`); a spawned ship comes after the ships of the file. `NamesTell`
  shows that cutting a list into messages from its end drops and repeats nothing: it
  needs that a place in the list is between two multiples of the length of a message
  (`EveryNameIsSent`) and that the last message is the first to leave nothing
  (`EnoughMessages`).
- `BoardStaysFair`, for all numbers of players and threads: `BoardInv` says that
  every row taken so far is being scored by the thread that took it or has its
  score. `SortRanks` proves that the insertion sort of `Leaderboard::sort` ranks the
  rows and keeps all of them. The theorem asks for a target score of at least one
  point per portion of the goal (the repository's test has 1000 of them); with less,
  scores are rounded down to ties and the order of such players is arbitrary.

### ServicesProofs

- `MonitorsStayExact`, for every number of sessions and slots: `OnceEach` says that a
  session monitors the slots once at most, that it is open or was closed when its request
  was handled (`Belongs`), and that who has been told the slots still monitors them and
  knows them as they are. It holds until a session asks twice
  (`repeated`), which the code allows and the property excludes: then the loop that
  forgets a closed session drops one of the two places and leaves the other.
- `MonitorsStayTold`: the loop of `ResourceContainer` fills the place of a closed session
  with the last one and goes on behind it, so that one is passed over. `SweptWell` says
  that after each round those passed over are no more than those removed; `CargoInv`
  keeps this between the steps, as monitors without the content.
- `RequestsStayServed`: the messanger implements `RequestReply`, and services are those
  of open sessions. `Indexed` is what an `IndexedVector` keeps: a key is that of one item,
  and the map leads to its place, also after the last item was moved into a gap.
  `TransactionsInv`: transactions are the requests routed and not answered, one each; a
  request that waits has no report. The numbers of transactions do not repeat, because
  `m_nNextSeq` only grows; it is bounded by the requests, so the theorem asks for finitely
  many (`IsFiniteSet(Requests)`): the 32-bit counter of the code wraps later than that.
- `SubscribersStayServed`, for all periods, intervals and numbers of sessions.
  `SubscriptionsInv`: the box is sorted by what is left, has a session once, and for every
  item what is left and the time since the subscription add up to whole periods
  (`InStep`; the lemma `Remainders` is on division). Whatever `PlaceItem` is given, if all
  but one item are sorted, it sorts them and loses none (`PlaceItemSorts`). Then one call of
  `nextUpdate` per item is enough: after k rounds the last k items are in the future
  (`UpdatedWell`). `RingsInv`: valid rings are sorted although forgotten ones are not, so
  ringing from the back stops at the right one. A ship cannot hang, because its limits
  keep the product of the period from wrapping to 0.
- `AdministratorsAreAnsweredOnTime`: `TicksInv` says that an administrator waits only while
  ticks are made, and that those left end at the time that is due. This is the safety half of
  `AdministratorIsAnswered`; that the answer comes is liveness.

### Induction over data

The induction theorems of the library take an operator and cannot be used. Sums,
loops and recursive functions are handled with sets instead: the set of the numbers
(or of the subsets) for which a claim holds contains 0 and all successors, so it is
everything, because the least number outside of it could not exist
(`NumbersInduction`, `RoundsInduction`, `SubsetsInduction`, from the well-foundedness of
`<`). That a recursive function exists at all is shown in the same way (`SumsExist`,
`SortsExist`, `DropsExist`, `SweepsExist`, `RemovalsExist`, `UpdatesExist`, `RoundsExist`): its definition only chooses
one.

### Only model-checked

- Liveness (`ThreadsMeet`, `EveryMessageHandled`, `VanishedIsDisconnected`,
  `LoginSlotsReturn`, `RoutedIsAnswered`, `AdministratorIsAnswered`,
  `DestroyedIsLeft`): the prover does not reason with fairness.

Every safety invariant that a run checks is proved.
Every inductive invariant is also checked with TLC on the instance of its run
(it holds there). The proofs changed the models in these places: the entries that
`IdArray` clears are dropped one by one; ids that are 0 are counted (`nulls`);
what a scan reports is a function from places in messages instead of a
concatenation; `NothingOverReserved` holds in every state, which the run had asked
only of states outside a step of consuming; that each message of a list of blueprints
leaves the names of the later ones is said of two messages that follow each other, instead
of a sum; the loops of `Slots`, `CargoMonitors`,
`Messanger`, `Subscribers` and `PassiveScanner` over a vector that changes are recursive functions of the round, each with
an operator for what one round does (`DropMonitor`, `TellOrRemove`, `WithoutUnwanted`,
`UpdateIfDue`, `UpdateFront`).


## 5. Not modelled

- Geometry: floating-point arithmetic. Where the control depends on it, a model
  has a small exact stand-in (`World`) or any of a set of outcomes (`Navigation`,
  the delays of `PassiveScanner`). So "newton and the grid" count as partly
  modelled: where objects go is not computed.
- boost.asio, the bytes of a datagram and errors of the network: `UdpSocket` and
  its neighbours are partly modelled. Sending is modelled only where it can fail for a
  reason the server controls (`ClosedIndCanLeave`, `CargoMonitors`).
- The unit tests of single components: each calls one component with fixed values.
  They were read for what they expect. The functional tests and the client they
  use are modelled (`Harness`, `Protocol`, `Conversations`, `Navigation`).
- Statistics, logging, and requests that only read a value, except as messages in
  `Protocol`.
- Modules are destroyed in `Slots` and `Registry` only; in the server nothing
  destroys them while it runs, only tests do.
- python-sdk, web-client, demo.

## 6. Plan

1. Done: the models of all components listed above with the runs of section 3;
   proofs of sessions, tunnels, the ways in, pools, threads, the world, the scanners,
   industry, startup, the messanger, the monitors, the subscriptions and the control of the clock.
2. The safety invariants of all runs are proved. Liveness stays with TLC.
