------------------------------ MODULE Protocol ------------------------------
(***************************************************************************)
(* What a client expects to hear and what a module answers.                *)
(*                                                                         *)
(* A call of the C++ client (Autotests/ClientSDK) sends a request and then *)
(* waits for one message after another.  It is a script: a sequence of     *)
(* waits, each of which says which kinds of message take the call to its   *)
(* next wait (`goes`), make it wait once more (`again`) or let it return   *)
(* (`ends`).  Any other message makes the call return with an error.       *)
(*                                                                         *)
(* Of a message its kind is kept (the choice case and, where the client    *)
(* looks at it, the status); of a list of answers whether it is the last   *)
(* one (the field `left`).                                                 *)
(***************************************************************************)
EXTENDS Naturals, Sequences

Wait(goes, again, ends) == [goes |-> goes, again |-> again, ends |-> ends]
Expect(kinds) == <<Wait({}, {}, kinds)>>

(* Answers that come in parts: all but the last one say that more are left *)
ExpectParts(part, last) == <<Wait({}, {part}, {last})>>
Parts(part, last) == {<<last>>, <<part, last>>}

-----------------------------------------------------------------------------
(* Calls of the client *)

EngineCalls ==
    [getSpecification |-> Expect({"specification"}),
     setThrust        |-> <<>>,
     getThrust        |-> Expect({"thrust"})]

ShipCalls ==
    [getPosition |-> Expect({"position"}),
     getState    |-> Expect({"state"}),
     monitor     |-> Expect({"state"})]

CelestialScannerCalls ==
    [getSpecification |-> Expect({"specification"}),
     scan             |-> ExpectParts("scanning_report", "last_report")]

(* A status other than IN_PROGRESS ends the first wait *)
AsteroidScannerCalls ==
    [getSpecification |-> Expect({"specification"}),
     scan             |-> <<Wait({"in_progress"}, {}, {"busy", "too_far"}),
                            Wait({}, {}, {"scanning_finished"})>>]

PassiveScannerCalls ==
    [getSpecification |-> Expect({"specification"}),
     monitor          |-> Expect({"monitor_ack"})]

(* `transfer` is transferRequest() followed by waitTransfer() *)
ResourceContainerCalls ==
    [getContent |-> Expect({"content"}),
     openPort   |-> Expect({"port_opened", "open_port_failed"}),
     closePort  |-> Expect({"close_port_status"}),
     transfer   |-> <<Wait({"transfer_started"}, {}, {"transfer_refused"}),
                      Wait({}, {"transfer_report"}, {"transfer_finished"})>>,
     monitor    |-> Expect({"content"})]

AsteroidMinerCalls ==
    [getSpecification |-> Expect({"specification"}),
     bindToCargo      |-> Expect({"bind_status"}),
     startMining      |-> Expect({"mining_started", "mining_refused"}),
     stopMining       |-> <<Wait({"stopping"}, {}, {"miner_is_idle"}),
                            Wait({}, {}, {"mining_is_stopped"})>>]

(* `build` is startBuilding() followed by waitingWhileBuilding(), which returns
   when the build is frozen although the ship is still being built *)
ShipyardCalls ==
    [getSpecification |-> Expect({"specification"}),
     bindToCargo      |-> Expect({"bind_status"}),
     build            |-> <<Wait({"build_started"}, {}, {"build_refused", "shipyard_is_busy"}),
                            Wait({"build_complete"}, {"build_in_progress"},
                                 {"build_started", "build_refused", "shipyard_is_busy",
                                  "build_frozen"}),
                            Wait({}, {}, {"building_complete"})>>,
     cancelBuild      |-> Expect({"build_started", "build_refused", "shipyard_is_busy",
                                  "build_in_progress", "build_frozen", "build_complete"})]

BlueprintsStorageCalls ==
    [getModulesBlueprintsNames |-> ExpectParts("names", "last_names"),
     getBlueprint              |-> Expect({"blueprint", "blueprint_fail"})]

(* `request` is sendRequest() followed by waitResponse() *)
MessangerCalls ==
    [openService     |-> Expect({"open_service_status"}),
     getServicesList |-> ExpectParts("services", "last_services"),
     request         |-> <<Wait({"routed"}, {}, {"not_routed"}), Wait({}, {}, {"response"})>>,
     sendResponse    |-> <<>>]

(* getAttachedModulesList() sends a second request when it has heard the
   number of slots, see HearTotalSlots of module Conversations *)
CommutatorCalls ==
    [getTotalSlots          |-> Expect({"total_slots"}),
     getAttachedModulesList |-> Expect({"total_slots"}),
     openSession            |-> Expect({"open_tunnel_report", "open_tunnel_failed"}),
     closeTunnel            |-> Expect({"close_tunnel_status"}),
     monitoring             |-> Expect({"monitor_ack"})]

(* A change of the mode and a termination wait for two statuses *)
AdministratorPanelCalls ==
    [clockTimeReq    |-> Expect({"now", "status"}),
     clockModeReq    |-> Expect({"status"}),
     switchMode      |-> <<Wait({"status"}, {}, {}), Wait({}, {}, {"status"})>>,
     terminate       |-> <<Wait({"status"}, {}, {}), Wait({}, {}, {"status"})>>,
     setTickDuration |-> Expect({"status"}),
     proceed         |-> Expect({"now", "status"})]

Calls ==
    [Engine             |-> EngineCalls,
     Ship               |-> ShipCalls,
     CelestialScanner   |-> CelestialScannerCalls,
     AsteroidScanner    |-> AsteroidScannerCalls,
     PassiveScanner     |-> PassiveScannerCalls,
     ResourceContainer  |-> ResourceContainerCalls,
     AsteroidMiner      |-> AsteroidMinerCalls,
     Shipyard           |-> ShipyardCalls,
     BlueprintsStorage  |-> BlueprintsStorageCalls,
     Messanger          |-> MessangerCalls,
     Commutator         |-> CommutatorCalls,
     AdministratorPanel |-> AdministratorPanelCalls]

(* Waits for a message that was not asked for just now *)
CommutatorWaits     == [waitUpdate |-> Expect({"update"})]
PassiveScannerWaits == [waitUpdate |-> Expect({"update"})]
AsteroidMinerWaits  == [waitMiningReport       |-> Expect({"mining_report"}),
                        waitMiningIsStoppedInd |-> Expect({"mining_is_stopped"})]
MessangerWaits      == [waitRequest |-> Expect({"request"})]
ShipWaits           == [waitState |-> Expect({"state"})]
ShipyardWaits       == [waitingWhileBuilding |-> Tail(ShipyardCalls.build)]

Waits == [Commutator |-> CommutatorWaits, PassiveScanner |-> PassiveScannerWaits,
          AsteroidMiner |-> AsteroidMinerWaits, Messanger |-> MessangerWaits,
          Ship |-> ShipWaits, Shipyard |-> ShipyardWaits]

-----------------------------------------------------------------------------
(* Answers of the modules to requests that they handle at once: for every
   request the possible sequences of messages *)

EngineAnswers ==
    [getSpecification |-> {<<"specification">>},
     setThrust        |-> {<<>>},
     getThrust        |-> {<<"thrust">>}]

ShipAnswers ==
    [getPosition |-> {<<"position">>}, getState |-> {<<"state">>}]

ScannerAnswers == [getSpecification |-> {<<"specification">>}]

ResourceContainerAnswers ==
    [getContent |-> {<<"content">>},
     openPort   |-> {<<"port_opened">>, <<"open_port_failed">>},
     closePort  |-> {<<"close_port_status">>}]

AsteroidMinerAnswers ==
    [getSpecification |-> {<<"specification">>}, bindToCargo |-> {<<"bind_status">>}]

(* Cancelling a build is not implemented, nothing is sent *)
ShipyardAnswers ==
    [getSpecification |-> {<<"specification">>},
     bindToCargo      |-> {<<"bind_status">>},
     cancelBuild      |-> {<<>>}]

(* mutant: the last names are sent a second time *)
BlueprintsStorageAnswersTwice ==
    [getModulesBlueprintsNames |-> {<<"last_names">>, <<"last_names", "last_names">>},
     getBlueprint              |-> {<<"blueprint">>, <<"blueprint_fail">>}]

BlueprintsStorageAnswers ==
    [getModulesBlueprintsNames |-> Parts("names", "last_names"),
     getBlueprint              |-> {<<"blueprint">>, <<"blueprint_fail">>}]

MessangerAnswers == [getServicesList |-> Parts("services", "last_services")]

CommutatorAnswers ==
    [getTotalSlots |-> {<<"total_slots">>},
     openSession   |-> {<<"open_tunnel_report">>, <<"open_tunnel_failed">>},
     closeTunnel   |-> {<<"close_tunnel_status">>}]

(* A change of the mode is answered by one status; how a termination is told
   is in Terminate of module Conversations *)
ClockControlAnswers ==
    [clockTimeReq |-> {<<"now">>}, clockModeReq |-> {<<"status">>},
     switchMode   |-> {<<"status">>}, setTickDuration |-> {<<"status">>}]

Answers ==
    [Engine             |-> EngineAnswers,
     Ship               |-> ShipAnswers,
     CelestialScanner   |-> ScannerAnswers,
     AsteroidScanner    |-> ScannerAnswers,
     PassiveScanner     |-> ScannerAnswers,
     ResourceContainer  |-> ResourceContainerAnswers,
     AsteroidMiner      |-> AsteroidMinerAnswers,
     Shipyard           |-> ShipyardAnswers,
     BlueprintsStorage  |-> BlueprintsStorageAnswers,
     Messanger          |-> MessangerAnswers,
     Commutator         |-> CommutatorAnswers,
     AdministratorPanel |-> ClockControlAnswers]
-----------------------------------------------------------------------------
(* Activities.  A request starts one unless the module is busy; the messages
   that come later go to the session that asked.  A call that waits for the
   end of the activity is `owed` it. *)

CelestialScan ==
    [call |-> "scan", owed |-> TRUE, busy |-> <<"scanning_failed">>, refused |-> {},
     started |-> <<>>, reports |-> {}, ends |-> Parts("scanning_report", "last_report")]

(* mutant: nobody is told that the asteroid is lost while it is scanned *)
AsteroidScanLost ==
    [call |-> "scan", owed |-> TRUE, busy |-> <<"busy">>, refused |-> {<<"too_far">>},
     started |-> <<"in_progress">>, reports |-> {}, ends |-> {<<"scanning_finished">>, <<>>}]

AsteroidScan ==
    [call |-> "scan", owed |-> TRUE, busy |-> <<"busy">>, refused |-> {<<"too_far">>},
     started |-> <<"in_progress">>, reports |-> {},
     ends |-> {<<"scanning_finished">>, <<"too_far">>}]

Transfer ==
    [call |-> "transfer", owed |-> TRUE, busy |-> <<"transfer_refused">>,
     refused |-> {<<"transfer_refused">>}, started |-> <<"transfer_started">>,
     reports |-> {"transfer_report"}, ends |-> {<<"transfer_finished">>}]

(* Mining that can not go on reports a status of its start *)
Mining ==
    [call |-> "startMining", owed |-> FALSE, busy |-> <<"mining_refused">>,
     refused |-> {<<"mining_refused">>}, started |-> <<"mining_started">>,
     reports |-> {"mining_report"},
     ends |-> {<<"mining_report", "mining_is_stopped">>, <<"mining_refused">>}]

Activities == [CelestialScanner  |-> CelestialScan,
               AsteroidScanner   |-> AsteroidScan,
               ResourceContainer |-> Transfer,
               AsteroidMiner     |-> Mining]
=============================================================================
