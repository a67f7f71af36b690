------------------------------- MODULE Startup -------------------------------
(***************************************************************************)
(* From the configuration file to a running server, and the operations     *)
(* that use what was loaded: the application section, the blueprints of    *)
(* modules and ships, the players with their ships, the asteroids and the  *)
(* arbitrator (main, SystemManager, ConfigDI, BlueprintsLibrary,           *)
(* ShipBlueprint, PlayersStorage, Player, World), then the ships the       *)
(* administrator spawns and the answers of the blueprints storage.         *)
(*                                                                         *)
(* A section of the file is a sequence of its items in the order of the    *)
(* file; of a YAML node the model keeps the set "fields" of the values     *)
(* that can be read from it, and the values the control depends on.        *)
(* Loading has one thread, so each section's item is one step.             *)
(***************************************************************************)
EXTENDS Naturals, Sequences, SequencesExt, FiniteSetsExt

CONSTANTS
    Configurations,  \* the configuration files
    NamesPerMessage, \* names in one message of the blueprints list (10)
    SpawnLimit       \* bound on the ships the administrator spawns

ASSUME StartupAssumption == NamesPerMessage \in Nat \ {0} /\ SpawnLimit \in Nat

IsList(s) == s \in Seq(ToSet(s))

(* What a YAML file can hold: lists of items, and numbers of asteroids.    *)
ASSUME ConfigurationsAssumption ==
    \A c \in Configurations :
        /\ IsList(c.modules) /\ IsList(c.ships) /\ IsList(c.players)
        /\ IsList(c.asteroids) /\ IsList(c.clouds) /\ IsList(c.arbitrator)
        /\ c.hasAsteroids \in BOOLEAN
        /\ \A i \in DOMAIN c.players : IsList(c.players[i].ships)
        /\ \A i \in DOMAIN c.clouds : c.clouds[i].total \in Nat

VARIABLES
    config,     \* the file the server was started with
    loadPhase,      \* the section being loaded, "running" or "failed"
    item,       \* items of the section that are loaded
    library,    \* BlueprintsLibrary: the blueprints by name
    accounts,   \* PlayersStorage: for every login the ships of the player
    rocks,      \* World::m_asteroids, by what each came from
    chain,      \* the optional logics of the conveyor, in order
    spawned,    \* ships spawned by the administrator
    told        \* the last list a client was sent: its filter and its messages

startupVars == <<config, loadPhase, item, library, accounts, rocks, chain, spawned, told>>

Sections == <<"modules", "ships", "players", "asteroids", "clouds", "arbitrator">>

StartupInit ==
    /\ config \in Configurations
    /\ loadPhase = "start" /\ item = 0 /\ spawned = 0
    /\ library = <<>> /\ accounts = <<>>
    /\ rocks = <<>> /\ chain = <<>>
    /\ told = [filter |-> "none", messages |-> <<>>]

-----------------------------------------------------------------------------
(* Reading a node: every read() must find its field.                       *)
Reads(node, names) == names \subseteq node.fields

(* A section that can not be read is replaced by the default one, which is *)
(* not valid.                                                              *)
PortsPoolIsValid(pool) ==
    Reads(pool, {"begin", "end"}) /\ pool.begin > 0 /\ pool.end > pool.begin

GlobalGridIsValid(grid) ==
    /\ Reads(grid, {"grid-size", "cell-width-km"})
    /\ grid.width > 0 /\ grid.size \in 1..300

AdministratorIsValid(administrator) ==
    Reads(administrator, {"udp-port", "login", "password"}) /\ administrator.port > 0

(* The default configuration has a valid thread and a valid port, but no   *)
(* ports pool.                                                             *)
ApplicationIsValid(app) ==
    /\ Reads(app, {"total-threads", "login-udp-port", "seed", "initial-state"})
    /\ app.threads > 0 /\ app.port > 0
    /\ PortsPoolIsValid(app.pool)
    /\ GlobalGridIsValid(app.grid)

(* Section i is entered only when every section before it is loaded; the   *)
(* sections World and Arbitrator may be missing, and the clouds are        *)
(* skipped where there is no section of asteroids.                         *)
SectionIsLoaded(i) ==
    LET section == Sections[i]
    IN  CASE section = "clouds"     -> config.hasAsteroids => item = Len(config.clouds)
          [] section = "arbitrator" -> item = Len(config.arbitrator)
          [] OTHER                  -> item = Len(config[section])

(* main() until the world is loaded: all the components are created, and   *)
(* the administrator's panel only when its section is valid.               *)
Initialize ==
    /\ loadPhase = "start"
    /\ loadPhase' = IF ApplicationIsValid(config.application) THEN Sections[1] ELSE "failed"
    /\ chain' = IF loadPhase' # "failed" /\ AdministratorIsValid(config.application.administrator)
                THEN <<"administrator">> ELSE <<>>
    /\ UNCHANGED <<config, item, library, accounts, rocks, spawned, told>>

NextSection ==
    \E i \in DOMAIN Sections :
        /\ loadPhase = Sections[i] /\ SectionIsLoaded(i)
        /\ loadPhase' = IF i < Len(Sections) THEN Sections[i + 1] ELSE "running"
        /\ item' = 0
        /\ UNCHANGED <<config, library, accounts, rocks, chain, spawned, told>>

Fail ==
    /\ loadPhase' = "failed"
    /\ UNCHANGED <<config, item, library, accounts, rocks, chain, spawned, told>>

(* The item of a section to load now.                                      *)
Loading(section) ==
    /\ loadPhase = section
    /\ \A i \in DOMAIN Sections : Sections[i] = section => ~SectionIsLoaded(i)

Loaded == item' = item + 1 /\ UNCHANGED <<config, loadPhase, spawned, told>>

-----------------------------------------------------------------------------
(* The fields of each kind of module, beside its expenses.                 *)
EngineFields            == {"max_thrust"}
CelestialScannerFields  == {"max_scanning_radius_km", "processing_time_us"}
PassiveScannerFields    == {"max_scanning_radius_km", "edge_update_time_ms"}
AsteroidScannerFields   == {"max_scanning_distance", "scanning_time_ms"}
ResourceContainerFields == {"volume"}
AsteroidMinerFields     == {"max_distance", "cycle_time_ms", "yield_per_cycle"}
ShipyardFields          == {"productivity"}

ModuleFields ==
    [Engine            |-> EngineFields,
     CelestialScanner  |-> CelestialScannerFields,
     PassiveScanner    |-> PassiveScannerFields,
     AsteroidScanner   |-> AsteroidScannerFields,
     ResourceContainer |-> ResourceContainerFields,
     AsteroidMiner     |-> AsteroidMinerFields,
     Shipyard          |-> ShipyardFields]

(* ResourceItem::load refuses a name that is no resource.                  *)
KnownResources == {"metals", "silicates", "ice", "stones", "labor"}

ReadsExpenses(node) == Reads(node, {"expenses"}) /\ node.expenses \subseteq KnownResources

IsMade(blueprint) ==
    /\ blueprint.class \in DOMAIN ModuleFields
    /\ ReadsExpenses(blueprint)
    /\ Reads(blueprint, ModuleFields[blueprint.class])

(* m_blueprints[name] = pBlueprint: a later blueprint replaces an earlier  *)
(* one of its name.                                                        *)
LoadModuleBlueprint ==
    /\ Loading("modules")
    /\ LET blueprint == config.modules[item + 1]
       IN  IF IsMade(blueprint)
           THEN /\ library' = [n \in DOMAIN library \cup {<<blueprint.class, blueprint.type>>}
                                 |-> IF n = <<blueprint.class, blueprint.type>>
                                     THEN <<>> ELSE library[n]]
                /\ Loaded /\ UNCHANGED <<accounts, rocks, chain>>
           ELSE Fail

(* The modules of a ship are a sequence of pairs <<name, blueprint>>; two  *)
(* modules of one name are refused, a blueprint that is missing is not     *)
(* noticed here.                                                           *)
ShipIsMade(ship) ==
    /\ ReadsExpenses(ship) /\ Reads(ship, {"weight", "radius"})
    /\ \A i, j \in DOMAIN ship.modules : ship.modules[i][1] = ship.modules[j][1] => i = j

LoadShipBlueprint ==
    /\ Loading("ships")
    /\ LET ship == config.ships[item + 1]
       IN  IF ShipIsMade(ship)
           THEN /\ library' = [n \in DOMAIN library \cup {<<"Ship", ship.type>>}
                                 |-> IF n = <<"Ship", ship.type>>
                                     THEN ship.modules ELSE library[n]]
                /\ Loaded /\ UNCHANGED <<accounts, rocks, chain>>
           ELSE Fail

-----------------------------------------------------------------------------
GetBlueprint(name) == name \in DOMAIN library

(* (mutant: CanBuild) a module without a blueprint is left out             *)
CanBuildPart(type) == TRUE

(* ShipBlueprint::build: a ship is built only when the blueprint of every  *)
(* module is known, and each module is installed under its name.           *)
CanBuild(type) ==
    \A i \in DOMAIN library[<<"Ship", type>>] :
        GetBlueprint(library[<<"Ship", type>>][i][2])

BuildShip(type, name, origin) ==
    [type |-> type, name |-> name, origin |-> origin,
     modules |-> {m \in ToSet(library[<<"Ship", type>>]) : GetBlueprint(m[2])}]

(* Ship::loadState: the ship's position, then the state of every module    *)
(* the file names, which must be installed.                                *)
ReadsState(ship, built) ==
    /\ Reads(ship, {"position", "velocity"})
    /\ \A m \in ship.states : \E x \in built.modules : x[1] = m

(* Player::load: the player without a section "ships" has none.            *)
PlayerIsMade(player) ==
    /\ Reads(player, {"password"})
    /\ \A i \in DOMAIN player.ships :
          LET ship == player.ships[i]
          IN  /\ GetBlueprint(<<"Ship", ship.type>>) /\ CanBuild(ship.type)
              /\ ReadsState(ship, BuildShip(ship.type, ship.name, "file"))

LoadPlayer ==
    /\ Loading("players")
    /\ LET player == config.players[item + 1]
       IN  IF PlayerIsMade(player) /\ player.login \notin DOMAIN accounts
           THEN /\ accounts' = [l \in DOMAIN accounts \cup {player.login} |->
                                  IF l = player.login
                                  THEN [i \in DOMAIN player.ships |->
                                          BuildShip(player.ships[i].type, player.ships[i].name, "file")]
                                  ELSE accounts[l]]
                /\ Loaded /\ UNCHANGED <<library, rocks, chain>>
           ELSE Fail

-----------------------------------------------------------------------------
AsteroidIsMade(asteroid) == Reads(asteroid, {"position", "velocity", "radius"})

LoadAsteroid ==
    /\ Loading("asteroids")
    /\ LET asteroid == config.asteroids[item + 1]
       IN  IF AsteroidIsMade(asteroid)
           THEN /\ rocks' = Append(rocks, <<"asteroid", item + 1>>)
                /\ Loaded /\ UNCHANGED <<library, accounts, chain>>
           ELSE Fail

CloudIsMade(cloud) == Reads(cloud, {"pattern", "center", "area_radius_km", "total"})

(* AsteroidGenerator::generate adds "total" asteroids.                     *)
LoadCloud ==
    /\ Loading("clouds")
    /\ LET cloud == config.clouds[item + 1]
       IN  IF CloudIsMade(cloud)
           THEN /\ rocks' = rocks \o [i \in 1..cloud.total |-> <<"cloud", item + 1>>]
                /\ Loaded /\ UNCHANGED <<library, accounts, chain>>
           ELSE Fail

ArbitratorIsMade(arbitrator) ==
    /\ Reads(arbitrator, {"name", "target_score", "resources"})
    /\ arbitrator.name = "Collecting Resources"

MakeArbitrator ==
    /\ Loading("arbitrator")
    /\ IF ArbitratorIsMade(config.arbitrator[1])
       THEN /\ chain' = Append(chain, "arbitrator")
            /\ Loaded /\ UNCHANGED <<library, accounts, rocks>>
       ELSE Fail

-----------------------------------------------------------------------------
(* SpawnLogic::spawnShip: the player, the blueprint, its kind and its      *)
(* modules are checked; a problem is reported and nothing is changed.      *)
SpawnShip(login, name) ==
    /\ loadPhase = "running" /\ spawned < SpawnLimit
    /\ \E i \in DOMAIN chain : chain[i] = "administrator"
    /\ login \in DOMAIN accounts
    /\ GetBlueprint(name) /\ name[1] = "Ship" /\ CanBuild(name[2])
    /\ accounts' = [accounts EXCEPT ![login] =
                      Append(@, BuildShip(name[2], "spawned", "panel"))]
    /\ spawned' = spawned + 1
    /\ UNCHANGED <<config, loadPhase, item, library, rocks, chain, told>>

(* A list in messages of NamesPerMessage names, from its end; every        *)
(* message says how many names are left.                                   *)
NamesInMessages(names) ==
    LET total == Len(names)
        messages == (total + NamesPerMessage - 1) \div NamesPerMessage
        first(k) == k * NamesPerMessage
    IN  IF total = 0 THEN <<[names |-> <<>>, left |-> 0]>>
        ELSE [k \in 1..messages |->
                LET left == IF total > first(k) THEN total - first(k) ELSE 0
                IN  [names |-> Reverse(SubSeq(names, left + 1, total - first(k - 1))),
                     left |-> left]]

(* The beginnings of full names, "<class>/<type>", that clients ask for    *)
Filters == {"", "Ship", "Ship/"}

(* StringUtils::startsWith compares bytes: "Ship" begins a shipyard's name *)
(* as well.                                                                *)
StartsWith(name, filter) ==
    \/ filter = ""
    \/ filter = "Ship" /\ name[1] \in {"Ship", "Shipyard"}
    \/ filter = "Ship/" /\ name[1] = "Ship"

(* onModulesListReq; the order of the names is the library's own.          *)
ListBlueprints(filter) ==
    /\ loadPhase = "running"
    /\ LET names == {n \in DOMAIN library : StartsWith(n, filter)}
       IN  told' = [filter |-> filter, messages |-> NamesInMessages(SetToSeq(names))]
    /\ UNCHANGED <<config, loadPhase, item, library, accounts, rocks, chain, spawned>>

StartupNext ==
    \/ Initialize \/ NextSection
    \/ LoadModuleBlueprint \/ LoadShipBlueprint \/ LoadPlayer
    \/ LoadAsteroid \/ LoadCloud \/ MakeArbitrator
    \/ \E login \in DOMAIN accounts, name \in DOMAIN library : SpawnShip(login, name)
    \/ \E filter \in Filters : ListBlueprints(filter)

StartupSpec == StartupInit /\ [][StartupNext]_startupVars

-----------------------------------------------------------------------------
(* A ship is whole: whenever a player has a ship, loaded or spawned, it    *)
(* has exactly the modules its blueprint names. Building fails half way    *)
(* when a module's blueprint is missing, which no loading step checks      *)
(* before a ship is built; the half of a ship must never be attached.      *)
ShipsAreWhole ==
    \A login \in DOMAIN accounts : \A i \in DOMAIN accounts[login] :
        LET ship == accounts[login][i]
        IN  ship.modules = ToSet(library[<<"Ship", ship.type>>])

(* A player has the ships his file names, in their order, and after them   *)
(* only ships from the administrator's panel.                              *)
PlayerIsIn(player) ==
    LET ships == accounts[player.login]
    IN  /\ Len(ships) >= Len(player.ships)
        /\ \A k \in DOMAIN ships :
              IF k \in DOMAIN player.ships
              THEN /\ ships[k].origin = "file"
                   /\ ships[k].type = player.ships[k].type
                   /\ ships[k].name = player.ships[k].name
              ELSE ships[k].origin = "panel"

(* A server that runs has loaded everything its file names: every          *)
(* blueprint, every player with his ships in their order, every asteroid   *)
(* and, where the file has a section of asteroids, every asteroid of every *)
(* cloud. Failing loads are never skipped.                                 *)
NothingIsLeftOut ==
    loadPhase = "running" =>
        /\ \A i \in DOMAIN config.modules :
              <<config.modules[i].class, config.modules[i].type>> \in DOMAIN library
        /\ \A i \in DOMAIN config.ships : <<"Ship", config.ships[i].type>> \in DOMAIN library
        /\ DOMAIN accounts = {config.players[i].login : i \in DOMAIN config.players}
        /\ \A i \in DOMAIN config.players : PlayerIsIn(config.players[i])
        /\ \A i \in DOMAIN config.asteroids :
              \E k \in DOMAIN rocks : rocks[k] = <<"asteroid", i>>
        /\ config.hasAsteroids =>
              \A i \in DOMAIN config.clouds :
                 Cardinality({k \in DOMAIN rocks : rocks[k] = <<"cloud", i>>})
                   = config.clouds[i].total

(* The list of blueprints is exact: the messages together hold every name  *)
(* that begins with the filter once, each says how many names follow it,   *)
(* and only the last one says that none does (a client stops to wait at    *)
(* left = 0).                                                              *)
ListIsExact ==
    told.filter # "none" =>
        LET list == told.messages
            size(k) == Len(list[k].names)
            listed == UNION {ToSet(list[k].names) : k \in DOMAIN list}
        IN  /\ listed = {n \in DOMAIN library : StartsWith(n, told.filter)}
            /\ size(1) + list[1].left = Cardinality(listed)
            /\ \A k \in DOMAIN list :
                  IF k = Len(list) THEN list[k].left = 0
                  ELSE list[k].left > 0 /\ list[k].left = size(k + 1) + list[k + 1].left

(* A server that runs is what its configuration says, and tells it to clients. *)
StartupIsComplete == ShipsAreWhole /\ NothingIsLeftOut /\ ListIsExact
=============================================================================
