---------------------------- MODULE MCIndustry ----------------------------
(***************************************************************************)
(* A game: how it is set up from its configuration, how it is decided, how *)
(* ships are produced, and how a ship is flown by a client.  None of them  *)
(* calls another one: a behaviour is one of either, as `part` says.        *)
(***************************************************************************)
EXTENDS Production, Startup, Arbitrator, Navigation

VARIABLE part

industryVars == <<productionVars, startupVars, arbitratorVars, navigationVars, part>>

IndustryInit ==
    /\ part \in {"production", "startup", "arbitrator", "navigation"}
    /\ part = "production" \/ team = 1
    /\ part = "startup" \/ config = CHOOSE c \in Configurations : TRUE
    /\ part = "arbitrator" \/ m_table = CHOOSE t \in OpeningTables : TRUE
    /\ ProductionInit /\ StartupInit /\ ArbitratorInit /\ NavigationInit

IndustryNext ==
    /\ \/ part = "production" /\ WorkshopNext
       \/ part # "production" /\ UNCHANGED productionVars
    /\ \/ part = "startup" /\ StartupNext
       \/ part # "startup" /\ UNCHANGED startupVars
    /\ \/ part = "arbitrator" /\ ArbitratorNext
       \/ part # "arbitrator" /\ UNCHANGED arbitratorVars
    /\ \/ part = "navigation" /\ NavigationNext
       \/ part # "navigation" /\ UNCHANGED navigationVars
    /\ UNCHANGED part

IndustrySpec == IndustryInit /\ [][IndustryNext]_industryVars

(* the thrust of each leg of a manoeuvre *)
MCThrusts == <<0, 2, 1, 0>>
-----------------------------------------------------------------------------
(* Configuration files: in every section a good variant and the defects    *)
(* that the code looks for, in all combinations.                           *)

Application ==
    LET good == [fields |-> {"total-threads", "login-udp-port", "seed", "initial-state"},
                 threads |-> 1, port |-> 1,
                 pool |-> [fields |-> {"begin", "end"}, begin |-> 1, end |-> 2],
                 grid |-> [fields |-> {"grid-size", "cell-width-km"}, size |-> 1, width |-> 1],
                 administrator |-> [fields |-> {"udp-port", "login", "password"}, port |-> 1]]
    IN  {good,
         [good EXCEPT !.administrator.fields = {"login"}],
         [good EXCEPT !.fields = {"total-threads"}],
         [good EXCEPT !.pool.end = 1],
         [good EXCEPT !.grid.size = 301]}

Engine == [class |-> "Engine", type |-> "e",
           fields |-> {"expenses", "max_thrust"}, expenses |-> {"metals", "labor"}]
Container == [class |-> "ResourceContainer", type |-> "c",
              fields |-> {"expenses", "volume"}, expenses |-> {"metals"}]

Shipyards == [class |-> "Shipyard", type |-> "s",
              fields |-> {"expenses", "productivity"}, expenses |-> {"metals"}]

Modules == {<<Engine, Container>>, <<Engine>>, <<Engine, Container, Engine, Shipyards>>,
            <<[Engine EXCEPT !.fields = {"max_thrust"}]>>,
            <<Engine, [Container EXCEPT !.expenses = {"gold"}]>>,
            <<[Engine EXCEPT !.class = "Cannon"]>>}

Probe == [type |-> "probe", fields |-> {"expenses", "weight", "radius"}, expenses |-> {},
          modules |-> <<<<"engine", <<"Engine", "e">>>>>>]
Miner == [Probe EXCEPT !.type = "miner",
                       !.modules = <<<<"cargo", <<"ResourceContainer", "c">>>>,
                                     <<"engine", <<"Engine", "e">>>>>>]

Ships == {<<Probe, Miner>>, <<Probe>>,
          <<[Probe EXCEPT !.modules = <<@[1], @[1]>>]>>}

Crew == [login |-> "anna", fields |-> {"password"},
         ships |-> <<[type |-> "probe", name |-> "a", fields |-> {"position", "velocity"},
                      states |-> {"engine"}]>>]
Fleet == [Crew EXCEPT !.login = "boris",
                      !.ships = <<[@[1] EXCEPT !.type = "miner", !.name = "b", !.states = {}],
                                  [@[1] EXCEPT !.name = "c"]>>]

Players == {<<Crew>>, <<Crew, Fleet>>, <<Crew, Crew>>,
            <<[Crew EXCEPT !.ships[1].states = {"cargo"}]>>,
            <<[Fleet EXCEPT !.fields = {}]>>}

Rock == [fields |-> {"position", "velocity", "radius"}]
Cloud(n) == [fields |-> {"pattern", "center", "area_radius_km", "total"}, total |-> n]

Worlds == {[hasAsteroids |-> FALSE, asteroids |-> <<>>, clouds |-> <<>>],
           [hasAsteroids |-> FALSE, asteroids |-> <<>>, clouds |-> <<Cloud(1)>>],
           [hasAsteroids |-> TRUE, asteroids |-> <<Rock>>, clouds |-> <<Cloud(2), Cloud(1)>>],
           [hasAsteroids |-> TRUE, asteroids |-> <<Rock, [fields |-> {"radius"}]>>, clouds |-> <<>>],
           [hasAsteroids |-> TRUE, asteroids |-> <<>>, clouds |-> <<[Cloud(1) EXCEPT !.fields = {}]>>]}

Target == [fields |-> {"name", "target_score", "resources"}, name |-> "Collecting Resources"]
Arbitrators == {<<>>, <<Target>>, <<[Target EXCEPT !.name = "Racing"]>>}

MCConfigurations ==
    {[application |-> a, modules |-> m, ships |-> s, players |-> p,
      hasAsteroids |-> w.hasAsteroids, asteroids |-> w.asteroids, clouds |-> w.clouds,
      arbitrator |-> x] :
        a \in Application, m \in Modules, s \in Ships, p \in Players,
        w \in Worlds, x \in Arbitrators}
=============================================================================
