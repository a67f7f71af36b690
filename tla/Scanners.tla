------------------------------ MODULE Scanners ------------------------------
(***************************************************************************)
(* CelestialScanner and AsteroidScanner on a ship: a scan is requested in  *)
(* a session, takes its time, and is answered in that session.  The        *)
(* celestial scanner reports the asteroids around, in several messages;    *)
(* the asteroid scanner reports one asteroid if it still is within reach.  *)
(* Time left is counted in the intervals that proceed() gets.              *)
(*                                                                         *)
(* Requests are buffered, with a timestamp for as long as it says, and     *)
(* closing their session does not remove them: one may be handled at any   *)
(* time after that, as if the session were open.                           *)
(***************************************************************************)
EXTENDS World, Sequences, SequencesExt

CONSTANTS
    Platform,       \* the ship, one of Objects; the others are asteroids
    MaxRadius,      \* radius of the celestial scan, in positions
    MaxDistance,    \* reach of the asteroid scanner, in positions
    ScanTime,       \* how long a scan takes
    BatchSize,      \* 10: asteroids in a message
    Callers,        \* sessions of the scanners
    Kinds           \* which scanners there are

Nobody == "nobody"
AllKinds == {"celestial", "asteroid"}

ASSUME ScannersAssumption ==
    /\ Platform \in Objects /\ IsFiniteSet(Objects) /\ Nobody \notin Callers
    /\ Kinds \subseteq AllKinds
    /\ BatchSize \in Nat \ {0} /\ ScanTime \in Nat /\ MaxRadius \in Nat

VARIABLES
    scan,       \* of each scanner: m_eState, m_nTunnelId, m_nScanningTimeLeftUs,
                \* m_nAsteroidId; late: its session was closed before its request was handled
    listening,  \* the sessions that are open
    reply       \* what the last step has sent: to whom, messages, how many are left

scannersVars == <<worldVars, scan, listening, reply>>

Idle == [state |-> "idle", caller |-> Nobody, late |-> FALSE, left |-> 0, target |-> Platform]
Silence == [from |-> "none", to |-> Nobody, batches |-> <<>>]

ScannersInit ==
    /\ WorldInit
    /\ Platform \in spawned
    /\ scan = [k \in AllKinds |-> Idle]
    /\ listening = Callers
    /\ reply = Silence

-----------------------------------------------------------------------------
Sqr(n) == n * n
DistanceSqr(o) == Sqr(place[o].x - place[Platform].x) + Sqr(place[o].y - place[Platform].y)
WithinReach(o) == o \in spawned /\ DistanceSqr(o) <= Sqr(MaxDistance)

(* onScanRequest of an idle scanner; the asteroid scanner checks its target.
   Whether the session is still open is not looked at. *)
ScanRequest(k, s, o) ==
    /\ stage = "modules"
    /\ scan[k].state = "idle"
    /\ IF k = "asteroid" THEN WithinReach(o) ELSE o = Platform
    /\ scan' = [scan EXCEPT ![k] = [state |-> "active", caller |-> s, late |-> s \notin listening,
                                    left |-> ScanTime, target |-> o]]
    /\ reply' = Silence
    /\ UNCHANGED <<worldVars, listening>>

(* onScanRequest of a scanner that is not idle, or not idle yet *)
BusyRequest(k, s) ==
    /\ stage = "modules"
    /\ scan[k].state # "idle"
    /\ reply' = [from |-> "busy", to |-> s, batches |-> <<>>]
    /\ UNCHANGED <<worldVars, scan, listening>>

(* onSessionClosed: only the celestial scanner cares.  It remains busy until
   proceed() is called once more. *)
CloseCaller(s) ==
    /\ s \in listening
    /\ listening' = listening \ {s}
    /\ scan' = IF scan["celestial"].caller = s
               THEN [scan EXCEPT !["celestial"].caller = Nobody,
                                 !["celestial"].state = IF @ = "idle" THEN @ ELSE "deactivating"]
               ELSE scan
    /\ reply' = Silence
    /\ UNCHANGED worldVars

(* The messages that carry a list; an empty one is sent as one message *)
Batches(list) ==
    LET end(i) == Min({i * BatchSize, Len(list)})
        total == Max({1, (Len(list) + BatchSize - 1) \div BatchSize})
    IN  [i \in 1..total |-> [items |-> SubSeq(list, (i - 1) * BatchSize + 1, end(i)),
                             left |-> Len(list) - end(i)]]

(* collectAndSendScanResults: asteroids of the cells around, within the radius *)
Collected ==
    LET here == place[Platform]
        around == RangeOf(here.x - MaxRadius, here.y - MaxRadius, 2 * MaxRadius)
    IN  {o \in (UNION {members[c] : c \in around}) \ {Platform} : DistanceSqr(o) < Sqr(MaxRadius)}

(* proceed() of a busy scanner, also of one that is to become idle *)
ScanGoesOn(k) ==
    /\ stage = "modules"
    /\ scan[k].state # "idle"
    /\ scan[k].left > 1
    /\ k = "asteroid" => WithinReach(scan[k].target)
    /\ scan' = [scan EXCEPT ![k].left = @ - 1,
                            ![k].state = IF @ = "deactivating" THEN "idle" ELSE @]
    /\ reply' = Silence
    /\ UNCHANGED <<worldVars, listening>>

CelestialScanEnds ==
    LET k == "celestial"
    IN  /\ stage = "modules"
        /\ scan[k].state # "idle"
        /\ scan[k].left <= 1
        /\ scan' = [scan EXCEPT ![k].state = "idle"]
        /\ \E list \in SetToSeqs(Collected) :
              reply' = [from |-> k, to |-> scan[k].caller, batches |-> Batches(list)]
        /\ UNCHANGED <<worldVars, listening>>

AsteroidScanEnds ==
    LET k == "asteroid"
        lost == ~WithinReach(scan[k].target)
    IN  /\ stage = "modules"
        /\ scan[k].state # "idle"
        /\ scan[k].left <= 1 \/ lost
        /\ scan' = [scan EXCEPT ![k].state = "idle",
                                ![k].caller = IF lost THEN @ ELSE Nobody]
        /\ reply' = [from |-> k, to |-> scan[k].caller,
                     batches |-> IF lost THEN <<>>
                                 ELSE <<[items |-> <<scan[k].target>>, left |-> 0]>>]
        /\ UNCHANGED <<worldVars, listening>>

ScannersNext ==
    \/ WorldNext /\ reply' = Silence /\ UNCHANGED <<scan, listening>>
    \/ \E k \in Kinds :
          \/ \E s \in Callers, o \in Objects : ScanRequest(k, s, o)
          \/ \E s \in Callers : BusyRequest(k, s)
          \/ ScanGoesOn(k)
    \/ \E s \in Callers : CloseCaller(s)
    \/ CelestialScanEnds
    \/ AsteroidScanEnds

ScannersSpec == ScannersInit /\ [][ScannersNext]_scannersVars

-----------------------------------------------------------------------------
(* Properties *)

(* Where asteroids are named in the messages of an answer, and which *)
Entries(batches) == UNION {{i} \X DOMAIN batches[i].items : i \in DOMAIN batches}
Reported(batches) == [e \in Entries(batches) |-> batches[e[1]].items[e[2]]]

(* A celestial scan reports exactly the asteroids of the grid within its
   radius, each once, and counts down to 0 what is left: whatever way they
   came where they are, through whatever cells of the grid.  Only those that
   appeared or were displaced since the last movement may be missing. *)
ScanIsExact ==
    reply.from = "celestial" =>
        /\ IsInjective(Reported(reply.batches))
        /\ Range(Reported(reply.batches)) \ displaced =
              {o \in spawned \ displaced : /\ o # Platform
                                          /\ InGrid(place[o].x, place[o].y)
                                          /\ DistanceSqr(o) < Sqr(MaxRadius)}
        /\ Last(reply.batches).left = 0

(* A scan is answered once, to the session that has asked and to no one who has
   asked meanwhile.  It ends with the answer, except for a celestial scan whose
   session is closed while it runs: no session is answered then, and the only
   closed ones that ever are had been closed before their request was handled. *)
ScanIsAnsweredOnce ==
    [][\A k \in AllKinds :
          /\ reply'.from = k =>
                /\ scan[k].state # "idle" /\ scan'[k].state = "idle" /\ reply'.to = scan[k].caller
                /\ k = "celestial" => reply'.to \in listening \cup {Nobody} \/ scan[k].late
          /\ reply'.from # k /\ scan[k].state # "idle" =>
                \/ scan'[k].state = scan[k].state /\ scan'[k].caller = scan[k].caller
                \/ k = "celestial" /\ scan[k].caller \notin listening' /\ scan'[k].caller = Nobody]_scannersVars

(* A scan is answered with exactly what is there, to exactly whom it concerns. *)
ScansAreExact == [][ScanIsExact']_scannersVars /\ ScanIsAnsweredOnce
=============================================================================
