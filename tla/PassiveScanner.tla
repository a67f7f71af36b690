--------------------------- MODULE PassiveScanner ---------------------------
(***************************************************************************)
(* modules::PassiveScanner: it notices the objects around its ship and     *)
(* reports each of them to the monitoring sessions from time to time, the  *)
(* nearer the more often; at most UpdateLimit of them in one cycle.        *)
(*                                                                         *)
(* Of the position of an object only matters whether it is in range; the   *)
(* interval to its next report depends on its speed too, and is any of     *)
(* Delays.  All times are relative to the in-game time of the cycle.       *)
(***************************************************************************)
EXTENDS Integers, FiniteSets, FiniteSetsExt, SequencesExt

CONSTANTS
    Things,         \* physical objects but ships of the same player
    Viewers,        \* sessions of clients
    SlotsNumber,    \* size of m_nMonitoringSessions (8)
    UpdateLimit,    \* 16
    EdgeTime,       \* m_nEdgeUpdateTimeUs
    Delays,         \* what getDistanceAndUpdateTime may give
    Steps           \* intervals between two calls of proceed()

ASSUME PassiveScannerAssumption ==
    /\ SlotsNumber \in Nat \ {0} /\ UpdateLimit \in Nat \ {0}
    /\ IsFiniteSet(Things) /\ EdgeTime \in Nat
    /\ IsFiniteSet(Delays) /\ Delays # {} /\ Delays \subseteq Nat \ {0}
    /\ IsFiniteSet(Steps) /\ Steps # {} /\ Steps \subseteq Nat \ {0}

VARIABLES
    pphase,             \* "receive", "handle", "proceed", or "crashed"
    inRange,            \* objects that are closer than m_nMaxScanningRadius
    connected,          \* sessions that are open
    asked,              \* sessions whose monitor request waits to be handled
    m_nMonitoringSessions,
    busy,               \* the scanner is in the list of busy modules
    scanAge,            \* time since m_nLastGlobalUpdateUs
    m_detectedObjects,
    unseen              \* history: how long an object in range was not reported

passiveVars == <<pphase, inRange, connected, asked, m_nMonitoringSessions, busy,
                 scanAge, m_detectedObjects, unseen>>

FreeSlot == "free"
SlotIds == 1..SlotsNumber
Watched == \E i \in SlotIds : m_nMonitoringSessions[i] # FreeSlot

(* An object is known a step after EdgeTime at the latest and due a step after
   the longest delay; then each of the others can be reported before it once. *)
LongestSilence == EdgeTime + Max(Delays) + (Cardinality(Things) + 1) * Max(Steps)

(* an idle scanner's reports get overdue without end *)
OverdueBound == LongestSilence

PassiveInit ==
    /\ pphase = "receive"
    /\ inRange \in SUBSET Things
    /\ connected = Viewers /\ asked = {}
    /\ m_nMonitoringSessions = [i \in SlotIds |-> FreeSlot]
    /\ busy = FALSE
    /\ scanAge = EdgeTime + 1           \* no global scan has been made yet
    /\ m_detectedObjects = <<>>
    /\ unseen = [o \in Things |-> 0]

-----------------------------------------------------------------------------
(* Sessions *)

RequestUpdates(s) ==
    /\ pphase = "receive" /\ s \in connected \ asked
    /\ asked' = asked \cup {s}
    /\ UNCHANGED <<pphase, inRange, connected, m_nMonitoringSessions, busy, scanAge,
                   m_detectedObjects, unseen>>

(* onSessionClosed: the request that still waits is not removed *)
CloseViewer(s) ==
    /\ pphase = "receive" /\ s \in connected
    /\ connected' = connected \ {s}
    /\ m_nMonitoringSessions' = [i \in SlotIds |->
           IF m_nMonitoringSessions[i] = s THEN FreeSlot ELSE m_nMonitoringSessions[i]]
    /\ UNCHANGED <<pphase, inRange, asked, busy, scanAge, m_detectedObjects, unseen>>

(* handleMonitorReq: the first free slot, even if the session has another one *)
HandleMonitorReq(s) ==
    LET free == {i \in SlotIds : m_nMonitoringSessions[i] = FreeSlot}
    IN  /\ pphase = "handle" /\ s \in asked
        /\ asked' = asked \ {s}
        /\ \/ /\ free # {}
              /\ m_nMonitoringSessions' = [m_nMonitoringSessions EXCEPT ![Min(free)] = s]
              /\ busy' = TRUE
           \/ free = {} /\ UNCHANGED <<m_nMonitoringSessions, busy>>
        /\ UNCHANGED <<pphase, inRange, connected, scanAge, m_detectedObjects, unseen>>

-----------------------------------------------------------------------------
(* proceed() *)

Item(o, left) == [id |-> o, left |-> left]

(* mutant: every global scan computes the time of the next report anew *)
KnownLeftForgotten(o, left) == left
(* The time of the next report of an object that is known already is kept *)
KnownLeft(o, left) ==
    LET old == {i \in DOMAIN m_detectedObjects : m_detectedObjects[i].id = o}
    IN  IF old = {} THEN left ELSE m_detectedObjects[Min(old)].left

(* std::sort: the items by the time of their next report, those of one time in
   any order *)
Orders(items) ==
    {s \in [1..Cardinality(items) -> items] :
        /\ \A i, j \in DOMAIN s : i < j => s[i] # s[j] /\ s[i].left <= s[j].left
        /\ ToSet(s) = items}

(* proceedGlobalScan *)
Scanned(delay) == Orders({Item(o, KnownLeft(o, delay[o])) : o \in inRange})

(* One pass of bubble sort: an item goes behind all those that are not to be
   updated later than it *)
Placed(items, item) ==
    InsertAt(items, 1 + Max({0} \cup {i \in DOMAIN items : items[i].left <= item.left}), item)

IsDue(s) ==
    s.list # <<>> /\ Head(s.list).left <= 0 /\ Cardinality(s.reported) < UpdateLimit

(* The object in front of the list is reported and gets the time of its next
   report, or it is out of range and leaves the list *)
UpdateFront(s, delay) ==
    LET o == Head(s.list).id
    IN  IF ~IsDue(s) THEN s
        ELSE IF o \in inRange
             THEN [list |-> Placed(Tail(s.list), Item(o, delay[o])),
                   reported |-> s.reported \cup {o}]
             ELSE [list |-> Tail(s.list), reported |-> s.reported]

(* The loop of proceed(): what is moved is not due again, so every item is
   taken at most once *)
Updates(items, delay) ==
    LET after[n \in 0..Len(items)] == IF n = 0 THEN [list |-> items, reported |-> {}]
                                      ELSE UpdateFront(after[n - 1], delay)
    IN  after[Len(items)]

(* The scan, then the objects that are due.  If the vector gets empty on the
   way, the loop reads its front(): what it finds there is the time that was
   just assigned, unless the library checks for it. *)
ProceedScanner(delay) ==
    \E items \in IF scanAge > EdgeTime THEN Scanned(delay) ELSE {m_detectedObjects} :
        LET result == Updates(items, delay)
        IN  /\ pphase = "proceed" /\ busy
            /\ m_detectedObjects' = result.list
            /\ scanAge' = IF scanAge > EdgeTime THEN 0 ELSE scanAge
            /\ unseen' = [o \in Things |-> IF o \in result.reported THEN 0 ELSE unseen[o]]
            /\ busy' = Watched
            /\ \/ pphase' = "receive"
               \/ pphase' = "crashed" /\ items # <<>> /\ result.list = <<>>
            /\ UNCHANGED <<inRange, connected, asked, m_nMonitoringSessions>>

SkipScanner ==
    /\ pphase = "proceed" /\ ~busy
    /\ pphase' = "receive"
    /\ UNCHANGED <<inRange, connected, asked, m_nMonitoringSessions, busy, scanAge,
                   m_detectedObjects, unseen>>

(* Time goes on, objects come and go *)
BeginPassive(dt) ==
    /\ pphase = "receive" /\ pphase' = "handle"
    /\ inRange' \in SUBSET Things
    /\ scanAge' = Min({scanAge + dt, EdgeTime + 1})
    /\ m_detectedObjects' = [i \in DOMAIN m_detectedObjects |->
           [m_detectedObjects[i] EXCEPT !.left = Max({@ - dt, -OverdueBound})]]
    /\ unseen' = [o \in Things |->
           IF busy /\ o \in inRange \cap inRange' THEN Min({unseen[o] + dt, LongestSilence + 1})
           ELSE 0]
    /\ UNCHANGED <<connected, asked, m_nMonitoringSessions, busy>>

EndHandling ==
    /\ pphase = "handle" /\ asked = {} /\ pphase' = "proceed"
    /\ UNCHANGED <<inRange, connected, asked, m_nMonitoringSessions, busy, scanAge,
                   m_detectedObjects, unseen>>

PassiveNext ==
    \/ \E s \in Viewers : RequestUpdates(s) \/ CloseViewer(s) \/ HandleMonitorReq(s)
    \/ EndHandling
    \/ \E delay \in [Things -> Delays] : ProceedScanner(delay)
    \/ SkipScanner
    \/ \E dt \in Steps : BeginPassive(dt)

PassiveSpec == PassiveInit /\ [][PassiveNext]_passiveVars

-----------------------------------------------------------------------------
(* Properties *)

(* However often objects come near and go, and although global scans rebuild
   the list all the time and only some of the objects are reported in a cycle,
   an object that stays in range of a scanner at work is reported at least
   every LongestSilence. *)
NobodyIsOverlooked == \A o \in Things : unseen[o] <= LongestSilence
=============================================================================
