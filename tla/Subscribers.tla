----------------------------- MODULE Subscribers -----------------------------
(* Modules that remember sessions: modules::SystemClock (subscriptions and   *)
(* rings) and modules::Ship (subscriptions to its state). Messages may be    *)
(* handled after the session they came over was closed.                      *)
EXTENDS Integers, Sequences, SequencesExt, FiniteSetsExt

CONSTANTS
    Clients,        \* sessions with the module
    NobodyId,       \* the session of a ring that was forgotten
    Periods,        \* periods that clients ask for, in ms
    PeriodSpan,     \* the product nPeriodMs * 1000 is taken modulo this (2^32)
    MinPeriod, MaxPeriod,   \* limits of a period in Ship, and the lower one in SystemClock
    Waits,          \* relative times that clients wait for
    Intervals,      \* intervals of in-game time between two cycles
    RingsBound      \* model bound: rings that are waited for

ASSUME SubscribersAssumption ==
    /\ Periods \subseteq Nat /\ Intervals \subseteq Nat /\ Waits \subseteq Int
    /\ PeriodSpan \in Nat /\ MinPeriod \in Nat /\ MaxPeriod \in Nat
    /\ 0 < MinPeriod /\ MinPeriod <= MaxPeriod /\ MaxPeriod < PeriodSpan

(* utils::SubscriptionsBox: sessions that are to be updated periodically, in *)
(* a vector sorted by the time of the next update. Times are relative: left  *)
(* is m_nNextUpdate - now.                                                   *)

\* The item is not moved. (mutant: PlaceItem)
NotPlaced(v, i) == v
\* Item i is moved to the left past later ones, or to the right past sooner ones.
PlaceItem(v, i) ==
    LET item == v[i]
        rest == RemoveAt(v, i)
    IN IF i > 1 /\ v[i - 1].left > item.left
       THEN InsertAt(rest, 1 + Max({0} \cup {j \in 1..(i - 1) : rest[j].left <= item.left}), item)
       ELSE InsertAt(rest, Min({Len(v)} \cup {j \in i..Len(rest) : item.left <= rest[j].left}), item)

Positions(v, s) == {i \in DOMAIN v : v[i].session = s}
Item(s, period) == [session |-> s, period |-> period, left |-> period]

Add(v, s, period) ==
    IF Positions(v, s) # {}
    THEN LET i == Min(Positions(v, s)) IN PlaceItem([v EXCEPT ![i] = Item(s, period)], i)
    ELSE PlaceItem(Append(v, Item(s, period)), Len(v) + 1)

RemoveSubscription(v, s) ==
    IF Positions(v, s) = {} THEN v ELSE RemoveAt(v, Min(Positions(v, s)))

\* nextUpdate(): the first item is due, and is put off by its period until it
\* is in the future. The loop of the code never ends if the period is 0.
IsDue(v) == v # <<>> /\ Head(v).left <= 0
NeverEnds(v) == \E i \in DOMAIN v : v[i].left <= 0 /\ v[i].period = 0

PutOff(item) == [item EXCEPT !.left = item.period - ((-item.left) % item.period)]
NextUpdate(v) == PlaceItem([v EXCEPT ![1] = PutOff(@)], 1)

UpdateIfDue(v) == IF IsDue(v) THEN NextUpdate(v) ELSE v

\* nextUpdate() is called until nobody is due, which is once per item at most.
Updated(v) ==
    LET round[i \in 0..Len(v)] == IF i = 0 THEN v ELSE UpdateIfDue(round[i - 1])
    IN round[Len(v)]
-----------------------------------------------------------------------------
VARIABLES
    kind,               \* "SystemClock" or "Ship"
    sphase,             \* "receive", "handle", or "hung"
    opened,             \* sessions that are open
    late,               \* closed sessions with a message that waits to be handled
    active,             \* the module is busy, and so it is proceeded
    m_rings,            \* [session, valid, left]: the last one is the next to ring
    m_subscriptions,
    since               \* history: time since the subscription, modulo its period

subscribersVars == <<kind, sphase, opened, late, active, m_rings, m_subscriptions, since>>

SubscribersInit ==
    /\ kind \in {"SystemClock", "Ship"} /\ sphase = "receive"
    /\ opened = Clients /\ late = {} /\ active = FALSE
    /\ m_rings = <<>> /\ m_subscriptions = <<>>
    /\ since = [s \in Clients |-> 0]

NoRing == [session |-> NobodyId, valid |-> FALSE, left |-> 0]

\* forgetRingSession(): the ring that is due last is forgotten, the others stay.
Forgotten(rings, s) ==
    LET mine == {i \in DOMAIN rings : rings[i].session = s}
    IN IF mine = {} THEN rings ELSE [rings EXCEPT ![Min(mine)] = NoRing]

OnClientClosed(s) ==
    /\ sphase = "receive" /\ s \in opened
    /\ opened' = opened \ {s}
    /\ late' \in {late, late \cup {s}}
    /\ m_subscriptions' = RemoveSubscription(m_subscriptions, s)
    /\ m_rings' = Forgotten(m_rings, s)
    /\ UNCHANGED <<kind, sphase, active, since>>

\* A new cycle begins: the in-game time has advanced by dt.
NextCycle(dt) ==
    /\ sphase = "receive" /\ sphase' = "handle"
    /\ m_rings' = [i \in DOMAIN m_rings |->
                      IF m_rings[i].valid THEN [m_rings[i] EXCEPT !.left = @ - dt] ELSE m_rings[i]]
    /\ m_subscriptions' = [i \in DOMAIN m_subscriptions |-> [m_subscriptions[i] EXCEPT !.left = @ - dt]]
    /\ since' = [s \in Clients |->
                    LET p == {m_subscriptions[i].period : i \in Positions(m_subscriptions, s)}
                    IN IF p \ {0} = {} THEN 0 ELSE (since[s] + dt) % Max(p)]
    /\ UNCHANGED <<kind, opened, late, active>>
-----------------------------------------------------------------------------
(* Handlers of messages.                                                    *)

From(s) ==
    /\ sphase = "handle" /\ s \in opened \cup late
    /\ late' = late \ {s}
    /\ UNCHANGED <<kind, sphase, opened>>

After(a, b) == a.valid /\ (b.valid => a.left > b.left)

\* The last ring moves to the front until it meets a later one.
DrawnLastRing(rings) ==
    LET ring == Last(rings)
        rest == Front(rings)
    IN InsertAt(rest, 1 + Max({0} \cup {j \in DOMAIN rest : After(rest[j], ring)}), ring)

\* waitFor() and waitUntil(): the time may be in the past.
WaitUntil(s, wait) ==
    /\ From(s) /\ kind = "SystemClock" /\ Len(m_rings) < RingsBound
    /\ m_rings' = DrawnLastRing(Append(m_rings, [session |-> s, valid |-> TRUE, left |-> wait]))
    /\ active' = TRUE
    /\ UNCHANGED <<m_subscriptions, since>>

\* The absolute time 0 makes a ring that is not valid.
WaitUntilZero(s) ==
    /\ From(s) /\ kind = "SystemClock" /\ Len(m_rings) < RingsBound
    /\ m_rings' = DrawnLastRing(Append(m_rings, [NoRing EXCEPT !.session = s]))
    /\ active' = TRUE
    /\ UNCHANGED <<m_subscriptions, since>>

Subscribe(s, ms) ==
    /\ m_subscriptions' = Add(m_subscriptions, s, ms % PeriodSpan)
    /\ since' = [since EXCEPT ![s] = 0]
    /\ active' = TRUE

\* SystemClock::monitoring(): there is no upper limit.
Monitoring(s, ms) ==
    /\ From(s) /\ kind = "SystemClock"
    /\ Subscribe(s, Max({ms, MinPeriod}))
    /\ UNCHANGED m_rings

\* Ship::handleMonitorRequest(): period 0 unsubscribes.
HandleMonitorRequest(s, ms) ==
    /\ From(s) /\ kind = "Ship"
    /\ IF ms > 0 THEN Subscribe(s, Min({Max({ms, MinPeriod}), MaxPeriod}))
       ELSE m_subscriptions' = RemoveSubscription(m_subscriptions, s) /\ UNCHANGED <<since, active>>
    /\ UNCHANGED m_rings
-----------------------------------------------------------------------------
(* proceed(): rings from the back of the vector, then subscriptions.        *)

Rung(rings) ==
    SubSeq(rings, 1, Max({0} \cup {i \in DOMAIN rings : rings[i].valid /\ rings[i].left > 0}))

\* SystemClock gets idle when nothing is left to do, Ship never does.
ProceedSubscribers ==
    /\ sphase = "handle"
    /\ IF ~active
       THEN sphase' = "receive" /\ UNCHANGED <<active, m_rings, m_subscriptions>>
       ELSE /\ m_rings' = Rung(m_rings)
            /\ IF NeverEnds(m_subscriptions)
               THEN sphase' = "hung" /\ UNCHANGED <<m_subscriptions, active>>
               ELSE /\ sphase' = "receive"
                    /\ m_subscriptions' = Updated(m_subscriptions)
                    /\ active' = (kind = "Ship" \/ m_rings' # <<>> \/ m_subscriptions # <<>>)
    /\ UNCHANGED <<kind, opened, late, since>>

SubscribersNext ==
    \/ \E s \in Clients : OnClientClosed(s) \/ WaitUntilZero(s)
    \/ \E s \in Clients, w \in Waits : WaitUntil(s, w)
    \/ \E s \in Clients, p \in Periods : Monitoring(s, p) \/ HandleMonitorRequest(s, p)
    \/ \E dt \in Intervals : NextCycle(dt)
    \/ ProceedSubscribers

SubscribersSpec == SubscribersInit /\ [][SubscribersNext]_subscribersVars
-----------------------------------------------------------------------------
(* After a cycle nobody who waits for a ring or an update is overdue: rings *)
(* and subscriptions that come, change and go in any order never hide one   *)
(* that is due behind one that is not, and a module that has something to   *)
(* do is not idle. A module may hang only because of a period that          *)
(* overflows, which the limits of Ship prevent.                             *)
(* (SystemClock.cpp, Ship.cpp, SubscriptionsBox.cpp)                        *)
NobodyIsOverdue ==
    /\ sphase = "receive" =>
          /\ \A i \in DOMAIN m_rings : m_rings[i].valid => m_rings[i].left > 0
          /\ \A i \in DOMAIN m_subscriptions : m_subscriptions[i].left > 0
    /\ m_subscriptions # <<>> \/ (\E i \in DOMAIN m_rings : m_rings[i].valid) => active
    /\ sphase = "hung" => kind = "SystemClock"

(* Updates come at multiples of the period since the session subscribed,    *)
(* also after cycles longer than the period, and a session is subscribed    *)
(* once. (SubscriptionsBox.cpp: add, nextUpdate)                            *)
UpdatesAreRegular ==
    \A i, j \in DOMAIN m_subscriptions :
        LET x == m_subscriptions[i]
        IN /\ x.session = m_subscriptions[j].session => i = j
           /\ sphase = "receive" /\ x.period > 0 => x.left = x.period - since[x.session]

(* Nobody who waits for a ring or an update is served late or irregularly.  *)
SubscribersAreServed == NobodyIsOverdue /\ UpdatesAreRegular
============================================================================
