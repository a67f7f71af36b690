--------------------------- MODULE ServicesProofs ---------------------------
(***************************************************************************)
(* What those who are served over sessions can rely on, for every number   *)
(* of sessions, services and requests: the requests and services of the    *)
(* messanger, the monitors of a commutator and those of a container, the   *)
(* subscriptions to a clock or a ship, and the ticks of a clock.  Most of  *)
(* them change vectors while they go over them: what is left, who was      *)
(* told and what an index says are shown by induction on the rounds.       *)
(***************************************************************************)
EXTENDS MCServices, FiniteSetTheorems, FunctionTheorems, SequenceTheorems,
        WellFoundedInduction, NaturalsInduction, TLAPS
-----------------------------------------------------------------------------
(* Loops.  The state of a loop after its k-th round is the k-th value of a recursive
   function; that there is such a function, and what it keeps to, is shown by induction. *)

(* A set of natural numbers that is not empty has a least one *)
LEMMA LeastOne ==
    ASSUME NEW T, T \subseteq Nat, T # {} PROVE \E m \in T : \A j \in T : m <= j
  <1> DEFINE R == OpToRel(<, Nat)
  <1>1. \A x, y \in Nat : y < x => <<y, x>> \in R
    BY DEF OpToRel
  <1>2. IsWellFoundedOn(R, Nat)
    BY NatLessThanWellFounded
  <1> HIDE DEF R
  <1>3. PICK m \in T : \A j \in T : <<j, m>> \notin R
    BY <1>2, WFMin
  <1>4. \A j \in T : ~(j < m)
    BY <1>1, <1>3
  <1> QED
    BY <1>3, <1>4

(* Induction on the rounds of a loop: T is the set of the rounds a claim holds after *)
LEMMA RoundsInduction ==
    ASSUME NEW n \in Nat, NEW T, 0 \in T, \A k \in 0 .. (n - 1) : k \in T => k + 1 \in T
    PROVE  \A k \in 0 .. n : k \in T
  <1> SUFFICES ASSUME NEW k \in 0 .. n, k \notin T PROVE FALSE
    OBVIOUS
  <1> DEFINE B == {j \in Nat : j \in 0 .. n /\ j \notin T}
  <1>1. B \subseteq Nat /\ B # {}
    OBVIOUS
  <1>2. PICK m \in B : \A j \in B : m <= j
    <2> HIDE DEF B
    <2> QED
      BY <1>1, LeastOne
  <1>3. m # 0 /\ m \in 1 .. n /\ m \notin T
    OBVIOUS
  <1>4. m \in Nat /\ m - 1 \in 0 .. n /\ m - 1 \in 0 .. (n - 1) /\ m - 1 \in Nat /\ ~(m <= m - 1) /\ (m - 1) + 1 = m
    BY <1>3
  <1>5. m - 1 \in T
    BY <1>2, <1>4
  <1> QED
    BY <1>3, <1>4, <1>5
-----------------------------------------------------------------------------
(* The monitoring sessions of a commutator *)

(* What is left of the monitoring sessions after each round of the loop that drops s *)
Drops(v, s, n, f) ==
    f = [i \in 0 .. n |-> IF i = 0 THEN v ELSE DropMonitor(f[i - 1], i, s)]

(* The loop of Commutator::onSessionClosed *)
LEMMA DropsExist ==
    ASSUME NEW v, NEW s, NEW n \in Nat PROVE \E f : Drops(v, s, n, f)
  <1> DEFINE N == {m \in Nat : \E f : Drops(v, s, m, f)}
  <1>1. 0 \in N
    <2> DEFINE f == [i \in 0 .. 0 |-> v]
    <2>1. f = [i \in 0 .. 0 |-> IF i = 0 THEN v ELSE DropMonitor(f[i - 1], i, s)]
      OBVIOUS
    <2>2. Drops(v, s, 0, f)
      BY <2>1 DEF Drops
    <2> QED
      BY <2>2
  <1>2. ASSUME NEW m \in 0 .. (n - 1), m \in N PROVE m + 1 \in N
    <2>1. PICK f : Drops(v, s, m, f)
      BY <1>2
    <2> DEFINE g == [i \in 0 .. (m + 1) |-> IF i = 0 THEN v ELSE DropMonitor(f[i - 1], i, s)]
    <2>2. \A i \in 0 .. m : g[i] = f[i]
      BY <2>1 DEF Drops
    <2>3. \A i \in 0 .. (m + 1) : i # 0 => i - 1 \in 0 .. m
      OBVIOUS
    <2>4. \A i \in 0 .. (m + 1) : g[i] = IF i = 0 THEN v ELSE DropMonitor(g[i - 1], i, s)
      <3> TAKE i \in 0 .. (m + 1)
      <3>1. g[i] = IF i = 0 THEN v ELSE DropMonitor(f[i - 1], i, s)
        OBVIOUS
      <3>2. i # 0 => g[i - 1] = f[i - 1]
        BY <2>2, <2>3
      <3> HIDE DEF g
      <3> QED
        BY <3>1, <3>2
    <2>5. g = [i \in 0 .. (m + 1) |-> g[i]]
      OBVIOUS
    <2> HIDE DEF g
    <2>6. Drops(v, s, m + 1, g)
      BY <2>4, <2>5 DEF Drops
    <2>7. m + 1 \in Nat
      OBVIOUS
    <2> QED
      BY <2>6, <2>7
  <1>3. n \in N
    <2> HIDE DEF N
    <2>1. n \in 0 .. n
      OBVIOUS
    <2> QED
      BY <1>1, <1>2, <2>1, RoundsInduction
  <1> QED
    BY <1>3

(* WithoutMonitor is what its last round leaves *)
LEMMA DropsRounds ==
    ASSUME NEW v, NEW s, v.size \in Nat
    PROVE  \E f : /\ WithoutMonitor(v, s) = f[v.size]
                 /\ f[0] = v
                 /\ \A i \in 1 .. v.size : f[i] = DropMonitor(f[i - 1], i, s)
  <1> DEFINE n == v.size
             Up(f) == f = [i \in 0 .. n |-> IF i = 0 THEN v ELSE DropMonitor(f[i - 1], i, s)]
             f == CHOOSE f : Up(f)
  <1>1. n \in Nat
    OBVIOUS
  <1>2. \E g : Up(g)
    <2>1. PICK g : Drops(v, s, n, g)
      BY <1>1, DropsExist
    <2>2. Up(g)
      BY <2>1 DEF Drops
    <2> HIDE DEF Up
    <2> QED
      BY <2>2
  <1>3. Up(f)
    BY <1>2, Zenon
  <1>4. WithoutMonitor(v, s) = f[n]
    BY DEF WithoutMonitor
  <1>5. f[0] = v /\ \A i \in 1 .. n : f[i] = DropMonitor(f[i - 1], i, s)
    <2> HIDE DEF f
    <2> QED
      BY <1>1, <1>3
  <1> HIDE DEF f
  <1> QED
    BY <1>4, <1>5

(* A session that monitors once is dropped, and the last one takes its place *)
LEMMA OneMonitorIsDropped ==
    ASSUME NEW n \in Nat, NEW memory, NEW s,
           1 .. n \subseteq DOMAIN memory,
           \A i, j \in 1 .. n : memory[i] = memory[j] => i = j
    PROVE  \/ /\ \A i \in 1 .. n : memory[i] # s
              /\ WithoutMonitor([mem |-> memory, size |-> n], s) = [mem |-> memory, size |-> n]
           \/ \E p \in 1 .. n :
                 /\ memory[p] = s
                 /\ WithoutMonitor([mem |-> memory, size |-> n], s)
                      = [mem |-> [memory EXCEPT ![p] = memory[n]], size |-> n - 1]
  <1> DEFINE v == [mem |-> memory, size |-> n]
             w(p) == [mem |-> [memory EXCEPT ![p] = memory[n]], size |-> n - 1]
  <1>1. PICK f : /\ WithoutMonitor(v, s) = f[v.size] /\ f[0] = v
                 /\ \A i \in 1 .. v.size : f[i] = DropMonitor(f[i - 1], i, s)
    <2>1. v.size \in Nat
      OBVIOUS
    <2> HIDE DEF v
    <2> QED
      BY <2>1, DropsRounds
  <1>2. v.size = n /\ v.mem = memory
    OBVIOUS
  <1> DEFINE Done(i) == \/ (\A j \in 1 .. i : memory[j] # s) /\ f[i] = v
                        \/ \E p \in 1 .. i : memory[p] = s /\ f[i] = w(p)
             N == {i \in Nat : Done(i)}
  <1>3. 0 \in N
    BY <1>1
  <1>4. ASSUME NEW k \in 0 .. (n - 1), k \in N PROVE k + 1 \in N
    <2> DEFINE i == k + 1
    <2>1. i \in 1 .. n /\ i - 1 = k /\ i \in Nat
      OBVIOUS
    <2>2. f[i] = DropMonitor(f[k], i, s)
      BY <1>1, <1>2, <2>1
    <2>3. \A j \in 1 .. i : j \in 1 .. k \/ j = i
      OBVIOUS
    <2>4. 1 .. k \subseteq 1 .. i /\ i \in 1 .. i /\ 1 .. k \subseteq 1 .. n /\ i \notin 1 .. k
      OBVIOUS
    <2> HIDE DEF i
    <2>5. CASE (\A j \in 1 .. k : memory[j] # s) /\ f[k] = v
      <3>1. CASE memory[i] = s
        <4>1. f[i] = w(i)
          BY <1>2, <2>2, <2>5, <3>1 DEF DropMonitor
        <4> QED
          BY <2>1, <2>4, <3>1, <4>1 DEF i
      <3>2. CASE memory[i] # s
        <4>1. f[i] = v
          BY <1>2, <2>2, <2>5, <3>2 DEF DropMonitor
        <4> QED
          BY <2>1, <2>3, <2>5, <3>2, <4>1 DEF i
      <3> QED
        BY <3>1, <3>2
    <2>6. CASE \E p \in 1 .. k : memory[p] = s /\ f[k] = w(p)
      <3>1. PICK p \in 1 .. k : memory[p] = s /\ f[k] = w(p)
        BY <2>6
      <3>2. p # i /\ p \in 1 .. n /\ memory[i] # s
        BY <2>1, <2>4, <3>1
      <3>3. w(p).mem[i] = memory[i]
        BY <2>1, <3>2
      <3>4. f[i] = w(p)
        <4> HIDE DEF w
        <4> QED
          BY <2>2, <3>1, <3>2, <3>3 DEF DropMonitor
      <3> QED
        BY <2>1, <2>4, <3>1, <3>4 DEF i
    <2> QED
      BY <1>4, <2>5, <2>6
  <1>5. n \in N
    <2> HIDE DEF N
    <2>1. n \in 0 .. n
      OBVIOUS
    <2> QED
      BY <1>3, <1>4, <2>1, RoundsInduction
  <1> QED
    BY <1>1, <1>2, <1>5

(* What a client makes of the update about a slot that is there already *)
LEMMA LearnsReplaced ==
    ASSUME NEW M, NEW known \in Seq(M), NEW slot \in 1 .. Len(known), NEW module, known # Unknown
    PROVE  Learns(known, slot, module) = [known EXCEPT ![slot] = module]
  <1>1. DOMAIN known = 1 .. Len(known) /\ Len(known) \in Nat /\ ~(slot > Len(known))
    OBVIOUS
  <1>2. known = [i \in 1 .. Len(known) |-> known[i]]
    OBVIOUS
  <1>3. Learns(known, slot, module) = [i \in 1 .. Len(known) |->
             IF i = slot THEN module ELSE IF i <= Len(known) THEN known[i] ELSE Null]
    BY <1>1 DEF Learns
  <1>4. \A i \in 1 .. Len(known) : i <= Len(known)
    BY <1>1
  <1>5. [known EXCEPT ![slot] = module] = [i \in 1 .. Len(known) |-> IF i = slot THEN module ELSE known[i]]
    BY <1>1, <1>2, Zenon
  <1> QED
    BY <1>3, <1>4, <1>5

(* And about a slot that is new *)
LEMMA LearnsAppended ==
    ASSUME NEW M, NEW known \in Seq(M), NEW module \in M, known # Unknown
    PROVE  Learns(known, Len(known) + 1, module) = Append(known, module)
  <1> DEFINE n == Len(known)
  <1>1. n \in Nat /\ n + 1 > n
    OBVIOUS
  <1>2. Learns(known, n + 1, module) = [i \in 1 .. (n + 1) |->
             IF i = n + 1 THEN module ELSE IF i <= n THEN known[i] ELSE Null]
    BY <1>1 DEF Learns
  <1>3. Append(known, module) = [i \in 1 .. (n + 1) |-> IF i = n + 1 THEN module ELSE known[i]]
    <2>1. Append(known, module) \in Seq(M) /\ Len(Append(known, module)) = n + 1
      OBVIOUS
    <2>2. \A i \in 1 .. (n + 1) : Append(known, module)[i] = IF i = n + 1 THEN module ELSE known[i]
      OBVIOUS
    <2>3. \A x \in Seq(M) : x = [i \in 1 .. Len(x) |-> x[i]]
      OBVIOUS
    <2>4. Append(known, module) = [i \in 1 .. (n + 1) |-> Append(known, module)[i]]
      BY <2>1, <2>3
    <2> QED
      BY <2>2, <2>4
  <1>4. \A i \in 1 .. (n + 1) : i # n + 1 => i <= n
    BY <1>1
  <1> HIDE DEF n
  <1> QED
    BY <1>2, <1>3, <1>4 DEF n

(* A session that may be on the list of those who monitor: an open one of the commutator,
   or one that was closed when its request was handled *)
Belongs(s, leads, ended) == leads[s] = Com \/ (leads[s] = Closed /\ s \in ended)

(* As long as no session asked for monitoring twice, the monitoring sessions belong there,
   each kept once; who knows the slots monitors them, and knows them as they are *)
OnceEach ==
    /\ slots \in Seq(Ships \cup {Null})
    /\ target \in [Links -> Ships \cup {Null, Com, Closed}]
    /\ mem \in [1 .. MonitorsLimit -> Links \cup {Null}]
    /\ monitors \in 0 .. MonitorsLimit
    /\ DOMAIN view = Links
    /\ \A i \in 1 .. monitors : mem[i] \in Links /\ Belongs(mem[i], target, stale)
    /\ \A i, j \in 1 .. monitors : mem[i] = mem[j] => i = j
    /\ \A s \in Links : view[s] # Unknown => target[s] = Com /\ Monitors(s) /\ view[s] = slots

SlotsInv == repeated \/ OnceEach

(* The names of an empty slot, of the commutator and of nothing are no modules *)
LEMMA NamesAreApart ==
    /\ Null \notin Ships /\ Com \notin Ships /\ Closed \notin Ships
    /\ Null # Com /\ Null # Closed /\ Com # Closed /\ MonitorsLimit \in Nat
  BY SlotsAssumption DEF Null, Com, Closed

(* No session monitors at the start *)
LEMMA SlotsInit_Inv == SlotsInit => SlotsInv
  <1> SUFFICES ASSUME SlotsInit PROVE OnceEach
    BY DEF SlotsInv
  <1>1. slots \in Seq(Ships \cup {Null}) /\ 0 \in 0 .. MonitorsLimit
    BY NamesAreApart DEF SlotsInit
  <1> QED
    BY <1>1 DEF SlotsInit, OnceEach

(* commutator.attachModule: the slot that is looked for is one of the stops *)
LEMMA AttachModuleKeeps ==
    ASSUME OnceEach, NEW m \in Ships, AttachModule(m) PROVE OnceEach'
  <1> DEFINE stops == {i \in DOMAIN slots : slots[i] = Null \/ status[slots[i]] = "destroyed"}
             slot  == CHOOSE i \in stops : \A j \in stops : i <= j
             M     == Ships \cup {Null}
  <1>1. slots \in Seq(M) /\ m \in M /\ Null \in M /\ DOMAIN slots = 1 .. Len(slots) /\ Len(slots) \in Nat
    BY DEF OnceEach
  <1>2. stops # {} => slot \in DOMAIN slots
    <2>1. stops \subseteq Nat
      BY <1>1
    <2>2. stops # {} => slot \in stops
      <3> HIDE DEF stops
      <3> QED
        BY <2>1, LeastOne
    <2> QED
      BY <2>2
  <1>3. mem' = mem /\ monitors' = monitors /\ stale' = stale
    BY DEF AttachModule
  <1>4. \A s : Monitors(s)' <=> Monitors(s)
    BY <1>3 DEF Monitors
  <1>5. CASE stops = {}
    <2>1. slots' = Append(slots, m) /\ view' = Told(view, Len(slots) + 1, m) /\ target' = target
      BY <1>5 DEF AttachModule
    <2>2. slots' \in Seq(M)
      BY <1>1, <2>1
    <2>3. \A s \in Links : view'[s] # Unknown => view[s] # Unknown /\ view'[s] = slots'
      <3> TAKE s \in Links
      <3>1. CASE view[s] = Unknown
        BY <2>1, <3>1 DEF Told, Learns
      <3>2. CASE view[s] # Unknown
        <4>1. Monitors(s) /\ view[s] = slots
          BY <3>2 DEF OnceEach
        <4>2. view'[s] = Learns(slots, Len(slots) + 1, m)
          BY <2>1, <4>1 DEF Told
        <4> QED
          BY <1>1, <2>1, <3>2, <4>1, <4>2, LearnsAppended
      <3> QED
        BY <3>1, <3>2
    <2>4. DOMAIN view' = Links
      BY <2>1 DEF Told
    <2> QED
      BY <1>3, <1>4, <2>1, <2>2, <2>3, <2>4 DEF OnceEach, Belongs
  <1>6. CASE stops # {} /\ slots[slot] = Null
    <2>1. UNCHANGED <<slots, view, target>>
      BY <1>6 DEF AttachModule
    <2> QED
      BY <1>3, <1>4, <2>1 DEF OnceEach, Belongs
  <1>7. CASE stops # {} /\ slots[slot] # Null
    <2>1. /\ slots' = [slots EXCEPT ![slot] = m]
          /\ target' = [s \in Links |-> IF target[s] = slots[slot] THEN Null ELSE target[s]]
          /\ view' = Told(Told(view, slot, Null), slot, m)
      BY <1>7 DEF AttachModule
    <2>2. slot \in 1 .. Len(slots) /\ slots[slot] \in Ships /\ slots[slot] \notin {Com, Closed}
      BY <1>1, <1>2, <1>7, NamesAreApart
    <2> HIDE DEF slot, stops
    <2>3. slots' \in Seq(M)
      BY <1>1, <2>1, <2>2
    <2>4. \A s \in Links : view'[s] # Unknown => view[s] # Unknown /\ view'[s] = slots'
      <3> TAKE s \in Links
      <3> DEFINE between == Told(view, slot, Null)
      <3>1. CASE view[s] = Unknown
        <4>1. between[s] = Unknown
          BY <3>1 DEF Told, Learns
        <4>2. Told(between, slot, m)[s] = Unknown
          <5> HIDE DEF between
          <5> QED
            BY <4>1 DEF Told, Learns
        <4> QED
          BY <2>1, <3>1, <4>2
      <3>2. CASE view[s] # Unknown
        <4>1. Monitors(s) /\ view[s] = slots
          BY <3>2 DEF OnceEach
        <4> DEFINE emptied == [slots EXCEPT ![slot] = Null]
        <4>2. between[s] = emptied
          <5>1. between[s] = Learns(slots, slot, Null)
            BY <4>1 DEF Told
          <5> QED
            BY <1>1, <2>2, <3>2, <4>1, <5>1, LearnsReplaced
        <4>3. emptied \in Seq(M) /\ Len(emptied) = Len(slots) /\ emptied[slot] = Null
          BY <1>1, <2>2
        <4>4. emptied # Unknown
          <5> SUFFICES ASSUME emptied = Unknown PROVE FALSE
            OBVIOUS
          <5>1. Len(Unknown) = 1 /\ Unknown[1] = "unknown"
            BY DEF Unknown
          <5>2. slot = 1
            <6>1. Len(slots) = 1
              BY <4>3, <5>1
            <6> QED
              BY <2>2, <6>1
          <5>3. Unknown[1] = Null
            BY <4>3, <5>2
          <5> QED
            BY <5>1, <5>3 DEF Null
        <4>5. view'[s] = Learns(emptied, slot, m)
          <5> HIDE DEF between, emptied
          <5>1. Told(between, slot, m)[s] = Learns(emptied, slot, m)
            BY <4>1, <4>2 DEF Told
          <5> QED
            BY <2>1, <5>1 DEF between
        <4>6. view'[s] = [emptied EXCEPT ![slot] = m]
          <5>1. slot \in 1 .. Len(emptied)
            BY <2>2, <4>3
          <5> HIDE DEF emptied
          <5> QED
            BY <4>3, <4>4, <4>5, <5>1, LearnsReplaced
        <4>7. [emptied EXCEPT ![slot] = m] = slots'
          BY <2>1
        <4> QED
          BY <3>2, <4>6, <4>7
      <3> QED
        BY <3>1, <3>2
    <2>5. DOMAIN view' = Links
      BY <2>1 DEF Told
    <2>6. /\ target' \in [Links -> Ships \cup {Null, Com, Closed}]
          /\ \A s \in Links : target[s] \in {Com, Closed} => target'[s] = target[s]
      BY <2>1, <2>2 DEF OnceEach
    <2> QED
      BY <1>3, <1>4, <2>3, <2>4, <2>5, <2>6 DEF OnceEach, Belongs
  <1> QED
    BY <1>5, <1>6, <1>7

(* checkSlots: no session of the commutator is closed, and who monitors is told of all
   slots that get empty *)
LEMMA CheckSlotsKeeps == ASSUME OnceEach, CheckSlots PROVE OnceEach'
  <1>1. mem' = mem /\ monitors' = monitors /\ stale' = stale
    BY DEF CheckSlots
  <1>2. \A s : Monitors(s)' <=> Monitors(s)
    BY <1>1 DEF Monitors
  <1>3. slots' = [i \in DOMAIN slots |-> IF i \in ToDetach THEN Null ELSE slots[i]]
    BY DEF CheckSlots
  <1>4. slots' \in Seq(Ships \cup {Null})
    <2>1. slots \in Seq(Ships \cup {Null})
      BY DEF OnceEach
    <2>2. DOMAIN slots = 1 .. Len(slots) /\ Len(slots) \in Nat
      BY <2>1
    <2>3. \A i \in 1 .. Len(slots) : slots[i] \in Ships \cup {Null}
      BY <2>1
    <2> QED
      BY <1>3, <2>2, <2>3
  <1>5. \A s \in Links : view'[s] # Unknown => view[s] # Unknown /\ view'[s] = slots'
    <2> TAKE s \in Links
    <2>1. view'[s] = IF Monitors(s) /\ view[s] # Unknown
                     THEN [i \in DOMAIN view[s] |-> IF i \in ToDetach THEN Null ELSE view[s][i]]
                     ELSE view[s]
      BY DEF CheckSlots
    <2>2. view[s] # Unknown => Monitors(s) /\ view[s] = slots
      BY DEF OnceEach
    <2> QED
      BY <1>3, <2>1, <2>2
  <1>6. DOMAIN view' = Links
    BY DEF CheckSlots
  <1>7. /\ target' \in [Links -> Ships \cup {Null, Com, Closed}]
        /\ \A s \in Links : target[s] \in {Com, Closed} => target'[s] = target[s]
    <2>1. \A i \in ToDetach : slots[i] \notin {Com, Closed}
      BY NamesAreApart DEF ToDetach, OnceEach
    <2> QED
      BY <2>1 DEF CheckSlots, OnceEach
  <1> QED
    BY <1>1, <1>2, <1>4, <1>5, <1>6, <1>7 DEF OnceEach, Belongs

(* A session that is opened does not monitor, nor does it know the slots *)
LEMMA OpenSessionKeeps ==
    ASSUME OnceEach, NEW s \in Links, IsNew(s), NEW module \in Ships \cup {Com},
           target' = [target EXCEPT ![s] = module],
           UNCHANGED <<slots, mem, monitors, stale, view>>
    PROVE  OnceEach'
  <1>1. \A x : Monitors(x)' <=> Monitors(x)
    BY DEF Monitors
  <1>2. target' \in [Links -> Ships \cup {Null, Com, Closed}]
    BY DEF OnceEach
  <1>3. \A x \in Links : target[x] = Com => x # s
    BY NamesAreApart DEF OnceEach, IsNew
  <1>4. \A i \in 1 .. monitors : mem[i] # s
    BY NamesAreApart DEF OnceEach, IsNew
  <1>5. \A x \in Links : x # s => target'[x] = target[x]
    BY DEF OnceEach
  <1> QED
    BY <1>1, <1>2, <1>3, <1>4, <1>5 DEF OnceEach, Belongs

(* onMonitoringRequest of a session that does not monitor yet *)
LEMMA MonitoringRequestKeeps ==
    ASSUME OnceEach, NEW s \in Links, OnMonitoringRequest(s), ~Monitors(s) PROVE OnceEach'
  <1> DEFINE n == monitors + 1
  <1>1. /\ mem' = [mem EXCEPT ![n] = s] /\ monitors' = n
        /\ UNCHANGED <<slots, target, view>> /\ monitors < MonitorsLimit
        /\ target[s] \in {Com, Closed} /\ stale' = IF target[s] = Closed THEN stale \cup {s} ELSE stale
    BY DEF OnMonitoringRequest
  <1>2. monitors \in Nat /\ n \in 1 .. MonitorsLimit /\ n \in 0 .. MonitorsLimit
    BY <1>1, NamesAreApart DEF OnceEach
  <1>3. \A i \in 1 .. n : i \in 1 .. monitors \/ i = n
    BY <1>2
  <1>4. 1 .. monitors \subseteq 1 .. n /\ n \in 1 .. n /\ n \notin 1 .. monitors
    BY <1>2
  <1>5. 1 .. monitors \subseteq 1 .. MonitorsLimit
    BY NamesAreApart DEF OnceEach
  <1> HIDE DEF n
  <1>6. mem' \in [1 .. MonitorsLimit -> Links \cup {Null}] /\ mem'[n] = s
    BY <1>1, <1>2 DEF OnceEach
  <1>7. \A i \in 1 .. monitors : mem'[i] = mem[i] /\ mem[i] # s
    BY <1>1, <1>4, <1>5 DEF OnceEach, Monitors
  <1>8. \A i \in 1 .. n : mem'[i] \in Links /\ Belongs(mem'[i], target', stale')
    BY <1>1, <1>3, <1>6, <1>7 DEF OnceEach, Belongs
  <1>9. \A i, j \in 1 .. n : mem'[i] = mem'[j] => i = j
    BY <1>3, <1>6, <1>7 DEF OnceEach
  <1>10. \A x \in Links : Monitors(x) => Monitors(x)'
    BY <1>1, <1>4, <1>7 DEF Monitors
  <1> QED
    BY <1>1, <1>2, <1>6, <1>8, <1>9, <1>10 DEF OnceEach

(* onSessionClosed: the session that is closed is dropped, and no other one *)
LEMMA LinkClosedKeeps ==
    ASSUME OnceEach, NEW s \in Links, OnLinkClosed(s) PROVE OnceEach'
  <1>1. /\ target' = [target EXCEPT ![s] = IF target[s] = Com THEN Closed ELSE Null]
        /\ view' = [view EXCEPT ![s] = Unknown]
        /\ slots' = slots /\ stale' = stale /\ target[s] \notin {Null, Closed}
    BY DEF OnLinkClosed
  <1>2. target' \in [Links -> Ships \cup {Null, Com, Closed}] /\ \A x \in Links : x # s => target'[x] = target[x]
    BY <1>1 DEF OnceEach
  <1>3. DOMAIN view' = Links /\ view'[s] = Unknown /\ \A x \in Links : x # s => view'[x] = view[x]
    BY <1>1 DEF OnceEach
  <1>4. monitors \in Nat /\ 1 .. monitors \subseteq 1 .. MonitorsLimit
    BY NamesAreApart DEF OnceEach
  <1>5. CASE (\A i \in 1 .. monitors : mem[i] # s) /\ mem' = mem /\ monitors' = monitors
    <2>1. \A x : Monitors(x)' <=> Monitors(x)
      BY <1>5 DEF Monitors
    <2> QED
      BY <1>1, <1>2, <1>3, <1>5, <2>1 DEF OnceEach, Belongs
  <1>6. ASSUME NEW p \in 1 .. monitors, mem[p] = s,
               mem' = [mem EXCEPT ![p] = mem[monitors]], monitors' = monitors - 1
        PROVE  OnceEach'
    <2> DEFINE n == monitors
               from(i) == IF i = p THEN n ELSE i
    <2>1. n \in 1 .. n /\ n - 1 \in 0 .. MonitorsLimit /\ 1 .. (n - 1) \subseteq 1 .. n
      BY <1>4, NamesAreApart DEF OnceEach
    <2>2. \A i \in 1 .. n : mem[i] \in Links /\ Belongs(mem[i], target, stale)
      BY DEF OnceEach
    <2>3. mem' \in [1 .. MonitorsLimit -> Links \cup {Null}]
      BY <1>6, <2>1, <2>2 DEF OnceEach
    <2>4. \A i \in 1 .. (n - 1) : from(i) \in 1 .. n /\ mem'[i] = mem[from(i)] /\ from(i) # p
      <3> TAKE i \in 1 .. (n - 1)
      <3>1. i \in 1 .. MonitorsLimit /\ i # n
        BY <1>4, <2>1
      <3> QED
        BY <1>6, <2>1, <3>1 DEF OnceEach
    <2>5. \A i, j \in 1 .. (n - 1) : from(i) = from(j) => i = j
      BY <1>4
    <2>6. \A i \in 1 .. n : i # p => \E j \in 1 .. (n - 1) : from(j) = i
      <3> TAKE i \in 1 .. n
      <3>1. CASE i # p /\ i = n
        <4>1. p \in 1 .. (n - 1)
          BY <1>4, <3>1
        <4> QED
          BY <3>1, <4>1
      <3>2. CASE i # p /\ i # n
        <4>1. i \in 1 .. (n - 1)
          BY <1>4, <3>2
        <4> QED
          BY <3>2, <4>1
      <3> QED
        BY <3>1, <3>2
    <2>7. \A i, j \in 1 .. n : mem[i] = mem[j] => i = j
      BY DEF OnceEach
    <2> HIDE DEF n, from
    <2>8. \A i \in 1 .. (n - 1) : mem'[i] \in Links /\ mem'[i] # s /\ Belongs(mem'[i], target', stale')
      BY <1>1, <1>2, <1>6, <2>2, <2>4, <2>7 DEF n, Belongs
    <2>9. \A i, j \in 1 .. (n - 1) : mem'[i] = mem'[j] => i = j
      BY <2>4, <2>5, <2>7
    <2>10. \A x \in Links : Monitors(x) /\ x # s => Monitors(x)'
      BY <1>6, <2>4, <2>6 DEF Monitors, n
    <2>11. \A x \in Links : view'[x] # Unknown => target'[x] = Com /\ Monitors(x)' /\ view'[x] = slots'
      BY <1>1, <1>2, <1>3, <2>10 DEF OnceEach
    <2>12. slots' \in Seq(Ships \cup {Null}) /\ monitors' = n - 1
      BY <1>1, <1>6 DEF OnceEach, n
    <2> QED
      BY <1>2, <1>3, <2>1, <2>3, <2>8, <2>9, <2>11, <2>12 DEF OnceEach
  <1>7. CASE target[s] # Com
    <2>1. \A i \in 1 .. monitors : mem[i] # s
      BY <1>1, <1>7 DEF OnceEach, Belongs
    <2> QED
      BY <1>5, <1>7, <2>1 DEF OnLinkClosed
  <1>8. CASE target[s] = Com
    <2> DEFINE v == WithoutMonitor([mem |-> mem, size |-> monitors], s)
    <2>1. mem' = v.mem /\ monitors' = v.size
      BY <1>8 DEF OnLinkClosed
    <2>2. 1 .. monitors \subseteq DOMAIN mem /\ \A i, j \in 1 .. monitors : mem[i] = mem[j] => i = j
      BY <1>4 DEF OnceEach
    <2>3. \/ (\A i \in 1 .. monitors : mem[i] # s) /\ v = [mem |-> mem, size |-> monitors]
          \/ \E p \in 1 .. monitors :
                mem[p] = s /\ v = [mem |-> [mem EXCEPT ![p] = mem[monitors]], size |-> monitors - 1]
      BY <1>4, <2>2, OneMonitorIsDropped
    <2> HIDE DEF v
    <2> QED
      BY <1>5, <1>6, <2>1, <2>3
  <1> QED
    BY <1>7, <1>8

(* Every action of a commutator keeps to it *)
LEMMA SlotsStep_Inv == SlotsInv /\ [SlotsNext]_slotsVars => SlotsInv'
  <1> SUFFICES ASSUME SlotsInv, [SlotsNext]_slotsVars PROVE SlotsInv'
    OBVIOUS
  <1>1. CASE repeated
    <2>1. repeated'
      BY <1>1 DEF SlotsNext, slotsVars, AttachModule, ChangeStatus, CheckSlots, OpenCommutatorSession,
                  OpenTunnel, OnMonitoringRequest, GetAllModulesInfo, OnLinkClosed
    <2> QED
      BY <2>1 DEF SlotsInv
  <1>2. CASE OnceEach
    <2>1. ASSUME NEW m \in Ships, AttachModule(m) PROVE SlotsInv'
      BY <1>2, <2>1, AttachModuleKeeps DEF SlotsInv
    <2>2. ASSUME NEW m \in Ships, NEW to, ChangeStatus(m, to) PROVE SlotsInv'
      BY <1>2, <2>2 DEF ChangeStatus, SlotsInv, OnceEach, Belongs, Monitors
    <2>3. CASE CheckSlots
      BY <1>2, <2>3, CheckSlotsKeeps DEF SlotsInv
    <2>4. ASSUME NEW s \in Links, OpenCommutatorSession(s) PROVE SlotsInv'
      <3>1. OnceEach'
        BY <1>2, <2>4, OpenSessionKeeps DEF OpenCommutatorSession
      <3> QED
        BY <3>1 DEF SlotsInv
    <2>5. ASSUME NEW s \in Links, NEW slot \in DOMAIN slots, OpenTunnel(s, slot) PROVE SlotsInv'
      <3>1. slots[slot] \in Ships
        BY <1>2, <2>5 DEF OpenTunnel, OnceEach
      <3>2. OnceEach'
        BY <1>2, <2>5, <3>1, OpenSessionKeeps DEF OpenTunnel
      <3> QED
        BY <3>2 DEF SlotsInv
    <2>6. ASSUME NEW s \in Links, OnMonitoringRequest(s) PROVE SlotsInv'
      <3>1. CASE Monitors(s)
        BY <2>6, <3>1 DEF OnMonitoringRequest, SlotsInv
      <3>2. CASE ~Monitors(s)
        BY <1>2, <2>6, <3>2, MonitoringRequestKeeps DEF SlotsInv
      <3> QED
        BY <3>1, <3>2
    <2>7. ASSUME NEW s \in Links, GetAllModulesInfo(s) PROVE SlotsInv'
      BY <1>2, <2>7 DEF GetAllModulesInfo, SlotsInv, OnceEach, Belongs, Monitors
    <2>8. ASSUME NEW s \in Links, OnLinkClosed(s) PROVE SlotsInv'
      BY <1>2, <2>8, LinkClosedKeeps DEF SlotsInv
    <2>9. CASE UNCHANGED slotsVars
      BY <1>2, <2>9 DEF slotsVars, SlotsInv, OnceEach, Belongs, Monitors
    <2> QED
      BY <2>1, <2>2, <2>3, <2>4, <2>5, <2>6, <2>7, <2>8, <2>9 DEF SlotsNext
  <1> QED
    BY <1>1, <1>2 DEF SlotsInv

(* It says what is promised of monitors *)
LEMMA SlotsInv_Exact == SlotsInv => MonitorsAreExact
  BY DEF SlotsInv, OnceEach, Belongs, MonitorsAreExact, MonitorsSeeSlots, MonitorsAreOpen, EachIsKeptOnce

(* The monitoring sessions of a commutator are open, or were closed before their request was
   handled, each is kept once, and what they know of the slots is what the slots are, whatever
   the number of modules, sessions and places for monitors, unless a session asked twice (Commutator: attachModule, checkSlots,
   onMonitoringRequest, onSessionClosed) *)
THEOREM MonitorsStayExact == SlotsSpec => []MonitorsAreExact
  <1>1. SlotsInv /\ [SlotsNext]_slotsVars => SlotsInv'
    BY SlotsStep_Inv
  <1> QED
    BY <1>1, SlotsInit_Inv, SlotsInv_Exact, PTL DEF SlotsSpec
-----------------------------------------------------------------------------
(* The sessions that monitor a container *)

(* Nobody is told yet *)
Unswept(list) == [list |-> list, told |-> {}]

(* The list, and who has been told, after each round of the loop that sends updates *)
Sweeps(watchers, n, f) ==
    f = [i \in 0 .. n |-> IF i = 0 THEN Unswept(watchers) ELSE TellOrRemove(f[i - 1], i)]

(* The loop of ResourceContainer::sendUpdatesIfRequired *)
LEMMA SweepsExist ==
    ASSUME NEW watchers, NEW n \in Nat PROVE \E f : Sweeps(watchers, n, f)
  <1> DEFINE N == {m \in Nat : \E f : Sweeps(watchers, m, f)}
  <1>1. 0 \in N
    <2> DEFINE f == [i \in 0 .. 0 |-> Unswept(watchers)]
    <2>1. f = [i \in 0 .. 0 |-> IF i = 0 THEN Unswept(watchers) ELSE TellOrRemove(f[i - 1], i)]
      OBVIOUS
    <2>2. Sweeps(watchers, 0, f)
      BY <2>1 DEF Sweeps
    <2> QED
      BY <2>2
  <1>2. ASSUME NEW m \in 0 .. (n - 1), m \in N PROVE m + 1 \in N
    <2>1. PICK f : Sweeps(watchers, m, f)
      BY <1>2
    <2> DEFINE g == [i \in 0 .. (m + 1) |-> IF i = 0 THEN Unswept(watchers) ELSE TellOrRemove(f[i - 1], i)]
    <2>2. \A i \in 0 .. m : g[i] = f[i]
      BY <2>1 DEF Sweeps
    <2>3. \A i \in 0 .. (m + 1) : i # 0 => i - 1 \in 0 .. m
      OBVIOUS
    <2>4. \A i \in 0 .. (m + 1) : g[i] = IF i = 0 THEN Unswept(watchers) ELSE TellOrRemove(g[i - 1], i)
      <3> TAKE i \in 0 .. (m + 1)
      <3>1. g[i] = IF i = 0 THEN Unswept(watchers) ELSE TellOrRemove(f[i - 1], i)
        OBVIOUS
      <3>2. i # 0 => g[i - 1] = f[i - 1]
        BY <2>2, <2>3
      <3> HIDE DEF g
      <3> QED
        BY <3>1, <3>2
    <2>5. g = [i \in 0 .. (m + 1) |-> g[i]]
      OBVIOUS
    <2> HIDE DEF g
    <2>6. Sweeps(watchers, m + 1, g)
      BY <2>4, <2>5 DEF Sweeps
    <2>7. m + 1 \in Nat
      OBVIOUS
    <2> QED
      BY <2>6, <2>7
  <1>3. n \in N
    <2> HIDE DEF N
    <2>1. n \in 0 .. n
      OBVIOUS
    <2> QED
      BY <1>1, <1>2, <2>1, RoundsInduction
  <1> QED
    BY <1>3

(* Sweep is what its last round leaves *)
LEMMA SweepsRounds ==
    ASSUME NEW watchers, Len(watchers) \in Nat
    PROVE  \E f : /\ Sweep(watchers) = f[Len(watchers)]
                 /\ f[0] = Unswept(watchers)
                 /\ \A i \in 1 .. Len(watchers) : f[i] = TellOrRemove(f[i - 1], i)
  <1> DEFINE n == Len(watchers)
             Up(f) == f = [i \in 0 .. n |-> IF i = 0 THEN Unswept(watchers) ELSE TellOrRemove(f[i - 1], i)]
             f == CHOOSE f : Up(f)
  <1>1. n \in Nat
    OBVIOUS
  <1>2. \E g : Up(g)
    <2>1. PICK g : Sweeps(watchers, n, g)
      BY <1>1, SweepsExist
    <2>2. Up(g)
      BY <2>1 DEF Sweeps
    <2> HIDE DEF Up
    <2> QED
      BY <2>2
  <1>3. Up(f)
    BY <1>2, Zenon
  <1>4. Sweep(watchers) = f[n]
    BY DEF Sweep, Unswept
  <1>5. f[0] = Unswept(watchers) /\ \A i \in 1 .. n : f[i] = TellOrRemove(f[i - 1], i)
    <2> HIDE DEF f
    <2> QED
      BY <1>1, <1>3
  <1> HIDE DEF f
  <1> QED
    BY <1>4, <1>5

(* UnorderedVector::remove *)
LEMMA UnorderedRemoval ==
    ASSUME NEW W, NEW list \in Seq(W), NEW i \in 1 .. Len(list)
    PROVE  /\ RemoveUnordered(list, i) \in Seq(W)
           /\ Len(list) - 1 \in Nat /\ Len(RemoveUnordered(list, i)) = Len(list) - 1
           /\ \A j \in 1 .. (Len(list) - 1) :
                 RemoveUnordered(list, i)[j] = list[IF j = i THEN Len(list) ELSE j]
  <1> DEFINE n == Len(list)
             moved == [list EXCEPT ![i] = list[n]]
  <1>1. n \in 1 .. n /\ n - 1 \in Nat /\ 1 .. (n - 1) \subseteq 1 .. n
    OBVIOUS
  <1>2. moved \in Seq(W) /\ Len(moved) = n /\ \A j \in 1 .. n : moved[j] = list[IF j = i THEN n ELSE j]
    OBVIOUS
  <1>3. RemoveUnordered(list, i) = SubSeq(moved, 1, n - 1)
    BY DEF RemoveUnordered, Last
  <1> HIDE DEF moved
  <1>4. SubSeq(moved, 1, n - 1) \in Seq(W) /\ Len(SubSeq(moved, 1, n - 1)) = n - 1
    BY <1>1, <1>2
  <1>5. \A j \in 1 .. (n - 1) : SubSeq(moved, 1, n - 1)[j] = moved[j]
    BY <1>1, <1>2
  <1> QED
    BY <1>1, <1>2, <1>3, <1>4, <1>5

(* What was on the list once is on it at most once; the removed element is not on it *)
LEMMA RemovalKeepsOrderless ==
    ASSUME NEW W, NEW list \in Seq(W), NEW i \in 1 .. Len(list), IsInjective(list)
    PROVE  /\ IsInjective(RemoveUnordered(list, i))
           /\ \A x : Contains(RemoveUnordered(list, i), x) => Contains(list, x) /\ x # list[i]
  <1> DEFINE n == Len(list)
             r == RemoveUnordered(list, i)
             from(j) == IF j = i THEN n ELSE j
  <1>1. r \in Seq(W) /\ n - 1 \in Nat /\ Len(r) = n - 1 /\ \A j \in 1 .. (n - 1) : r[j] = list[from(j)]
    BY UnorderedRemoval
  <1>2. n \in Nat /\ DOMAIN list = 1 .. n /\ i \in 1 .. n
    OBVIOUS
  <1> HIDE DEF r, n
  <1>3. DOMAIN r = 1 .. (n - 1)
    BY <1>1
  <1>4. \A j \in 1 .. (n - 1) : from(j) \in 1 .. n /\ from(j) # i
    BY <1>2
  <1>5. \A j, k \in 1 .. (n - 1) : from(j) = from(k) => j = k
    BY <1>2
  <1> HIDE DEF from
  <1>6. IsInjective(r)
    BY <1>1, <1>2, <1>3, <1>4, <1>5 DEF IsInjective
  <1>7. \A x : Contains(r, x) => Contains(list, x) /\ x # list[i]
    BY <1>1, <1>2, <1>4 DEF IsInjective, Contains, n
  <1> QED
    BY <1>6, <1>7 DEF r

(* In each round of the loop, who was passed over so far: no more than were removed *)
SweptWell(list, w, i) ==
    /\ w \in [list : Seq(Watchers), told : SUBSET Watchers]
    /\ Len(w.list) <= Len(list)
    /\ IsInjective(w.list)
    /\ \A x : Contains(w.list, x) => Contains(list, x)
    /\ \E missed \in SUBSET Watchers :
          /\ IsFiniteSet(missed) /\ Cardinality(missed) <= Len(list) - Len(w.list)
          /\ \A j \in 1 .. Len(w.list) : j <= i => w.list[j] \in w.told \cup missed

(* A round of the loop: a session is told, or removed, or nobody is left *)
LEMMA SweptWellStep ==
    ASSUME NEW list \in Seq(Watchers), NEW k \in Nat, NEW w, SweptWell(list, w, k)
    PROVE  SweptWell(list, TellOrRemove(w, k + 1), k + 1)
  <1> DEFINE i == k + 1
             n == Len(w.list)
  <1>1. /\ w \in [list : Seq(Watchers), told : SUBSET Watchers] /\ w.list \in Seq(Watchers)
        /\ w.told \subseteq Watchers /\ n \in Nat /\ Len(list) \in Nat
        /\ IsInjective(w.list) /\ n <= Len(list)
    BY DEF SweptWell
  <1>2. PICK missed \in SUBSET Watchers :
          /\ IsFiniteSet(missed) /\ Cardinality(missed) <= Len(list) - n
          /\ \A j \in 1 .. n : j <= k => w.list[j] \in w.told \cup missed
    BY DEF SweptWell
  <1>3. CASE i > n
    <2>1. TellOrRemove(w, i) = w
      BY <1>3 DEF TellOrRemove
    <2>2. \A j \in 1 .. n : j <= k
      BY <1>1, <1>3
    <2> QED
      BY <1>1, <1>2, <2>1, <2>2 DEF SweptWell
  <1>4. CASE ~(i > n) /\ w.list[i] \in watching
    <2> DEFINE t == TellOrRemove(w, i)
    <2>1. t = [w EXCEPT !.told = w.told \cup {w.list[i]}]
      BY <1>4 DEF TellOrRemove
    <2>2. i \in 1 .. n
      BY <1>1, <1>4
    <2>3. t.list = w.list /\ t.told = w.told \cup {w.list[i]} /\ t \in [list : Seq(Watchers), told : SUBSET Watchers]
      BY <1>1, <2>1, <2>2
    <2>4. \A j \in 1 .. n : j <= i => j <= k \/ j = i
      BY <1>1
    <2>5. \A j \in 1 .. n : j <= i => w.list[j] \in t.told \cup missed
      BY <1>2, <2>3, <2>4
    <2> HIDE DEF t, i
    <2>6. SweptWell(list, t, i)
      BY <1>1, <1>2, <2>3, <2>5 DEF SweptWell
    <2> QED
      BY <2>6 DEF t, i
  <1>5. CASE ~(i > n) /\ w.list[i] \notin watching
    <2> DEFINE t == TellOrRemove(w, i)
               r == RemoveUnordered(w.list, i)
               last == w.list[n]
               passed == missed \cup {last}
    <2>1. t = [w EXCEPT !.list = r]
      BY <1>5 DEF TellOrRemove
    <2>2. i \in 1 .. n
      BY <1>1, <1>5
    <2>3. r \in Seq(Watchers) /\ Len(r) = n - 1 /\ \A j \in 1 .. (n - 1) : r[j] = w.list[IF j = i THEN n ELSE j]
      BY <1>1, <2>2, UnorderedRemoval
    <2>4. IsInjective(r) /\ \A x : Contains(r, x) => Contains(w.list, x)
      BY <1>1, <2>2, RemovalKeepsOrderless
    <2> HIDE DEF r
    <2>5. t.list = r /\ t.told = w.told /\ t \in [list : Seq(Watchers), told : SUBSET Watchers]
      BY <1>1, <2>1, <2>3
    <2>6. last \in Watchers /\ 1 .. (n - 1) \subseteq 1 .. n
      BY <1>1, <2>2
    <2>7. IsFiniteSet(passed) /\ Cardinality(passed) <= Cardinality(missed) + 1 /\ Cardinality(missed) \in Nat
          /\ Cardinality(passed) \in Nat
      <3>1. /\ IsFiniteSet(missed \cup {last})
            /\ Cardinality(missed \cup {last})
                 = IF last \in missed THEN Cardinality(missed) ELSE Cardinality(missed) + 1
        BY <1>2, FS_AddElement
      <3>2. Cardinality(missed) \in Nat
        BY <1>2, FS_CardinalityType
      <3> QED
        BY <3>1, <3>2
    <2>8. Cardinality(passed) <= Len(list) - (n - 1)
      BY <1>1, <1>2, <2>7
    <2>9. \A j \in 1 .. (n - 1) : j <= i => j <= k \/ j = i
      BY <1>1
    <2>10. \A j \in 1 .. (n - 1) : j <= i => r[j] \in t.told \cup passed
      <3> TAKE j \in 1 .. (n - 1)
      <3>1. CASE j = i
        BY <2>3, <3>1
      <3>2. CASE j # i /\ j <= k
        BY <1>2, <2>3, <2>5, <2>6, <3>2
      <3> QED
        BY <2>9, <3>1, <3>2
    <2>11. n - 1 <= Len(list) /\ passed \in SUBSET Watchers
      BY <1>1, <2>6
    <2>12. \A x : Contains(r, x) => Contains(list, x)
      BY <2>4 DEF SweptWell
    <2> HIDE DEF t, i, passed
    <2>13. SweptWell(list, t, i)
      BY <2>3, <2>4, <2>5, <2>7, <2>8, <2>10, <2>11, <2>12 DEF SweptWell
    <2> QED
      BY <2>13 DEF t, i
  <1> QED
    BY <1>3, <1>4, <1>5

(* After the loop, everyone on the list was told or passed over *)
LEMMA SweepIsFair ==
    ASSUME NEW list \in Seq(Watchers), IsInjective(list)
    PROVE  SweptWell(list, Sweep(list), Len(list))
  <1> DEFINE n == Len(list)
  <1>1. PICK f : /\ Sweep(list) = f[n] /\ f[0] = Unswept(list)
                 /\ \A i \in 1 .. n : f[i] = TellOrRemove(f[i - 1], i)
    BY SweepsRounds
  <1> DEFINE N == {i \in Nat : SweptWell(list, f[i], i)}
  <1>2. 0 \in N
    <2>1. f[0].list = list /\ f[0] \in [list : Seq(Watchers), told : SUBSET Watchers]
      BY <1>1 DEF Unswept
    <2>2. IsFiniteSet({}) /\ Cardinality({}) = 0 /\ {} \in SUBSET Watchers /\ n \in Nat /\ 0 <= n - n
      BY FS_EmptySet
    <2>3. \A j \in 1 .. n : ~(j <= 0)
      OBVIOUS
    <2> QED
      BY <2>1, <2>2, <2>3 DEF SweptWell
  <1>3. ASSUME NEW k \in 0 .. (n - 1), k \in N PROVE k + 1 \in N
    <2>1. k + 1 \in 1 .. n /\ (k + 1) - 1 = k /\ k \in Nat /\ k + 1 \in Nat
      OBVIOUS
    <2>2. f[k + 1] = TellOrRemove(f[k], k + 1)
      BY <1>1, <2>1
    <2>3. SweptWell(list, f[k], k)
      BY <1>3
    <2> QED
      BY <2>1, <2>2, <2>3, SweptWellStep
  <1>4. n \in N
    <2> HIDE DEF N
    <2>1. n \in 0 .. n /\ n \in Nat
      OBVIOUS
    <2> QED
      BY <1>2, <1>3, <2>1, RoundsInduction
  <1> QED
    BY <1>1, <1>4

(* Who monitors, lives and does not know the content *)
Outdated == {s \in watching : Contains(watchList, s) /\ told[s] # content}

CargoInv ==
    /\ content \in 0 .. 2 /\ removed \in Nat
    /\ watching \subseteq Watchers /\ requested \subseteq Watchers
    /\ DOMAIN told = Watchers
    /\ watchList \in Seq(Watchers) /\ IsInjective(watchList)
    /\ ~modified => IsFiniteSet(Outdated) /\ Cardinality(Outdated) <= removed

(* Nobody monitors a container at the start *)
LEMMA CargoInit_Inv == CargoMonitorsInit => CargoInv
  <1> SUFFICES ASSUME CargoMonitorsInit PROVE CargoInv
    OBVIOUS
  <1>1. watchList = <<>> /\ Len(watchList) = 0 /\ watchList \in Seq(Watchers) /\ DOMAIN watchList = {}
    BY DEF CargoMonitorsInit
  <1>2. Outdated = {}
    BY <1>1 DEF Outdated, Contains
  <1>3. IsFiniteSet(Outdated) /\ Cardinality(Outdated) = 0
    BY <1>2, FS_EmptySet
  <1> QED
    BY <1>1, <1>3 DEF CargoMonitorsInit, CargoInv, IsInjective

(* Fewer outdated sessions are no more than before *)
LEMMA FewerOutdated ==
    ASSUME NEW A, NEW B, A \subseteq B, IsFiniteSet(B), NEW n \in Nat, Cardinality(B) <= n
    PROVE  IsFiniteSet(A) /\ Cardinality(A) <= n
  <1>1. IsFiniteSet(A) /\ Cardinality(A) <= Cardinality(B)
    BY FS_Subset
  <1>2. Cardinality(A) \in Nat /\ Cardinality(B) \in Nat
    BY <1>1, FS_CardinalityType
  <1> QED
    BY <1>1, <1>2

(* onSessionClosed: the list gets shorter, and no other session gets outdated *)
LEMMA CloseWatcherKeeps == ASSUME CargoInv, NEW s \in Watchers, CloseWatcher(s) PROVE CargoInv'
  <1>1. /\ watching' = watching \ {s} /\ watchList' = RemoveFirstUnordered(watchList, s)
        /\ UNCHANGED <<content, modified, requested, told, removed>>
    BY DEF CloseWatcher
  <1>2. watchList' \in Seq(Watchers) /\ IsInjective(watchList') /\ \A x : Contains(watchList', x) => Contains(watchList, x)
    <2>1. CASE ~Contains(watchList, s)
      BY <1>1, <2>1 DEF RemoveFirstUnordered, CargoInv
    <2>2. CASE Contains(watchList, s)
      <3> DEFINE I == {i \in 1 .. Len(watchList) : watchList[i] = s}
                 i == SelectInSeq(watchList, LAMBDA x : x = s)
      <3>1. I \subseteq Nat /\ I # {}
        BY <2>2 DEF Contains, CargoInv
      <3>2. i = Min(I)
        BY <3>1 DEF SelectInSeq
      <3>3. Min(I) \in I
        <4> HIDE DEF I
        <4> QED
          BY <3>1, LeastOne DEF Min
      <3>4. i \in 1 .. Len(watchList)
        BY <3>2, <3>3
      <3>5. watchList' = RemoveUnordered(watchList, i)
        BY <1>1, <2>2 DEF RemoveFirstUnordered
      <3> HIDE DEF i
      <3> QED
        BY <3>4, <3>5, UnorderedRemoval, RemovalKeepsOrderless DEF CargoInv
    <2> QED
      BY <2>1, <2>2
  <1>3. Outdated' \subseteq Outdated
    BY <1>1, <1>2 DEF Outdated
  <1> HIDE DEF Outdated
  <1> QED
    BY <1>1, <1>2, <1>3, FewerOutdated DEF CargoInv

(* monitor: a live session is told at once *)
LEMMA MonitorKeeps == ASSUME CargoInv, NEW s \in Watchers, Monitor(s) PROVE CargoInv'
  <1>1. /\ requested' = requested \ {s} /\ watchList' = PushMonitor(watchList, s)
        /\ told' = IF s \in watching THEN [told EXCEPT ![s] = content] ELSE told
        /\ UNCHANGED <<content, modified, watching, removed>>
    BY DEF Monitor
  <1>2. watchList \in Seq(Watchers) /\ IsInjective(watchList)
    BY DEF CargoInv
  <1>3. watchList' \in Seq(Watchers) /\ IsInjective(watchList')
        /\ \A x : Contains(watchList', x) => Contains(watchList, x) \/ x = s
    <2>1. CASE Contains(watchList, s)
      BY <1>1, <1>2, <2>1 DEF PushMonitor
    <2>2. CASE ~Contains(watchList, s)
      <3> DEFINE n == Len(watchList)
      <3>1. n \in Nat /\ DOMAIN watchList = 1 .. n /\ \A i \in 1 .. n : watchList[i] # s
        BY <1>2, <2>2 DEF Contains
      <3>2. watchList' = Append(watchList, s)
        BY <1>1, <2>2 DEF PushMonitor
      <3>3. watchList' \in Seq(Watchers) /\ Len(watchList') = n + 1 /\ DOMAIN watchList' = 1 .. (n + 1)
            /\ watchList'[n + 1] = s /\ \A i \in 1 .. n : watchList'[i] = watchList[i]
        BY <1>2, <3>2
      <3>4. \A i \in 1 .. (n + 1) : i \in 1 .. n \/ i = n + 1
        BY <3>1
      <3> HIDE DEF n
      <3>5. IsInjective(watchList')
        BY <1>2, <3>1, <3>3, <3>4 DEF IsInjective
      <3>6. \A x : Contains(watchList', x) => Contains(watchList, x) \/ x = s
        BY <3>3, <3>4 DEF Contains, n
      <3> QED
        BY <3>3, <3>5, <3>6
    <2> QED
      BY <2>1, <2>2
  <1>4. DOMAIN told' = Watchers /\ \A x \in watching : told'[x] = told[x] \/ (x = s /\ told'[x] = content)
    BY <1>1 DEF CargoInv
  <1>5. s \in watching => told'[s] = content
    BY <1>1 DEF CargoInv
  <1>6. Outdated' \subseteq Outdated
    BY <1>1, <1>3, <1>4, <1>5 DEF Outdated
  <1> HIDE DEF Outdated
  <1> QED
    BY <1>1, <1>3, <1>4, <1>6, FewerOutdated DEF CargoInv

(* A round of updates *)
LEMMA SendUpdatesKeeps == ASSUME CargoInv, SendUpdates PROVE CargoInv'
  <1> DEFINE w == Sweep(watchList)
  <1>1. /\ watchList' = w.list /\ UNCHANGED <<content, watching, requested>>
        /\ told' = [s \in Watchers |-> IF s \in w.told THEN content ELSE told[s]]
        /\ removed' = Len(watchList) - Len(w.list)
    BY DEF SendUpdates
  <1>2. SweptWell(watchList, w, Len(watchList))
    BY SweepIsFair DEF CargoInv
  <1> HIDE DEF w
  <1>3. /\ w.list \in Seq(Watchers) /\ Len(w.list) <= Len(watchList) /\ IsInjective(w.list)
        /\ Len(w.list) \in Nat /\ Len(watchList) \in Nat
    BY <1>2 DEF SweptWell, CargoInv
  <1>4. PICK missed \in SUBSET Watchers :
          /\ IsFiniteSet(missed) /\ Cardinality(missed) <= Len(watchList) - Len(w.list)
          /\ \A j \in 1 .. Len(w.list) : j <= Len(watchList) => w.list[j] \in w.told \cup missed
    BY <1>2 DEF SweptWell
  <1>5. removed' \in Nat /\ Cardinality(missed) <= removed'
    BY <1>1, <1>3, <1>4
  <1>6. \A j \in 1 .. Len(w.list) : j <= Len(watchList)
    BY <1>3
  <1>7. Outdated' \subseteq missed
    <2> SUFFICES ASSUME NEW s \in Outdated' PROVE s \in missed
      OBVIOUS
    <2>1. s \in Watchers /\ Contains(w.list, s) /\ told'[s] # content
      BY <1>1 DEF Outdated, CargoInv
    <2>2. s \notin w.told
      BY <1>1, <2>1
    <2> QED
      BY <1>4, <1>6, <2>1, <2>2 DEF Contains
  <1> HIDE DEF Outdated
  <1>8. IsFiniteSet(Outdated') /\ Cardinality(Outdated') <= removed'
    BY <1>4, <1>5, <1>7, FewerOutdated
  <1> QED
    BY <1>1, <1>3, <1>5, <1>8 DEF CargoInv

(* Every action of a container keeps to it *)
LEMMA CargoStep_Inv == CargoInv /\ [CargoMonitorsNext]_cargoMonitorsVars => CargoInv'
  <1> SUFFICES ASSUME CargoInv, [CargoMonitorsNext]_cargoMonitorsVars PROVE CargoInv'
    OBVIOUS
  <1>1. ASSUME NEW s \in Watchers, RequestMonitor(s) PROVE CargoInv'
    <2>1. Outdated' = Outdated
      BY <1>1 DEF RequestMonitor, Outdated
    <2> HIDE DEF Outdated
    <2> QED
      BY <1>1, <2>1 DEF RequestMonitor, CargoInv
  <1>2. ASSUME NEW s \in Watchers, CloseWatcher(s) PROVE CargoInv'
    BY <1>2, CloseWatcherKeeps
  <1>3. ASSUME NEW s \in Watchers, Monitor(s) PROVE CargoInv'
    BY <1>3, MonitorKeeps
  <1>4. CASE Modify
    <2>1. content' \in 0 .. 2 /\ modified'
      BY <1>4 DEF Modify, CargoInv
    <2> QED
      BY <1>4, <2>1 DEF Modify, CargoInv
  <1>5. CASE SendUpdates
    BY <1>5, SendUpdatesKeeps
  <1>6. CASE UNCHANGED cargoMonitorsVars
    <2>1. Outdated' = Outdated
      BY <1>6 DEF cargoMonitorsVars, Outdated
    <2> HIDE DEF Outdated
    <2> QED
      BY <1>6, <2>1 DEF cargoMonitorsVars, CargoInv
  <1> QED
    BY <1>1, <1>2, <1>3, <1>4, <1>5, <1>6 DEF CargoMonitorsNext

(* It says what is promised of the updates *)
LEMMA CargoInv_Told == CargoInv => MonitorsAreTold
  BY DEF CargoInv, MonitorsAreTold, Outdated

(* However many sessions monitor a container and die unnoticed, a round of updates passes
   over one live session at most for each dead one that it removes, and all the others know
   the content (ResourceContainer: sendUpdatesIfRequired, monitor, onSessionClosed) *)
THEOREM MonitorsStayTold == CargoMonitorsSpec => []MonitorsAreTold
  <1>1. CargoInv /\ [CargoMonitorsNext]_cargoMonitorsVars => CargoInv'
    BY CargoStep_Inv
  <1> QED
    BY <1>1, CargoInit_Inv, CargoInv_Told, PTL DEF CargoMonitorsSpec
-----------------------------------------------------------------------------
(* utils::IndexedVector *)

(* A vector of items of I, with the key k, whose index is exact *)
Indexed(v, I, k) ==
    /\ v = [items |-> v.items, index |-> v.index, key |-> k]
    /\ v.items \in Seq(I)
    /\ IndexAgrees(v)

(* What an exact index says of the items *)
LEMMA IndexFacts ==
    ASSUME NEW I, NEW k, NEW v, Indexed(v, I, k)
    PROVE  /\ v.key = k /\ Len(v.items) \in Nat /\ DOMAIN v.items = 1 .. Len(v.items)
           /\ \A i \in 1 .. Len(v.items) : /\ v.items[i] \in I /\ v.items[i] \in ToSet(v.items)
                                           /\ v.items[i][k] \in DOMAIN v.index
                                           /\ v.index[v.items[i][k]] = i
           /\ \A i, j \in 1 .. Len(v.items) : v.items[i][k] = v.items[j][k] => i = j
           /\ \A q \in DOMAIN v.index : \E i \in 1 .. Len(v.items) : v.items[i][k] = q
           /\ ToSet(v.items) \subseteq I
           /\ \A x \in ToSet(v.items) : \E i \in 1 .. Len(v.items) : v.items[i] = x
  <1>1. v.key = k /\ Len(v.items) \in Nat /\ DOMAIN v.items = 1 .. Len(v.items)
    BY DEF Indexed
  <1>2. \A i \in 1 .. Len(v.items) : v.items[i] \in I
    BY DEF Indexed
  <1>3. /\ DOMAIN v.index = {v.items[i][k] : i \in 1 .. Len(v.items)}
        /\ \A i \in 1 .. Len(v.items) : v.index[v.items[i][k]] = i
    BY <1>1 DEF Indexed, IndexAgrees, KeyOf
  <1>4. ToSet(v.items) = {v.items[i] : i \in 1 .. Len(v.items)}
    BY <1>1 DEF ToSet
  <1> QED
    BY <1>1, <1>2, <1>3, <1>4

(* Every item is found by its key, and has it alone *)
LEMMA ItemsHaveKeys ==
    ASSUME NEW I, NEW k, NEW v, Indexed(v, I, k)
    PROVE  /\ \A x \in ToSet(v.items) : HasKey(v, x[k])
           /\ \A x, y \in ToSet(v.items) : x[k] = y[k] => x = y
  <1>1. ASSUME NEW x \in ToSet(v.items) PROVE HasKey(v, x[k])
    <2>1. PICK i \in 1 .. Len(v.items) : v.items[i] = x
      BY IndexFacts
    <2> QED
      BY <2>1, IndexFacts DEF HasKey
  <1>2. /\ \A x \in ToSet(v.items) : \E i \in 1 .. Len(v.items) : v.items[i] = x
        /\ \A i, j \in 1 .. Len(v.items) : v.items[i][k] = v.items[j][k] => i = j
    <2>1. \A x \in ToSet(v.items) : \E i \in 1 .. Len(v.items) : v.items[i] = x
      BY IndexFacts
    <2>2. \A i, j \in 1 .. Len(v.items) : v.items[i][k] = v.items[j][k] => i = j
      BY IndexFacts
    <2> QED
      BY <2>1, <2>2
  <1>3. ASSUME NEW x \in ToSet(v.items), NEW y \in ToSet(v.items), x[k] = y[k] PROVE x = y
    <2>1. PICK i \in 1 .. Len(v.items) : v.items[i] = x
      BY <1>2
    <2>2. PICK j \in 1 .. Len(v.items) : v.items[j] = y
      BY <1>2
    <2> QED
      BY <1>2, <1>3, <2>1, <2>2
  <1> QED
    BY <1>1, <1>3

(* A vector is empty at first *)
LEMMA EmptyIsIndexed == ASSUME NEW I, NEW k PROVE Indexed(Empty(k), I, k) /\ ToSet(Empty(k).items) = {}
  <1>1. Empty(k) = [items |-> <<>>, index |-> <<>>, key |-> k]
    BY DEF Empty
  <1>2. DOMAIN <<>> = {} /\ <<>> \in Seq(I)
    OBVIOUS
  <1> QED
    BY <1>1, <1>2 DEF Indexed, IndexAgrees, KeyOf, ToSet

(* push() of an item with a new key *)
LEMMA PushIsIndexed ==
    ASSUME NEW I, NEW k, NEW v, Indexed(v, I, k), NEW item \in I, ~HasKey(v, item[k])
    PROVE  Indexed(Push(v, item), I, k) /\ ToSet(Push(v, item).items) = ToSet(v.items) \cup {item}
  <1> DEFINE n == Len(v.items)
             K == item[k]
             x == Append(v.items, item)
             y == [q \in DOMAIN v.index \cup {K} |-> IF q = K THEN n + 1 ELSE v.index[q]]
             w == Push(v, item)
  <1>1. /\ v = [items |-> v.items, index |-> v.index, key |-> k] /\ v.items \in Seq(I)
        /\ v.key = k /\ n \in Nat /\ DOMAIN v.items = 1 .. n
        /\ \A i \in 1 .. n : v.items[i][k] \in DOMAIN v.index /\ v.index[v.items[i][k]] = i
        /\ \A q \in DOMAIN v.index : \E i \in 1 .. n : v.items[i][k] = q
    BY IndexFacts DEF Indexed
  <1>2. K \notin DOMAIN v.index
    BY DEF HasKey
  <1>3. w = [items |-> x, index |-> y, key |-> k]
    <2>1. w = [v EXCEPT !.items = x, !.index = y]
      BY <1>1 DEF Push, KeyOf
    <2> HIDE DEF x, y, w
    <2> QED
      BY <1>1, <2>1
  <1>4. x \in Seq(I) /\ DOMAIN x = 1 .. (n + 1) /\ x[n + 1] = item /\ \A i \in 1 .. n : x[i] = v.items[i]
    BY <1>1
  <1>5. \A i \in 1 .. (n + 1) : i \in 1 .. n \/ i = n + 1
    BY <1>1
  <1>6. 1 .. n \subseteq 1 .. (n + 1) /\ n + 1 \in 1 .. (n + 1)
    BY <1>1
  <1> HIDE DEF w, x, n, K
  <1>7. DOMAIN y = {x[i][k] : i \in DOMAIN x}
    <2>1. DOMAIN y = DOMAIN v.index \cup {K}
      OBVIOUS
    <2> HIDE DEF y
    <2>2. \A q \in DOMAIN y : \E i \in DOMAIN x : x[i][k] = q
      BY <1>1, <1>4, <1>6, <2>1 DEF K
    <2>3. \A i \in DOMAIN x : x[i][k] \in DOMAIN y
      BY <1>1, <1>4, <1>5, <2>1 DEF K
    <2> QED
      BY <2>2, <2>3
  <1>8. \A i \in DOMAIN x : y[x[i][k]] = i
    BY <1>1, <1>2, <1>4, <1>5 DEF K
  <1>9. ToSet(x) = ToSet(v.items) \cup {item}
    BY <1>1, <1>4, <1>5, <1>6 DEF ToSet
  <1> HIDE DEF y
  <1>10. w.items = x /\ w.index = y /\ w.key = k
    BY <1>3
  <1> QED
    BY <1>3, <1>4, <1>7, <1>8, <1>9, <1>10 DEF Indexed, IndexAgrees, KeyOf, w

(* The item at a position is removed *)
RemovedAt(v, id, k) == RemoveItem(EraseKey(v, v.items[id][k]), id)

(* removeItem(): the last item takes the place of the removed one *)
LEMMA RemovalIsIndexed ==
    ASSUME NEW I, NEW k, NEW v, Indexed(v, I, k), NEW id \in 1 .. Len(v.items)
    PROVE  /\ Indexed(RemovedAt(v, id, k), I, k) /\ Len(RemovedAt(v, id, k).items) = Len(v.items) - 1
           /\ \A i \in 1 .. (Len(v.items) - 1) :
                 /\ i = id => RemovedAt(v, id, k).items[i] = v.items[Len(v.items)]
                 /\ i # id => RemovedAt(v, id, k).items[i] = v.items[i]
  <1> DEFINE n == Len(v.items)
             w == RemovedAt(v, id, k)
             K == v.items[id][k]
             L == v.items[n][k]
             from(i) == IF i = id THEN n ELSE i
             e == [q \in DOMAIN v.index \ {K} |-> v.index[q]]
             x == SubSeq([v.items EXCEPT ![id] = v.items[n]], 1, n - 1)
             y == IF id < n THEN [e EXCEPT ![L] = id] ELSE e
  <1>0. v = [items |-> v.items, index |-> v.index, key |-> k] /\ v.items \in Seq(I)
    BY DEF Indexed
  <1>1. /\ v = [items |-> v.items, index |-> v.index, key |-> k] /\ v.items \in Seq(I)
        /\ v.key = k /\ n \in Nat /\ DOMAIN v.items = 1 .. n
        /\ \A i \in 1 .. n : v.items[i][k] \in DOMAIN v.index /\ v.index[v.items[i][k]] = i
        /\ \A i, j \in 1 .. n : v.items[i][k] = v.items[j][k] => i = j
        /\ \A q \in DOMAIN v.index : \E i \in 1 .. n : v.items[i][k] = q
    BY <1>0, IndexFacts
  <1>2. n \in 1 .. n /\ n - 1 \in Nat /\ id \in 1 .. n /\ (~(id < n) <=> id = n)
    BY <1>1
  <1>3. EraseKey(v, K) = [items |-> v.items, index |-> e, key |-> k]
    <2>1. EraseKey(v, K) = [v EXCEPT !.index = e]
      BY DEF EraseKey, Restrict
    <2> HIDE DEF e, K
    <2> QED
      BY <1>1, <2>1
  <1>4. x \in Seq(I) /\ Len(x) = n - 1 /\ DOMAIN x = 1 .. (n - 1) /\ \A i \in 1 .. (n - 1) : x[i] = v.items[from(i)]
    <2> DEFINE moved == [v.items EXCEPT ![id] = v.items[n]]
    <2>1. moved \in Seq(I) /\ Len(moved) = n /\ \A i \in 1 .. n : moved[i] = v.items[from(i)]
      BY <1>1, <1>2
    <2> HIDE DEF moved, from
    <2>2. x = SubSeq(moved, 1, n - 1) /\ 1 .. (n - 1) \subseteq 1 .. n
      BY <1>2 DEF moved
    <2> HIDE DEF x
    <2> QED
      BY <1>2, <2>1, <2>2
  <1>5. w = [items |-> x, index |-> y, key |-> k]
    <2> DEFINE u == [items |-> v.items, index |-> e, key |-> k]
    <2>1. w = RemoveItem(u, id)
      BY <1>3 DEF RemovedAt
    <2>2. u.items = v.items /\ u.index = e /\ u.key = k
      OBVIOUS
    <2>3. CASE id < n
      <3>1. w = [u EXCEPT !.items = x, !.index = [e EXCEPT ![L] = id]]
        BY <2>1, <2>2, <2>3 DEF RemoveItem, Front, Last, KeyOf
      <3> HIDE DEF e, x, L
      <3> QED
        BY <2>3, <3>1
    <2>4. CASE ~(id < n)
      <3>1. w = [u EXCEPT !.items = SubSeq(v.items, 1, n - 1)]
        BY <2>1, <2>2, <2>4 DEF RemoveItem, Front
      <3>2. [v.items EXCEPT ![id] = v.items[n]] = v.items
        <4>1. id = n /\ v.items = [i \in 1 .. n |-> v.items[i]]
          BY <1>1, <1>2, <2>4
        <4> QED
          BY <1>1, <4>1
      <3>3. w = [u EXCEPT !.items = x]
        BY <3>1, <3>2
      <3> HIDE DEF e, x
      <3> QED
        BY <2>4, <3>3
    <2> QED
      BY <2>3, <2>4
  <1>6. \A i \in 1 .. (n - 1) : from(i) \in 1 .. n /\ from(i) # id
    BY <1>2
  <1>7. \A i \in 1 .. n : i # id => \E j \in 1 .. (n - 1) : from(j) = i
    <2> TAKE i \in 1 .. n
    <2>1. CASE i # id /\ i = n
      <3>1. id \in 1 .. (n - 1)
        BY <1>2, <2>1
      <3> QED
        BY <2>1, <3>1
    <2>2. CASE i # id /\ i # n
      <3>1. i \in 1 .. (n - 1)
        BY <1>2, <2>2
      <3> QED
        BY <2>2, <3>1
    <2> QED
      BY <2>1, <2>2
  <1>8. DOMAIN y = DOMAIN v.index \ {K}
    OBVIOUS
  <1> HIDE DEF x, w
  <1>9. DOMAIN y = {x[i][k] : i \in DOMAIN x}
    <2> HIDE DEF from, y, n
    <2>1. \A q \in DOMAIN y : \E i \in DOMAIN x : x[i][k] = q
      <3> TAKE q \in DOMAIN y
      <3>1. PICK i \in 1 .. n : v.items[i][k] = q
        BY <1>1, <1>8
      <3>2. i # id
        BY <1>8, <3>1
      <3>3. PICK j \in 1 .. (n - 1) : from(j) = i
        BY <1>7, <3>2
      <3> QED
        BY <1>4, <3>1, <3>3
    <2>2. \A i \in DOMAIN x : x[i][k] \in DOMAIN y
      <3> TAKE i \in DOMAIN x
      <3>1. from(i) \in 1 .. n /\ from(i) # id /\ x[i] = v.items[from(i)]
        BY <1>4, <1>6
      <3>2. v.items[from(i)][k] \in DOMAIN v.index /\ v.items[from(i)][k] # K
        BY <1>1, <1>2, <3>1
      <3> QED
        BY <1>8, <3>1, <3>2
    <2> QED
      BY <2>1, <2>2
  <1>10. \A i \in DOMAIN x : y[x[i][k]] = i
    <2> SUFFICES ASSUME NEW i \in 1 .. (n - 1) PROVE y[x[i][k]] = i
      BY <1>4
    <2>1. x[i][k] = v.items[from(i)][k] /\ x[i][k] \in DOMAIN v.index \ {K}
      BY <1>4, <1>8, <1>9
    <2>2. v.index[x[i][k]] = from(i)
      BY <1>1, <1>6, <2>1
    <2>3. CASE i = id
      <3>1. id < n /\ from(i) = n /\ x[i][k] = L
        BY <1>2, <2>1, <2>3
      <3>2. L \in DOMAIN e
        BY <2>1, <3>1
      <3> QED
        BY <2>3, <3>1, <3>2
    <2>4. CASE i # id
      <3>1. from(i) = i /\ i # n
        BY <1>2, <2>4
      <3>2. x[i][k] # L
        BY <1>1, <1>2, <2>2, <3>1
      <3> QED
        BY <2>1, <2>2, <3>1, <3>2
    <2> QED
      BY <2>3, <2>4
  <1> HIDE DEF y
  <1>11. w.items = x /\ w.index = y /\ w.key = k
    BY <1>5
  <1>12. IndexAgrees(w)
    BY <1>9, <1>10, <1>11 DEF IndexAgrees, KeyOf
  <1>13. Indexed(w, I, k)
    BY <1>4, <1>5, <1>11, <1>12 DEF Indexed
  <1> QED
    BY <1>4, <1>11, <1>13 DEF w

(* All the other items stay *)
LEMMA RemovalTakesOne ==
    ASSUME NEW I, NEW k, NEW v, Indexed(v, I, k), NEW id \in 1 .. Len(v.items)
    PROVE  ToSet(RemovedAt(v, id, k).items) = ToSet(v.items) \ {v.items[id]}
  <1> DEFINE n == Len(v.items)
             w == RemovedAt(v, id, k)
             from(i) == IF i = id THEN n ELSE i
  <1>1. /\ n \in Nat /\ DOMAIN v.items = 1 .. n
        /\ \A i, j \in 1 .. n : v.items[i][k] = v.items[j][k] => i = j
    BY IndexFacts
  <1>2. Indexed(w, I, k) /\ Len(w.items) = n - 1 /\ \A i \in 1 .. (n - 1) : w.items[i] = v.items[from(i)]
    <2>1. Indexed(w, I, k)
      BY RemovalIsIndexed
    <2>2. Len(w.items) = n - 1
      BY RemovalIsIndexed
    <2>3. \A i \in 1 .. (n - 1) : (i = id => w.items[i] = v.items[n]) /\ (i # id => w.items[i] = v.items[i])
      BY RemovalIsIndexed
    <2> HIDE DEF w, n
    <2> QED
      BY <2>1, <2>2, <2>3
  <1> HIDE DEF w
  <1>3. DOMAIN w.items = 1 .. (n - 1)
    BY <1>2, IndexFacts
  <1>4. id \in 1 .. n
    OBVIOUS
  <1> HIDE DEF n
  <1>5. \A i \in 1 .. (n - 1) : from(i) \in 1 .. n /\ from(i) # id
    BY <1>1, <1>4
  <1>6. \A i \in 1 .. n : i # id => \E j \in 1 .. (n - 1) : from(j) = i
    <2> TAKE i \in 1 .. n
    <2>1. CASE i # id /\ i = n
      <3>1. id \in 1 .. (n - 1)
        BY <1>1, <1>4, <2>1
      <3> QED
        BY <2>1, <3>1
    <2>2. CASE i # id /\ i # n
      <3>1. i \in 1 .. (n - 1)
        BY <1>1, <2>2
      <3> QED
        BY <2>2, <3>1
    <2> QED
      BY <2>1, <2>2
  <1> HIDE DEF from
  <1>7. \A i \in 1 .. n : v.items[i] = v.items[id] => i = id
    BY <1>1, <1>4
  <1>8. ToSet(w.items) = {v.items[from(i)] : i \in 1 .. (n - 1)}
    BY <1>2, <1>3 DEF ToSet
  <1>9. ToSet(v.items) = {v.items[i] : i \in 1 .. n}
    BY <1>1 DEF ToSet
  <1>10. ToSet(w.items) = ToSet(v.items) \ {v.items[id]}
    BY <1>5, <1>6, <1>7, <1>8, <1>9
  <1> QED
    BY <1>10 DEF w

(* remove() of one key *)
LEMMA RemoveKeyIsIndexed ==
    ASSUME NEW I, NEW k, NEW v, Indexed(v, I, k), NEW q, HasKey(v, q)
    PROVE  /\ Get(v, q) \in ToSet(v.items) /\ Get(v, q)[k] = q
           /\ Indexed(RemoveKey(v, q), I, k)
           /\ ToSet(RemoveKey(v, q).items) = ToSet(v.items) \ {Get(v, q)}
  <1>1. PICK id \in 1 .. Len(v.items) : v.items[id][k] = q
    BY IndexFacts DEF HasKey
  <1>2. v.index[q] = id /\ v.items[id] \in ToSet(v.items)
    BY <1>1, IndexFacts
  <1>3. Get(v, q) = v.items[id] /\ RemoveKey(v, q) = RemovedAt(v, id, k)
    BY <1>1, <1>2 DEF Get, RemoveKey, RemovedAt
  <1>4. Indexed(RemovedAt(v, id, k), I, k)
    BY RemovalIsIndexed
  <1>5. ToSet(RemovedAt(v, id, k).items) = ToSet(v.items) \ {v.items[id]}
    BY RemovalTakesOne
  <1> QED
    BY <1>1, <1>2, <1>3, <1>4, <1>5

(* The vector after each round of the loop that removes unwanted items, from the last one on *)
Removals(v, unwanted, last, n, f) ==
    f = [i \in 0 .. n |-> IF i = 0 THEN v ELSE WithoutUnwanted(f[i - 1], last - i + 1, unwanted)]

(* The loop of IndexedVector::remove by a predicate *)
LEMMA RemovalsExist ==
    ASSUME NEW v, NEW unwanted, NEW last, NEW n \in Nat PROVE \E f : Removals(v, unwanted, last, n, f)
  <1> DEFINE N == {m \in Nat : \E f : Removals(v, unwanted, last, m, f)}
  <1>1. 0 \in N
    <2> DEFINE f == [i \in 0 .. 0 |-> v]
    <2>1. f = [i \in 0 .. 0 |-> IF i = 0 THEN v ELSE WithoutUnwanted(f[i - 1], last - i + 1, unwanted)]
      OBVIOUS
    <2>2. Removals(v, unwanted, last, 0, f)
      BY <2>1 DEF Removals
    <2> QED
      BY <2>2
  <1>2. ASSUME NEW m \in 0 .. (n - 1), m \in N PROVE m + 1 \in N
    <2>1. PICK f : Removals(v, unwanted, last, m, f)
      BY <1>2
    <2> DEFINE g == [i \in 0 .. (m + 1) |-> IF i = 0 THEN v ELSE WithoutUnwanted(f[i - 1], last - i + 1, unwanted)]
    <2>2. \A i \in 0 .. m : g[i] = f[i]
      BY <2>1 DEF Removals
    <2>3. \A i \in 0 .. (m + 1) : i # 0 => i - 1 \in 0 .. m
      OBVIOUS
    <2>4. \A i \in 0 .. (m + 1) : g[i] = IF i = 0 THEN v ELSE WithoutUnwanted(g[i - 1], last - i + 1, unwanted)
      <3> TAKE i \in 0 .. (m + 1)
      <3>1. g[i] = IF i = 0 THEN v ELSE WithoutUnwanted(f[i - 1], last - i + 1, unwanted)
        OBVIOUS
      <3>2. i # 0 => g[i - 1] = f[i - 1]
        BY <2>2, <2>3
      <3> HIDE DEF g
      <3> QED
        BY <3>1, <3>2
    <2>5. g = [i \in 0 .. (m + 1) |-> g[i]]
      OBVIOUS
    <2> HIDE DEF g
    <2>6. Removals(v, unwanted, last, m + 1, g)
      BY <2>4, <2>5 DEF Removals
    <2>7. m + 1 \in Nat
      OBVIOUS
    <2> QED
      BY <2>6, <2>7
  <1>3. n \in N
    <2> HIDE DEF N
    <2>1. n \in 0 .. n
      OBVIOUS
    <2> QED
      BY <1>1, <1>2, <2>1, RoundsInduction
  <1> QED
    BY <1>3

(* RemoveIf is what its last round leaves *)
LEMMA RemovalsRounds ==
    ASSUME NEW v, NEW unwanted, Len(v.items) \in Nat
    PROVE  \E f : /\ RemoveIf(v, unwanted) = f[Len(v.items)]
                 /\ f[0] = v
                 /\ \A i \in 1 .. Len(v.items) : f[i] = WithoutUnwanted(f[i - 1], Len(v.items) - i + 1, unwanted)
  <1> DEFINE n == Len(v.items)
             Up(f) == f = [i \in 0 .. n |-> IF i = 0 THEN v ELSE WithoutUnwanted(f[i - 1], Len(v.items) - i + 1, unwanted)]
             f == CHOOSE f : Up(f)
  <1>1. n \in Nat
    OBVIOUS
  <1>2. \E g : Up(g)
    <2>1. PICK g : Removals(v, unwanted, Len(v.items), n, g)
      BY <1>1, RemovalsExist
    <2>2. Up(g)
      BY <2>1 DEF Removals
    <2> HIDE DEF Up
    <2> QED
      BY <2>2
  <1>3. Up(f)
    BY <1>2, Zenon
  <1>4. RemoveIf(v, unwanted) = f[n]
    BY DEF RemoveIf
  <1>5. f[0] = v /\ \A i \in 1 .. n : f[i] = WithoutUnwanted(f[i - 1], Len(v.items) - i + 1, unwanted)
    <2> HIDE DEF f
    <2>1. 0 \in 0 .. n /\ \A i \in 1 .. n : i \in 0 .. n /\ i # 0
      BY <1>1
    <2>2. ASSUME NEW i \in 0 .. n
          PROVE  f[i] = IF i = 0 THEN v ELSE WithoutUnwanted(f[i - 1], Len(v.items) - i + 1, unwanted)
      BY <1>3
    <2> HIDE DEF n, Up
    <2>3. f[0] = v
      BY <2>1, <2>2
    <2>4. ASSUME NEW i \in 1 .. n PROVE f[i] = WithoutUnwanted(f[i - 1], Len(v.items) - i + 1, unwanted)
      BY <2>1, <2>2
    <2> QED
      BY <2>3, <2>4
  <1> HIDE DEF f
  <1> QED
    BY <1>4, <1>5

(* In each round, the items in front are untouched, and those behind are wanted *)
RemovedWell(v, unwanted, I, k, w, rounds) ==
    /\ Indexed(w, I, k)
    /\ Len(w.items) >= Len(v.items) - rounds
    /\ \A i \in 1 .. Len(v.items) : i <= Len(v.items) - rounds => w.items[i] = v.items[i]
    /\ \A i \in 1 .. Len(w.items) : i > Len(v.items) - rounds => w.items[i] \notin unwanted
    /\ ToSet(w.items) \subseteq ToSet(v.items)
    /\ ToSet(v.items) \ unwanted \subseteq ToSet(w.items)

(* A round of the loop: an item stays, or the last one takes its place *)
LEMMA RemovedWellStep ==
    ASSUME NEW I, NEW k, NEW v, Indexed(v, I, k), NEW unwanted, NEW rounds \in 0 .. (Len(v.items) - 1),
           NEW w, RemovedWell(v, unwanted, I, k, w, rounds)
    PROVE  RemovedWell(v, unwanted, I, k,
                       WithoutUnwanted(w, Len(v.items) - (rounds + 1) + 1, unwanted), rounds + 1)
  <1> DEFINE n == Len(v.items)
             m == Len(w.items)
             id == n - rounds
             r == WithoutUnwanted(w, id, unwanted)
  <1>1. n \in Nat /\ m \in Nat /\ n - (rounds + 1) + 1 = id /\ id \in 1 .. n /\ id \in 1 .. m /\ id <= n - rounds
        /\ n - (rounds + 1) = id - 1
    <2>1. n \in Nat /\ m \in Nat /\ m >= n - rounds
      BY IndexFacts DEF RemovedWell
    <2> HIDE DEF n, m
    <2>2. rounds \in 0 .. (n - 1)
      BY DEF n
    <2> QED
      BY <2>1, <2>2
  <1>2. /\ Indexed(w, I, k) /\ w.key = k /\ w.items[id] = v.items[id]
        /\ ToSet(w.items) \subseteq ToSet(v.items) /\ ToSet(v.items) \ unwanted \subseteq ToSet(w.items)
    BY <1>1, IndexFacts DEF RemovedWell
  <1>3. \A i \in 1 .. n : i <= id => w.items[i] = v.items[i]
    BY DEF RemovedWell
  <1>4. \A i \in 1 .. m : i > id => w.items[i] \notin unwanted
    BY DEF RemovedWell
  <1>5. \A i \in 1 .. n : i <= id - 1 => i <= id /\ i # id
    BY <1>1
  <1>6. SUFFICES RemovedWell(v, unwanted, I, k, r, rounds + 1)
    BY <1>1
  <1>7. CASE w.items[id] \notin unwanted
    <2>1. r = w
      BY <1>7 DEF WithoutUnwanted
    <2>2. \A i \in 1 .. m : i > id - 1 => i > id \/ i = id
      BY <1>1
    <2>3. \A i \in 1 .. m : i > id - 1 => w.items[i] \notin unwanted
      BY <1>4, <1>7, <2>2
    <2>4. m >= id - 1
      BY <1>1
    <2>5. \A i \in 1 .. n : i <= id - 1 => w.items[i] = v.items[i]
      BY <1>3, <1>5
    <2> HIDE DEF id
    <2> QED
      BY <1>1, <1>2, <2>1, <2>3, <2>4, <2>5 DEF RemovedWell
  <1>8. CASE w.items[id] \in unwanted
    <2>1. r = RemovedAt(w, id, k)
      BY <1>2, <1>8 DEF WithoutUnwanted, KeyOf, RemovedAt
    <2>2. id \in 1 .. Len(w.items) /\ Indexed(w, I, k)
      BY <1>1, <1>2
    <2> HIDE DEF r, id, n
    <2>3. /\ Indexed(r, I, k) /\ Len(r.items) = m - 1
          /\ \A i \in 1 .. (m - 1) : (i = id => r.items[i] = w.items[m]) /\ (i # id => r.items[i] = w.items[i])
      BY <2>1, <2>2, RemovalIsIndexed
    <2>4. ToSet(r.items) = ToSet(w.items) \ {w.items[id]}
      <3> HIDE DEF m
      <3>1. ToSet(RemovedAt(w, id, k).items) = ToSet(w.items) \ {w.items[id]}
        BY <2>2, RemovalTakesOne
      <3> QED
        BY <2>1, <3>1
    <2> HIDE DEF m
    <2>5. m - 1 >= id - 1
      BY <1>1
    <2>6. \A i \in 1 .. n : i <= id - 1 => r.items[i] = v.items[i]
      <3> SUFFICES ASSUME NEW i \in 1 .. n, i <= id - 1 PROVE r.items[i] = v.items[i]
        OBVIOUS
      <3>1. i \in 1 .. (m - 1) /\ i # id /\ i <= id
        BY <1>1
      <3> QED
        BY <1>3, <2>3, <3>1
    <2>7. \A i \in 1 .. (m - 1) : i > id - 1 => r.items[i] \notin unwanted
      <3> SUFFICES ASSUME NEW i \in 1 .. (m - 1), i > id - 1 PROVE r.items[i] \notin unwanted
        OBVIOUS
      <3>1. CASE i = id
        <4>1. m > id /\ m \in 1 .. m
          BY <1>1, <3>1
        <4> QED
          BY <1>4, <2>3, <3>1, <4>1
      <3>2. CASE i # id
        <4>1. i > id /\ i \in 1 .. m
          BY <1>1, <3>2
        <4> QED
          BY <1>4, <2>3, <3>2, <4>1
      <3> QED
        BY <3>1, <3>2
    <2>8. ToSet(r.items) \subseteq ToSet(v.items) /\ ToSet(v.items) \ unwanted \subseteq ToSet(r.items)
      BY <1>2, <1>8, <2>4
    <2> QED
      BY <1>1, <2>3, <2>5, <2>6, <2>7, <2>8 DEF RemovedWell, n
  <1> QED
    BY <1>7, <1>8

(* remove() by a predicate removes what is unwanted, and nothing else *)
LEMMA RemoveIfIsIndexed ==
    ASSUME NEW I, NEW k, NEW v, Indexed(v, I, k), NEW unwanted
    PROVE  /\ Indexed(RemoveIf(v, unwanted), I, k)
           /\ ToSet(RemoveIf(v, unwanted).items) = ToSet(v.items) \ unwanted
  <1> DEFINE n == Len(v.items)
  <1>1. n \in Nat
    BY IndexFacts
  <1>2. PICK f : /\ RemoveIf(v, unwanted) = f[n] /\ f[0] = v
                 /\ \A i \in 1 .. n : f[i] = WithoutUnwanted(f[i - 1], n - i + 1, unwanted)
    BY <1>1, RemovalsRounds
  <1> DEFINE N == {i \in Nat : RemovedWell(v, unwanted, I, k, f[i], i)}
  <1>3. 0 \in N
    <2>1. n >= n - 0 /\ \A i \in 1 .. n : ~(i > n - 0)
      BY <1>1
    <2> QED
      BY <1>2, <2>1 DEF RemovedWell
  <1>4. ASSUME NEW i \in 0 .. (n - 1), i \in N PROVE i + 1 \in N
    <2>1. i + 1 \in 1 .. n /\ (i + 1) - 1 = i /\ i + 1 \in Nat
      BY <1>1
    <2>2. f[i + 1] = WithoutUnwanted(f[i], n - (i + 1) + 1, unwanted)
      BY <1>2, <2>1
    <2>3. RemovedWell(v, unwanted, I, k, f[i], i)
      BY <1>4
    <2>4. RemovedWell(v, unwanted, I, k, WithoutUnwanted(f[i], n - (i + 1) + 1, unwanted), i + 1)
      BY <2>3, RemovedWellStep
    <2> QED
      BY <2>1, <2>2, <2>4
  <1>5. n \in N
    <2> HIDE DEF N, n
    <2>1. n \in 0 .. n
      BY <1>1
    <2> QED
      BY <1>1, <1>3, <1>4, <2>1, RoundsInduction
  <1> DEFINE w == f[n]
  <1>6. RemovedWell(v, unwanted, I, k, w, n)
    BY <1>5
  <1> HIDE DEF w
  <1>7. Indexed(w, I, k) /\ ToSet(w.items) \subseteq ToSet(v.items) /\ ToSet(v.items) \ unwanted \subseteq ToSet(w.items)
    BY <1>6 DEF RemovedWell
  <1>8. \A i \in 1 .. Len(w.items) : w.items[i] \notin unwanted
    <2>1. \A i \in 1 .. Len(w.items) : i > n - n
      BY <1>1
    <2> QED
      BY <1>6, <2>1 DEF RemovedWell
  <1>9. \A x \in ToSet(w.items) : x \notin unwanted
    BY <1>7, <1>8, IndexFacts
  <1> QED
    BY <1>2, <1>7, <1>9 DEF w
-----------------------------------------------------------------------------
(* The messanger *)

Service == [nSessionId : Sessions, sName : Names]
Routed == [nServiceSessionId : Sessions, nServiceSeq : Nat, nClientSessionId : Sessions,
           nClientSeq : Requests, left : Int]
Refusals == {"NO_SUCH_SERVICE", "REQUEST_TIMEOUT_TOO_LONG", "SESSIONS_LIMIT_REACHED"}
Statuses == Refusals \cup {"UNKNOWN_ERROR", "ROUTED", "RESPONSE", "CLOSED"}
Services == ToSet(m_services.items)
Transactions == ToSet(m_transactions.items)
Reported == {r \in Requests : reports[r] # <<>>}

(* A session has one service at most; it is open, or the service was registered too late *)
ServicesInv ==
    /\ session \in [Sessions -> {"open", "closed"}]
    /\ Indexed(m_services, Service, "sName")
    /\ \A x, y \in Services : x.nSessionId = y.nSessionId => x = y
    /\ \A x \in Services : session[x.nSessionId] = "open" \/ x.sName \in orphans

(* A transaction belongs to one request, which was routed and has no answer yet; a request
   that waits to be handled has no report yet, and does not wait twice *)
TransactionsInv ==
    /\ Indexed(m_transactions, Routed, "nServiceSeq")
    /\ reports \in [Requests -> Seq(Statuses)]
    /\ \A t \in Transactions : t.nServiceSeq < m_nNextSeq /\ reports[t.nClientSeq] = <<"ROUTED">>
    /\ \A t, u \in Transactions : t.nClientSeq = u.nClientSeq => t = u
    /\ pending \subseteq Message
    /\ \A p \in pending : p.type = "request" =>
          /\ reports[p.seq] = <<>>
          /\ \A q \in pending : q.type = "request" /\ q.seq = p.seq => q = p
    /\ m_nNextSeq \in Nat \ {0} /\ m_nNextSeq <= Cardinality(Reported) + 1

MessangerInv == ServicesInv /\ TransactionsInv

(* There are no services and no requests at the start *)
LEMMA MessangerInit_Inv == MessangerInit => MessangerInv
  <1> SUFFICES ASSUME MessangerInit PROVE MessangerInv
    OBVIOUS
  <1>1. Indexed(m_services, Service, "sName") /\ Services = {}
    BY EmptyIsIndexed DEF MessangerInit, Services
  <1>2. Indexed(m_transactions, Routed, "nServiceSeq") /\ Transactions = {}
    BY EmptyIsIndexed DEF MessangerInit, Transactions
  <1>3. Reported = {} /\ reports \in [Requests -> Seq(Statuses)]
    BY DEF MessangerInit, Reported
  <1>4. Cardinality(Reported) = 0
    BY <1>3, FS_EmptySet
  <1>5. ServicesInv
    BY <1>1 DEF MessangerInit, ServicesInv
  <1>6. m_nNextSeq \in Nat \ {0} /\ m_nNextSeq <= Cardinality(Reported) + 1
    BY <1>4 DEF MessangerInit
  <1>7. TransactionsInv
    BY <1>2, <1>3, <1>6 DEF MessangerInit, TransactionsInv
  <1> QED
    BY <1>5, <1>7 DEF MessangerInv

(* The kinds of messages and their fields *)
LEMMA MessageFields ==
    ASSUME NEW m \in Message
    PROVE  /\ m.from \in Sessions
           /\ m.type = "open_service" => m.name \in Names /\ m.force \in BOOLEAN
           /\ m.type = "request" => m.name \in Names /\ m.seq \in Requests /\ m.timeout \in Timeouts
           /\ m.type \in {"open_service", "request", "response"}
  BY DEF Message

(* onSessionClosed: the services of the session go away, and no others *)
LEMMA SessionClosedKeeps ==
    ASSUME MessangerInv, NEW s \in Sessions, OnSessionClosed(s) PROVE MessangerInv'
  <1>1. /\ session' = [session EXCEPT ![s] = "closed"] /\ m_services' = RemoveIf(m_services, ServicesOf(s))
        /\ UNCHANGED <<mphase, pending, m_transactions, m_nNextSeq, reports, orphans>>
    BY DEF OnSessionClosed, WithoutServicesOf
  <1>2. Indexed(m_services', Service, "sName") /\ Services' = Services \ ServicesOf(s)
    <2>1. Indexed(m_services, Service, "sName")
      BY DEF MessangerInv, ServicesInv
    <2> QED
      BY <1>1, <2>1, RemoveIfIsIndexed DEF Services
  <1>3. Services \subseteq Service
    BY IndexFacts DEF MessangerInv, ServicesInv, Services
  <1>4. \A x \in Service : x.nSessionId = s => x \in ServicesOf(s)
    BY DEF Service, ServicesOf
  <1>5. \A x \in Services' : x \in Services /\ x.nSessionId \in Sessions /\ x.nSessionId # s
    BY <1>2, <1>3, <1>4 DEF Service
  <1>6. session' \in [Sessions -> {"open", "closed"}] /\ \A x \in Sessions : x # s => session'[x] = session[x]
    BY <1>1 DEF MessangerInv, ServicesInv
  <1>7. ServicesInv'
    <2> HIDE DEF Services
    <2> QED
      BY <1>1, <1>2, <1>5, <1>6 DEF MessangerInv, ServicesInv
  <1>8. TransactionsInv'
    BY <1>1 DEF MessangerInv, TransactionsInv, Transactions, Reported
  <1> QED
    BY <1>7, <1>8 DEF MessangerInv

(* A message that arrives is buffered *)
LEMMA MessageReceivedKeeps ==
    ASSUME MessangerInv, NEW m \in Message, OnMessageReceived(m) PROVE MessangerInv'
  <1>1. /\ pending' = pending \cup {m}
        /\ m.type = "request" =>
              reports[m.seq] = <<>> /\ \A p \in pending : p.type = "request" => p.seq # m.seq
        /\ UNCHANGED <<mphase, session, m_services, m_transactions, m_nNextSeq, reports, orphans>>
    BY DEF OnMessageReceived
  <1>2. ServicesInv'
    BY <1>1 DEF MessangerInv, ServicesInv, Services
  <1>3. Transactions' = Transactions /\ Reported' = Reported
    BY <1>1 DEF Transactions, Reported
  <1>4. TransactionsInv'
    <2> HIDE DEF Transactions, Reported
    <2> QED
      BY <1>1, <1>3 DEF MessangerInv, TransactionsInv
  <1> QED
    BY <1>2, <1>4 DEF MessangerInv

(* openService: the service it replaces goes away together with its session *)
LEMMA OpenServiceKeeps ==
    ASSUME MessangerInv, NEW m \in Message, OpenService(m) PROVE ServicesInv'
  <1> DEFINE replaced == HasKey(m_services, m.name)
             old      == Get(m_services, m.name)
             left     == IF replaced THEN RemoveKey(m_services, m.name) ELSE m_services
             closed   == IF replaced THEN {old.nSessionId} ELSE {}
             Left     == ToSet(left.items)
  <1>1. m.type = "open_service" /\ m.name \in Names /\ m.from \in Sessions
    BY MessageFields DEF OpenService
  <1>2. Indexed(m_services, Service, "sName") /\ Services \subseteq Service
        /\ session \in [Sessions -> {"open", "closed"}]
    BY IndexFacts DEF MessangerInv, ServicesInv, Services
  <1>3. CASE UNCHANGED <<session, m_services, orphans>>
    BY <1>3 DEF MessangerInv, ServicesInv, Services
  <1>4. CASE ~UNCHANGED <<session, m_services, orphans>>
    <2>1. /\ session' = [s \in Sessions |-> IF s \in closed THEN "closed" ELSE session[s]]
          /\ \/ m_services' = left /\ orphans' = orphans \ {m.name}
             \/ /\ ~Busy(left, m.from)
                /\ m_services' = Push(left, [nSessionId |-> m.from, sName |-> m.name])
                /\ orphans' = IF session'[m.from] = "open" THEN orphans \ {m.name} ELSE orphans \cup {m.name}
      BY <1>4 DEF OpenService
    <2>2. session' \in [Sessions -> {"open", "closed"}]
          /\ \A s \in Sessions : s \notin closed => session'[s] = session[s]
      BY <1>2, <2>1
    <2>3. Indexed(left, Service, "sName") /\ Left \subseteq Services
      BY <1>2, RemoveKeyIsIndexed DEF Services
    <2>4. \A x \in Left : x.sName # m.name /\ x.nSessionId \notin closed
      <3>1. CASE ~replaced
        <4>1. Left = Services
          BY <3>1 DEF Services
        <4>2. \A x \in Services : HasKey(m_services, x.sName)
          <5>1. \A x \in Services : HasKey(m_services, x["sName"])
            BY <1>2, ItemsHaveKeys DEF Services
          <5> QED
            BY <1>2, <5>1 DEF Service
        <4> QED
          BY <3>1, <4>1, <4>2
      <3>2. CASE replaced
        <4>1. old \in Services /\ old.sName = m.name /\ Left = Services \ {old}
          BY <1>2, <3>2, RemoveKeyIsIndexed DEF Services
        <4>2. \A x, y \in Services : x.sName = y.sName => x = y
          <5>1. \A x, y \in Services : x["sName"] = y["sName"] => x = y
            BY <1>2, ItemsHaveKeys DEF Services
          <5> QED
            BY <1>2, <5>1 DEF Service
        <4>3. \A x, y \in Services : x.nSessionId = y.nSessionId => x = y
          BY DEF MessangerInv, ServicesInv
        <4>4. closed = {old.nSessionId}
          BY <3>2
        <4> HIDE DEF old, closed, Left, Services
        <4> QED
          BY <4>1, <4>2, <4>3, <4>4
      <3> QED
        BY <3>1, <3>2
    <2>5. \A x \in Left : x.nSessionId \in Sessions
      BY <1>2, <2>3 DEF Service
    <2>6. \A x \in Left : session'[x.nSessionId] = "open" \/ x.sName \in orphans \ {m.name}
      <3> HIDE DEF Left, closed
      <3> QED
        BY <2>2, <2>3, <2>4, <2>5 DEF MessangerInv, ServicesInv
    <2>7. \A x, y \in Left : x.nSessionId = y.nSessionId => x = y
      <3> HIDE DEF Left, closed
      <3> QED
        BY <2>3 DEF MessangerInv, ServicesInv
    <2> HIDE DEF left, closed, replaced, old
    <2>8. CASE m_services' = left /\ orphans' = orphans \ {m.name}
      <3>1. Services' = Left
        BY <2>8 DEF Services
      <3> HIDE DEF Left, Services
      <3> QED
        BY <2>2, <2>3, <2>6, <2>7, <2>8, <3>1 DEF ServicesInv
    <2>9. CASE /\ ~Busy(left, m.from)
               /\ m_services' = Push(left, [nSessionId |-> m.from, sName |-> m.name])
               /\ orphans' = IF session'[m.from] = "open" THEN orphans \ {m.name} ELSE orphans \cup {m.name}
      <3> DEFINE new == [nSessionId |-> m.from, sName |-> m.name]
      <3>1. new \in Service /\ new["sName"] = m.name /\ new.nSessionId = m.from /\ new.sName = m.name
        BY <1>1 DEF Service
      <3>2. ~HasKey(left, m.name)
        <4> SUFFICES ASSUME HasKey(left, m.name) PROVE FALSE
          OBVIOUS
        <4>1. Get(left, m.name) \in Left /\ Get(left, m.name)["sName"] = m.name
          BY <2>3, RemoveKeyIsIndexed
        <4> HIDE DEF Left
        <4> QED
          BY <2>4, <4>1
      <3>3. \A x \in Left : x.nSessionId # m.from
        <4> SUFFICES ASSUME NEW x \in Left, x.nSessionId = m.from PROVE FALSE
          OBVIOUS
        <4>1. PICK i \in 1 .. Len(left.items) : left.items[i] = x
          BY <2>3, IndexFacts
        <4>2. DOMAIN left.items = 1 .. Len(left.items)
          BY <2>3, IndexFacts
        <4>3. x \in ServicesOf(m.from)
          BY <1>2, <2>3 DEF Service, ServicesOf
        <4> QED
          BY <2>9, <4>1, <4>2, <4>3 DEF Busy, HasItem
      <3> HIDE DEF new
      <3>4. m_services' = Push(left, new)
        BY <2>9 DEF new
      <3>5. Indexed(m_services', Service, "sName") /\ Services' = Left \cup {new}
        BY <2>3, <3>1, <3>2, <3>4, PushIsIndexed DEF Services
      <3>6. session'[m.from] = "open" \/ m.name \in orphans'
        BY <2>9
      <3>7. orphans \ {m.name} \subseteq orphans'
        BY <2>9
      <3> HIDE DEF Left, Services
      <3> QED
        BY <2>2, <2>6, <2>7, <3>1, <3>3, <3>5, <3>6, <3>7 DEF ServicesInv
    <2> QED
      BY <2>1, <2>8, <2>9
  <1> QED
    BY <1>3, <1>4

(* A report on a request that had none *)
LEMMA OneReport ==
    ASSUME NEW said \in Statuses
    PROVE  Append(<<>>, said) = <<said>> /\ <<said>> \in Seq(Statuses) /\ <<said>> # <<>>
  <1>1. <<said>> \in Seq(Statuses) /\ Len(<<said>>) = 1 /\ <<said>>[1] = said
    OBVIOUS
  <1>2. <<>> \in Seq(Statuses) /\ Len(<<>>) = 0
    OBVIOUS
  <1>3. Append(<<>>, said) \in Seq(Statuses) /\ Len(Append(<<>>, said)) = 1 /\ Append(<<>>, said)[1] = said
    BY <1>2, AppendProperties
  <1>4. Append(<<>>, said) = <<said>>
    BY <1>1, <1>3, SeqEqual
  <1> QED
    BY <1>1, <1>2, <1>4

(* The first report on a request *)
LEMMA FirstReport ==
    ASSUME TransactionsInv, NEW r \in Requests, reports[r] = <<>>, NEW said \in Statuses, Report(r, said)
    PROVE  /\ reports' \in [Requests -> Seq(Statuses)] /\ reports'[r] = <<said>>
           /\ reports' = [reports EXCEPT ![r] = <<said>>]
           /\ \A x \in Requests : x # r => reports'[x] = reports[x]
           /\ Cardinality(Reported') = Cardinality(Reported) + 1 /\ Cardinality(Reported) \in Nat
  <1>1. Append(<<>>, said) = <<said>> /\ <<said>> \in Seq(Statuses) /\ <<said>> # <<>>
    BY OneReport
  <1>2. reports' = [reports EXCEPT ![r] = <<said>>]
    BY <1>1 DEF Report
  <1>3. reports \in [Requests -> Seq(Statuses)]
    BY DEF TransactionsInv
  <1>4. /\ reports' \in [Requests -> Seq(Statuses)] /\ reports'[r] = <<said>>
        /\ \A x \in Requests : x # r => reports'[x] = reports[x]
    BY <1>1, <1>2, <1>3
  <1>5. Reported' = Reported \cup {r} /\ r \notin Reported
    BY <1>1, <1>4 DEF Reported
  <1>6. IsFiniteSet(Reported)
    BY MessangerAssumption, FS_Subset DEF Reported
  <1> HIDE DEF Reported
  <1>7. Cardinality(Reported') = Cardinality(Reported) + 1
    BY <1>5, <1>6, FS_AddElement
  <1>8. Cardinality(Reported) \in Nat
    BY <1>6, FS_CardinalityType
  <1> QED
    BY <1>2, <1>4, <1>7, <1>8

(* What waits after a message has been handled *)
LEMMA FewerPending ==
    ASSUME TransactionsInv, NEW m \in pending, pending' = pending \ {m}
    PROVE  /\ pending' \subseteq Message /\ pending' \subseteq pending
           /\ \A p, q \in pending' : p.type = "request" /\ q.type = "request" /\ q.seq = p.seq => q = p
           /\ m.type = "request" => \A p \in pending' : p.type = "request" => p.seq # m.seq
  BY DEF TransactionsInv

(* The fields of a transaction *)
LEMMA TransactionsAreRouted ==
    ASSUME TransactionsInv
    PROVE  /\ Indexed(m_transactions, Routed, "nServiceSeq") /\ Transactions \subseteq Routed
           /\ \A t \in Transactions : t.nServiceSeq \in Nat /\ t.nClientSeq \in Requests
  <1>1. Indexed(m_transactions, Routed, "nServiceSeq") /\ Transactions \subseteq Routed
    BY IndexFacts DEF TransactionsInv, Transactions
  <1> QED
    BY <1>1 DEF Routed

(* A request is refused, or a service is there to take it *)
LEMMA RefusalFacts ==
    ASSUME NEW m
    PROVE  /\ Refusal(m) # "NONE" => Refusal(m) \in Refusals
           /\ Refusal(m) = "NONE" => HasKey(m_services, m.name)
  BY DEF Refusal, Refusals

(* onRequest: a report is sent, and what is routed gets a transaction with a new key *)
LEMMA OnRequestKeeps ==
    ASSUME MessangerInv, NEW m \in pending, pending' = pending \ {m}, OnRequest(m)
    PROVE  /\ TransactionsInv'
           /\ m.seq \in Requests /\ reports[m.seq] = <<>>
           /\ \E said \in Refusals \cup {"UNKNOWN_ERROR", "ROUTED"} :
                 reports' = [reports EXCEPT ![m.seq] = <<said>>]
  <1>1. /\ m.type = "request" /\ m \in Message /\ m.from \in Sessions /\ m.name \in Names
        /\ m.seq \in Requests /\ m.timeout \in Int
    <2>1. m \in Message /\ m.type = "request"
      BY DEF OnRequest, MessangerInv, TransactionsInv
    <2> QED
      <3>1. m.from \in Sessions /\ m.name \in Names /\ m.seq \in Requests /\ m.timeout \in Timeouts
        BY <2>1, MessageFields
      <3>2. Timeouts \subseteq Int
        BY MessangerAssumption
      <3> QED
        BY <2>1, <3>1, <3>2
  <1>2. TransactionsInv /\ ServicesInv /\ reports[m.seq] = <<>>
    BY <1>1 DEF MessangerInv, TransactionsInv
  <1>3. ASSUME NEW said \in Statuses, Report(m.seq, said)
        PROVE  /\ reports' \in [Requests -> Seq(Statuses)] /\ reports'[m.seq] = <<said>>
               /\ reports' = [reports EXCEPT ![m.seq] = <<said>>]
               /\ \A t \in Transactions : t.nServiceSeq < m_nNextSeq /\ t.nClientSeq # m.seq
                                          /\ reports'[t.nClientSeq] = <<"ROUTED">>
               /\ pending' \subseteq Message
               /\ \A p \in pending' : p.type = "request" =>
                     /\ reports'[p.seq] = <<>>
                     /\ \A q \in pending' : q.type = "request" /\ q.seq = p.seq => q = p
               /\ m_nNextSeq \in Nat \ {0} /\ m_nNextSeq + 1 <= Cardinality(Reported') + 1
               /\ m_nNextSeq <= Cardinality(Reported') + 1
    <2>1. /\ reports' \in [Requests -> Seq(Statuses)] /\ reports'[m.seq] = <<said>>
          /\ reports' = [reports EXCEPT ![m.seq] = <<said>>]
          /\ \A x \in Requests : x # m.seq => reports'[x] = reports[x]
          /\ Cardinality(Reported') = Cardinality(Reported) + 1 /\ Cardinality(Reported) \in Nat
      BY <1>1, <1>2, <1>3, FirstReport
    <2>2. \A t \in Transactions : t.nClientSeq \in Requests
      BY <1>2, TransactionsAreRouted
    <2>3. \A t \in Transactions : t.nServiceSeq < m_nNextSeq /\ reports[t.nClientSeq] = <<"ROUTED">>
      BY <1>2 DEF TransactionsInv
    <2>4. <<"ROUTED">> # <<>>
      OBVIOUS
    <2>5. \A t \in Transactions : t.nClientSeq # m.seq /\ reports'[t.nClientSeq] = <<"ROUTED">>
      <3> HIDE DEF Transactions
      <3> QED
        BY <1>2, <2>1, <2>2, <2>3, <2>4
    <2>6. /\ pending' \subseteq Message /\ pending' \subseteq pending
          /\ \A p, q \in pending' : p.type = "request" /\ q.type = "request" /\ q.seq = p.seq => q = p
          /\ \A p \in pending' : p.type = "request" => p.seq # m.seq
      BY <1>1, <1>2, FewerPending
    <2>7. \A p \in pending' : p.type = "request" => reports'[p.seq] = <<>>
      <3> SUFFICES ASSUME NEW p \in pending', p.type = "request" PROVE reports'[p.seq] = <<>>
        OBVIOUS
      <3>1. p.seq \in Requests /\ p.seq # m.seq /\ reports[p.seq] = <<>>
        BY <1>2, <2>6, MessageFields DEF TransactionsInv
      <3> QED
        BY <2>1, <3>1
    <2>8. m_nNextSeq \in Nat \ {0} /\ m_nNextSeq <= Cardinality(Reported) + 1
      BY <1>2 DEF TransactionsInv
    <2>9. m_nNextSeq + 1 <= Cardinality(Reported') + 1 /\ m_nNextSeq <= Cardinality(Reported') + 1
      <3> HIDE DEF Reported
      <3> QED
        BY <2>1, <2>8
    <2> HIDE DEF Transactions, Reported
    <2> QED
      BY <2>1, <2>3, <2>5, <2>6, <2>7, <2>8, <2>9
  <1>4. ASSUME NEW said \in Statuses, Report(m.seq, said), m_transactions' = m_transactions,
               m_nNextSeq' \in {m_nNextSeq, m_nNextSeq + 1}
        PROVE  TransactionsInv' /\ reports' = [reports EXCEPT ![m.seq] = <<said>>]
    <2>1. Transactions' = Transactions
      BY <1>4 DEF Transactions
    <2>2. m_nNextSeq' \in Nat \ {0} /\ m_nNextSeq' <= Cardinality(Reported') + 1
          /\ \A n \in Nat : n < m_nNextSeq => n < m_nNextSeq'
      <3>1. /\ m_nNextSeq \in Nat \ {0} /\ m_nNextSeq + 1 <= Cardinality(Reported') + 1
            /\ m_nNextSeq <= Cardinality(Reported') + 1
        BY <1>3, <1>4
      <3> QED
        BY <1>4, <3>1
    <2>3. \A t \in Transactions : t.nServiceSeq \in Nat
      BY <1>2, TransactionsAreRouted
    <2> HIDE DEF Transactions, Reported
    <2>4. \A t \in Transactions' : t.nServiceSeq < m_nNextSeq' /\ reports'[t.nClientSeq] = <<"ROUTED">>
      BY <1>3, <1>4, <2>1, <2>2, <2>3
    <2> QED
      BY <1>2, <1>3, <1>4, <2>1, <2>2, <2>4 DEF TransactionsInv
  <1>5. CASE Refusal(m) # "NONE"
    <2>1. Report(m.seq, Refusal(m)) /\ m_transactions' = m_transactions /\ m_nNextSeq' = m_nNextSeq
      BY <1>5 DEF OnRequest
    <2>2. Refusal(m) \in Refusals /\ Refusal(m) \in Statuses
      <3>1. Refusal(m) \in Refusals
        BY <1>5, RefusalFacts
      <3> QED
        BY <3>1 DEF Statuses
    <2>3. TransactionsInv' /\ reports' = [reports EXCEPT ![m.seq] = <<Refusal(m)>>]
      BY <1>4, <2>1, <2>2
    <2> QED
      BY <1>1, <1>2, <2>2, <2>3
  <1>6. CASE Refusal(m) = "NONE" /\ ~CanSend(Transaction(m).nServiceSessionId)
    <2>1. Report(m.seq, "UNKNOWN_ERROR") /\ m_transactions' = m_transactions /\ m_nNextSeq' = m_nNextSeq + 1
      BY <1>6 DEF OnRequest
    <2>2. TransactionsInv' /\ reports' = [reports EXCEPT ![m.seq] = <<"UNKNOWN_ERROR">>]
      <3>1. "UNKNOWN_ERROR" \in Statuses /\ m_nNextSeq' \in {m_nNextSeq, m_nNextSeq + 1}
        BY <2>1 DEF Statuses
      <3> QED
        BY <1>4, <2>1, <3>1, Zenon
    <2> QED
      BY <1>1, <1>2, <2>2
  <1>7. CASE Refusal(m) = "NONE" /\ CanSend(Transaction(m).nServiceSessionId)
    <2> DEFINE t == Transaction(m)
    <2>1. /\ Report(m.seq, "ROUTED") /\ m_transactions' = Push(m_transactions, t)
          /\ m_nNextSeq' = m_nNextSeq + 1
      BY <1>7 DEF OnRequest
    <2>2. /\ reports' \in [Requests -> Seq(Statuses)] /\ reports'[m.seq] = <<"ROUTED">>
          /\ reports' = [reports EXCEPT ![m.seq] = <<"ROUTED">>]
          /\ \A u \in Transactions : u.nServiceSeq < m_nNextSeq /\ u.nClientSeq # m.seq
                                     /\ reports'[u.nClientSeq] = <<"ROUTED">>
          /\ pending' \subseteq Message
          /\ \A p \in pending' : p.type = "request" =>
                /\ reports'[p.seq] = <<>>
                /\ \A q \in pending' : q.type = "request" /\ q.seq = p.seq => q = p
          /\ m_nNextSeq \in Nat \ {0} /\ m_nNextSeq + 1 <= Cardinality(Reported') + 1
      <3>1. "ROUTED" \in Statuses
        BY DEF Statuses
      <3> QED
        BY <1>3, <2>1, <3>1, Zenon
    <2>3. Get(m_services, m.name) \in Services /\ Get(m_services, m.name).nSessionId \in Sessions
      <3>1. HasKey(m_services, m.name) /\ Indexed(m_services, Service, "sName")
        BY <1>2, <1>7, RefusalFacts DEF ServicesInv
      <3>2. Get(m_services, m.name) \in Services
        BY <3>1, RemoveKeyIsIndexed DEF Services
      <3>3. Services \subseteq Service
        BY <3>1, IndexFacts DEF Services
      <3> QED
        BY <3>2, <3>3 DEF Service
    <2>4. t \in Routed /\ t.nServiceSeq = m_nNextSeq /\ t["nServiceSeq"] = m_nNextSeq /\ t.nClientSeq = m.seq
      BY <1>1, <2>2, <2>3 DEF Transaction, Routed
    <2> HIDE DEF t
    <2>5. Indexed(m_transactions, Routed, "nServiceSeq") /\ Transactions \subseteq Routed
      BY <1>2, IndexFacts DEF TransactionsInv, Transactions
    <2>6. ~HasKey(m_transactions, m_nNextSeq)
      <3> SUFFICES ASSUME HasKey(m_transactions, m_nNextSeq) PROVE FALSE
        OBVIOUS
      <3> DEFINE u == Get(m_transactions, m_nNextSeq)
      <3>1. u \in Transactions /\ u["nServiceSeq"] = m_nNextSeq
        BY <2>5, RemoveKeyIsIndexed DEF Transactions
      <3> HIDE DEF u, Transactions
      <3>2. u \in Routed /\ u.nServiceSeq = m_nNextSeq
        BY <2>5, <3>1 DEF Routed
      <3>3. m_nNextSeq < m_nNextSeq
        BY <2>2, <3>1, <3>2
      <3> QED
        BY <2>2, <3>3
    <2>7. Indexed(m_transactions', Routed, "nServiceSeq") /\ Transactions' = Transactions \cup {t}
      BY <2>1, <2>4, <2>5, <2>6, PushIsIndexed DEF Transactions
    <2> HIDE DEF Transactions, Reported
    <2>8. m_nNextSeq' \in Nat \ {0} /\ m_nNextSeq' <= Cardinality(Reported') + 1
          /\ \A n \in Nat : n <= m_nNextSeq => n < m_nNextSeq'
      BY <2>1, <2>2
    <2>9. \A u \in Transactions' : u.nServiceSeq < m_nNextSeq' /\ reports'[u.nClientSeq] = <<"ROUTED">>
      <3> SUFFICES ASSUME NEW u \in Transactions'
                   PROVE  u.nServiceSeq < m_nNextSeq' /\ reports'[u.nClientSeq] = <<"ROUTED">>
        OBVIOUS
      <3>1. CASE u = t
        <4>1. m_nNextSeq \in Nat /\ m_nNextSeq <= m_nNextSeq
          BY <2>2
        <4> QED
          BY <2>2, <2>4, <2>8, <3>1, <4>1
      <3>2. CASE u \in Transactions
        <4>1. u.nServiceSeq \in Nat /\ u.nServiceSeq < m_nNextSeq /\ reports'[u.nClientSeq] = <<"ROUTED">>
          BY <2>2, <2>5, <3>2 DEF Routed
        <4> QED
          BY <2>2, <2>8, <4>1
      <3> QED
        BY <2>7, <3>1, <3>2
    <2>10. \A u, x \in Transactions' : u.nClientSeq = x.nClientSeq => u = x
      BY <1>2, <2>2, <2>4, <2>7 DEF TransactionsInv
    <2>11. TransactionsInv'
      BY <2>2, <2>7, <2>8, <2>9, <2>10 DEF TransactionsInv
    <2> QED
      BY <1>1, <1>2, <2>2, <2>11
  <1> QED
    BY <1>5, <1>6, <1>7

(* A report on a request that was routed *)
LEMMA SecondReport ==
    ASSUME NEW said \in Statuses
    PROVE  /\ Append(<<"ROUTED">>, said) \in Seq(Statuses) /\ Append(<<"ROUTED">>, said) # <<>>
           /\ <<"ROUTED">> # <<>>
  <1>1. <<"ROUTED">> \in Seq(Statuses) /\ <<"ROUTED">> # <<>>
    BY OneReport DEF Statuses
  <1> QED
    BY <1>1, AppendProperties

(* Requests that were routed are answered and their transactions are removed, which
   disturbs no other request *)
LEMMA AnswerKeeps ==
    ASSUME TransactionsInv, NEW closed \in SUBSET Transactions, NEW said \in Statuses,
           reports' = [r \in Requests |-> IF r \in {t.nClientSeq : t \in closed}
                                          THEN Append(reports[r], said) ELSE reports[r]],
           pending' \subseteq pending, m_nNextSeq' = m_nNextSeq,
           Indexed(m_transactions', Routed, "nServiceSeq"),
           \A x \in Transactions' : \E t \in Transactions \ closed :
                 x.nClientSeq = t.nClientSeq /\ x.nServiceSeq = t.nServiceSeq,
           \A x, y \in Transactions' : x.nClientSeq = y.nClientSeq => x = y
    PROVE  TransactionsInv' /\ \A t \in closed : t.nClientSeq \in Requests /\ reports[t.nClientSeq] = <<"ROUTED">>
  <1> DEFINE R == {t.nClientSeq : t \in closed}
  <1>1. \A t \in Transactions : /\ t.nServiceSeq \in Nat /\ t.nClientSeq \in Requests
                                /\ t.nServiceSeq < m_nNextSeq /\ reports[t.nClientSeq] = <<"ROUTED">>
    BY TransactionsAreRouted DEF TransactionsInv
  <1>2. \A r \in R : r \in Requests /\ reports[r] = <<"ROUTED">>
    BY <1>1
  <1>3. \A t \in Transactions \ closed : t.nClientSeq \notin R
    BY DEF TransactionsInv
  <1>4. reports' = [r \in Requests |-> IF r \in R THEN Append(reports[r], said) ELSE reports[r]]
    OBVIOUS
  <1> HIDE DEF R
  <1>5. \A r \in R : reports'[r] \in Seq(Statuses) /\ reports'[r] # <<>> /\ reports[r] # <<>>
    <2> TAKE r \in R
    <2>1. reports'[r] = Append(<<"ROUTED">>, said) /\ reports[r] = <<"ROUTED">>
      BY <1>2, <1>4
    <2> QED
      BY <2>1, SecondReport
  <1>6. \A r \in Requests \ R : reports'[r] = reports[r]
    BY <1>4
  <1>7. reports' \in [Requests -> Seq(Statuses)]
    <2>1. reports \in [Requests -> Seq(Statuses)]
      BY DEF TransactionsInv
    <2>2. \A r \in Requests : reports'[r] \in Seq(Statuses)
      BY <1>5, <1>6, <2>1
    <2>3. reports' = [r \in Requests |-> reports'[r]]
      BY <1>4
    <2> QED
      BY <2>2, <2>3
  <1>8. Reported' = Reported
    BY <1>5, <1>6 DEF Reported
  <1>9. \A x \in Transactions' : x.nServiceSeq < m_nNextSeq' /\ reports'[x.nClientSeq] = <<"ROUTED">>
    <2> TAKE x \in Transactions'
    <2>1. PICK t \in Transactions \ closed : x.nClientSeq = t.nClientSeq /\ x.nServiceSeq = t.nServiceSeq
      OBVIOUS
    <2> QED
      BY <1>1, <1>3, <1>6, <2>1
  <1>10. \A p \in pending' : p.type = "request" => reports'[p.seq] = <<>>
    <2> SUFFICES ASSUME NEW p \in pending', p.type = "request" PROVE reports'[p.seq] = <<>>
      OBVIOUS
    <2>1. p \in Message /\ reports[p.seq] = <<>>
      BY DEF TransactionsInv
    <2>2. p.seq \in Requests
      BY <2>1, MessageFields
    <2> QED
      BY <1>5, <1>6, <2>1, <2>2
  <1>11. TransactionsInv'
    BY <1>7, <1>8, <1>9, <1>10 DEF TransactionsInv
  <1> QED
    BY <1>1, <1>11

(* onResponse *)
LEMMA OnResponseKeeps ==
    ASSUME MessangerInv, NEW m \in pending, pending' = pending \ {m}, OnResponse(m)
    PROVE  /\ TransactionsInv'
           /\ \/ reports' = reports
              \/ \E r \in Requests :
                    /\ reports[r] = <<"ROUTED">>
                    /\ reports' = [x \in Requests |-> IF x \in {r} THEN Append(reports[x], "RESPONSE") ELSE reports[x]]
  <1>1. TransactionsInv /\ m_nNextSeq' = m_nNextSeq /\ reports \in [Requests -> Seq(Statuses)]
    BY DEF MessangerInv, TransactionsInv, OnResponse
  <1>2. CASE ~HasKey(m_transactions, m.seq)
    <2>1. UNCHANGED <<m_transactions, reports>>
      BY <1>2 DEF OnResponse
    <2>2. Transactions' = Transactions /\ Reported' = Reported
      BY <2>1 DEF Transactions, Reported
    <2> QED
      BY <1>1, <2>1, <2>2 DEF TransactionsInv
  <1>3. CASE HasKey(m_transactions, m.seq)
    <2> DEFINE t == Get(m_transactions, m.seq)
    <2>1. reports' = [reports EXCEPT ![t.nClientSeq] = Append(reports[t.nClientSeq], "RESPONSE")]
          /\ m_transactions' = RemoveKey(m_transactions, m.seq)
      BY <1>3 DEF OnResponse, Report
    <2>2. /\ t \in Transactions /\ Indexed(m_transactions', Routed, "nServiceSeq")
          /\ Transactions' = Transactions \ {t}
      <3>1. Indexed(m_transactions, Routed, "nServiceSeq")
        BY <1>1 DEF TransactionsInv
      <3>2. /\ t \in ToSet(m_transactions.items)
            /\ Indexed(RemoveKey(m_transactions, m.seq), Routed, "nServiceSeq")
            /\ ToSet(RemoveKey(m_transactions, m.seq).items) = ToSet(m_transactions.items) \ {t}
        BY <1>3, <3>1, RemoveKeyIsIndexed
      <3> HIDE DEF t
      <3> QED
        BY <2>1, <3>2 DEF Transactions
    <2> HIDE DEF t
    <2>3. t.nClientSeq \in Requests /\ reports[t.nClientSeq] = <<"ROUTED">>
      BY <1>1, <2>2, TransactionsAreRouted DEF TransactionsInv
    <2>4. reports' = [x \in Requests |-> IF x \in {t.nClientSeq} THEN Append(reports[x], "RESPONSE") ELSE reports[x]]
      BY <1>1, <2>1, <2>3
    <2>5. {u.nClientSeq : u \in {t}} = {t.nClientSeq} /\ {t} \in SUBSET Transactions /\ "RESPONSE" \in Statuses
      BY <2>2 DEF Statuses
    <2>6. /\ \A x \in Transactions' : \E u \in Transactions \ {t} :
                x.nClientSeq = u.nClientSeq /\ x.nServiceSeq = u.nServiceSeq
          /\ \A x, y \in Transactions' : x.nClientSeq = y.nClientSeq => x = y
      BY <1>1, <2>2 DEF TransactionsInv
    <2>7. TransactionsInv'
      <3> DEFINE closed == {t}
      <3>1. /\ closed \in SUBSET Transactions /\ pending' \subseteq pending
            /\ reports' = [r \in Requests |-> IF r \in {u.nClientSeq : u \in closed}
                                              THEN Append(reports[r], "RESPONSE") ELSE reports[r]]
            /\ \A x \in Transactions' : \E u \in Transactions \ closed :
                  x.nClientSeq = u.nClientSeq /\ x.nServiceSeq = u.nServiceSeq
        BY <2>4, <2>5, <2>6
      <3> HIDE DEF closed
      <3> QED
        <4>1. TransactionsInv /\ m_nNextSeq' = m_nNextSeq /\ "RESPONSE" \in Statuses
          BY <1>1, <2>1, <2>5
        <4>2. /\ Indexed(m_transactions', Routed, "nServiceSeq")
              /\ \A x, y \in Transactions' : x.nClientSeq = y.nClientSeq => x = y
          BY <2>2, <2>6
        <4> QED
          BY <3>1, <4>1, <4>2, AnswerKeeps
    <2> QED
      BY <2>3, <2>4, <2>7
  <1> QED
    BY <1>2, <1>3

(* The time until the deadline passes *)
LEMMA AgedIsIndexed ==
    ASSUME NEW v, Indexed(v, Routed, "nServiceSeq")
    PROVE  /\ Indexed(Aged(v), Routed, "nServiceSeq")
           /\ \A x \in ToSet(Aged(v).items) : \E t \in ToSet(v.items) : x = [t EXCEPT !.left = t.left - 1]
  <1> DEFINE n == Len(v.items)
             x == [i \in 1 .. n |-> [v.items[i] EXCEPT !.left = v.items[i].left - 1]]
             w == Aged(v)
  <1>1. /\ v = [items |-> v.items, index |-> v.index, key |-> "nServiceSeq"]
        /\ v.key = "nServiceSeq" /\ n \in Nat /\ DOMAIN v.items = 1 .. n
        /\ \A i \in 1 .. n : v.items[i] \in Routed /\ v.items[i] \in ToSet(v.items)
    <2>1. v = [items |-> v.items, index |-> v.index, key |-> "nServiceSeq"]
      BY DEF Indexed
    <2> QED
      BY <2>1, IndexFacts
  <1>2. w = [items |-> x, index |-> v.index, key |-> "nServiceSeq"]
    <2>1. w = [v EXCEPT !.items = x]
      BY <1>1 DEF Aged
    <2> HIDE DEF x, w
    <2> QED
      BY <1>1, <2>1
  <1>3. \A i \in 1 .. n : x[i] \in Routed /\ x[i]["nServiceSeq"] = v.items[i]["nServiceSeq"]
    BY <1>1 DEF Routed
  <1>4. DOMAIN x = 1 .. n /\ \A i \in 1 .. n : x[i] = [v.items[i] EXCEPT !.left = v.items[i].left - 1]
    OBVIOUS
  <1>5. x \in Seq(Routed)
    <2>1. x \in [1 .. n -> Routed]
      BY <1>3
    <2> HIDE DEF x
    <2> QED
      BY <1>1, <2>1
  <1> HIDE DEF x, w
  <1>6. w.items = x /\ w.index = v.index /\ w.key = "nServiceSeq"
    BY <1>2
  <1>7. IndexAgrees(v)
    BY DEF Indexed
  <1>8. IndexAgrees(w)
    <2>1. /\ DOMAIN v.index = {v.items[i]["nServiceSeq"] : i \in 1 .. n}
          /\ \A i \in 1 .. n : v.index[v.items[i]["nServiceSeq"]] = i
      BY <1>1, <1>7 DEF IndexAgrees, KeyOf
    <2>2. {v.items[i]["nServiceSeq"] : i \in 1 .. n} = {x[i]["nServiceSeq"] : i \in 1 .. n}
      BY <1>3
    <2> HIDE DEF n
    <2>3. \A i \in 1 .. n : v.index[x[i]["nServiceSeq"]] = i
      BY <1>3, <2>1
    <2>4. DOMAIN w.index = {x[i]["nServiceSeq"] : i \in DOMAIN x} /\ \A i \in DOMAIN x : w.index[x[i]["nServiceSeq"]] = i
      BY <1>4, <1>6, <2>1, <2>2, <2>3
    <2> QED
      BY <1>6, <2>4 DEF IndexAgrees, KeyOf
  <1>9. \A y \in ToSet(x) : \E t \in ToSet(v.items) : y = [t EXCEPT !.left = t.left - 1]
    BY <1>1, <1>4 DEF ToSet
  <1>10. Indexed(w, Routed, "nServiceSeq")
    BY <1>2, <1>5, <1>6, <1>8 DEF Indexed
  <1> QED
    BY <1>6, <1>9, <1>10 DEF w

(* proceed(): what is overdue is closed *)
LEMMA ProceedKeeps ==
    ASSUME MessangerInv, Proceed
    PROVE  /\ TransactionsInv'
           /\ \E S \in SUBSET Requests :
                 /\ \A r \in S : reports[r] = <<"ROUTED">>
                 /\ reports' = [x \in Requests |-> IF x \in S THEN Append(reports[x], "CLOSED") ELSE reports[x]]
  <1> DEFINE S == {t.nClientSeq : t \in Expired}
             v == RemoveIf(m_transactions, Expired)
  <1>1. /\ m_transactions' = Aged(v) /\ m_nNextSeq' = m_nNextSeq /\ pending' = pending
        /\ reports' = [r \in Requests |-> IF r \in S THEN Append(reports[r], "CLOSED") ELSE reports[r]]
    BY DEF Proceed
  <1>2. TransactionsInv /\ Expired \in SUBSET Transactions /\ "CLOSED" \in Statuses
    BY DEF MessangerInv, Expired, Transactions, Statuses
  <1>3. Indexed(v, Routed, "nServiceSeq") /\ ToSet(v.items) = Transactions \ Expired
    BY <1>2, RemoveIfIsIndexed DEF TransactionsInv, Transactions
  <1> HIDE DEF v
  <1>4. /\ Indexed(m_transactions', Routed, "nServiceSeq")
        /\ \A x \in Transactions' : \E t \in Transactions \ Expired : x = [t EXCEPT !.left = t.left - 1]
    BY <1>1, <1>3, AgedIsIndexed DEF Transactions
  <1>5. Transactions \subseteq Routed
    BY <1>2, TransactionsAreRouted
  <1>6. \A t \in Routed : /\ [t EXCEPT !.left = t.left - 1].nClientSeq = t.nClientSeq
                          /\ [t EXCEPT !.left = t.left - 1].nServiceSeq = t.nServiceSeq
    BY DEF Routed
  <1>7. \A x \in Transactions' : \E t \in Transactions \ Expired :
              x.nClientSeq = t.nClientSeq /\ x.nServiceSeq = t.nServiceSeq
    <2> TAKE x \in Transactions'
    <2>1. PICK t \in Transactions \ Expired : x = [t EXCEPT !.left = t.left - 1]
      BY <1>4
    <2>2. t \in Routed
      BY <1>5
    <2>3. x.nClientSeq = t.nClientSeq /\ x.nServiceSeq = t.nServiceSeq
      BY <1>6, <2>1, <2>2
    <2> WITNESS t \in Transactions \ Expired
    <2> QED
      BY <2>3
  <1>8. \A x, y \in Transactions' : x.nClientSeq = y.nClientSeq => x = y
    <2> SUFFICES ASSUME NEW x \in Transactions', NEW y \in Transactions', x.nClientSeq = y.nClientSeq PROVE x = y
      OBVIOUS
    <2>1. PICK t \in Transactions \ Expired : x = [t EXCEPT !.left = t.left - 1]
      BY <1>4
    <2>2. PICK u \in Transactions \ Expired : y = [u EXCEPT !.left = u.left - 1]
      BY <1>4
    <2>3. t.nClientSeq = u.nClientSeq
      BY <1>5, <1>6, <2>1, <2>2
    <2>4. t = u
      BY <1>2, <2>3 DEF TransactionsInv
    <2> QED
      BY <2>1, <2>2, <2>4
  <1>9. TransactionsInv' /\ \A t \in Expired : t.nClientSeq \in Requests /\ reports[t.nClientSeq] = <<"ROUTED">>
    BY <1>1, <1>2, <1>4, <1>7, <1>8, AnswerKeeps
  <1>10. S \in SUBSET Requests /\ \A r \in S : reports[r] = <<"ROUTED">>
    BY <1>9
  <1> QED
    BY <1>1, <1>9, <1>10

(* Every action of the messanger keeps to it, and is a step that was promised or none *)
LEMMA MessangerStep ==
    MessangerInv /\ [MessangerNext]_messangerVars => MessangerInv' /\ [Promise!Next]_reports
  <1> SUFFICES ASSUME MessangerInv, [MessangerNext]_messangerVars
               PROVE  MessangerInv' /\ [Promise!Next]_reports
    OBVIOUS
  <1>1. ASSUME NEW s \in Sessions, OnSessionClosed(s) PROVE MessangerInv' /\ [Promise!Next]_reports
    BY <1>1, SessionClosedKeeps DEF OnSessionClosed
  <1>2. ASSUME NEW m \in Message, OnMessageReceived(m) PROVE MessangerInv' /\ [Promise!Next]_reports
    BY <1>2, MessageReceivedKeeps DEF OnMessageReceived
  <1>3. ASSUME UNCHANGED <<session, pending, m_services, m_transactions, m_nNextSeq, reports, orphans>>
        PROVE  MessangerInv' /\ [Promise!Next]_reports
    BY <1>3 DEF MessangerInv, ServicesInv, TransactionsInv, Services, Transactions, Reported
  <1>4. ASSUME NEW m \in pending, HandleMessangerMessage(m) PROVE MessangerInv' /\ [Promise!Next]_reports
    <2>1. pending' = pending \ {m} /\ m \in Message /\ TransactionsInv /\ ServicesInv
      BY <1>4 DEF HandleMessangerMessage, MessangerInv, TransactionsInv
    <2>2. CASE OpenService(m)
      <3>1. ServicesInv' /\ UNCHANGED <<m_transactions, m_nNextSeq, reports>>
        BY <2>1, <2>2, OpenServiceKeeps DEF OpenService
      <3>2. Transactions' = Transactions /\ Reported' = Reported
        BY <3>1 DEF Transactions, Reported
      <3>3. TransactionsInv'
        BY <2>1, <3>1, <3>2 DEF TransactionsInv
      <3> QED
        BY <3>1, <3>3 DEF MessangerInv
    <2>3. CASE OnRequest(m)
      <3>1. ServicesInv'
        BY <2>1, <2>3 DEF OnRequest, ServicesInv, Services
      <3>2. /\ TransactionsInv' /\ m.seq \in Requests /\ reports[m.seq] = <<>>
            /\ \E said \in Refusals \cup {"UNKNOWN_ERROR", "ROUTED"} :
                  reports' = [reports EXCEPT ![m.seq] = <<said>>]
        BY <2>1, <2>3, OnRequestKeeps
      <3>3. PICK said \in Refusals \cup {"UNKNOWN_ERROR", "ROUTED"} :
                  reports' = [reports EXCEPT ![m.seq] = <<said>>]
        BY <3>2
      <3>4. CASE said = "ROUTED"
        <4>1. Promise!Route(m.seq)
          BY <3>2, <3>3, <3>4 DEF Promise!Route
        <4> QED
          BY <3>1, <3>2, <4>1 DEF MessangerInv, Promise!Next
      <3>5. CASE said # "ROUTED"
        <4>1. said \in Promise!Rejections
          BY <3>3, <3>5 DEF Promise!Rejections, Refusals
        <4>2. Promise!Reject(m.seq)
          BY <3>2, <3>3, <4>1 DEF Promise!Reject
        <4> QED
          BY <3>1, <3>2, <4>2 DEF MessangerInv, Promise!Next
      <3> QED
        BY <3>4, <3>5
    <2>4. CASE OnResponse(m)
      <3>1. ServicesInv'
        BY <2>1, <2>4 DEF OnResponse, ServicesInv, Services
      <3>2. /\ TransactionsInv'
            /\ \/ reports' = reports
               \/ \E r \in Requests :
                     /\ reports[r] = <<"ROUTED">>
                     /\ reports' = [x \in Requests |-> IF x \in {r} THEN Append(reports[x], "RESPONSE") ELSE reports[x]]
        BY <2>1, <2>4, OnResponseKeeps
      <3>3. ASSUME NEW r \in Requests, reports[r] = <<"ROUTED">>,
                   reports' = [x \in Requests |-> IF x \in {r} THEN Append(reports[x], "RESPONSE") ELSE reports[x]]
            PROVE  Promise!Next
        <4>1. Promise!Answer({r}, "RESPONSE")
          BY <3>3 DEF Promise!Answer
        <4> QED
          BY <4>1 DEF Promise!Next
      <3> QED
        BY <3>1, <3>2, <3>3 DEF MessangerInv
    <2> QED
      BY <1>4, <2>2, <2>3, <2>4 DEF HandleMessangerMessage
  <1>5. CASE Proceed
    <2>1. ServicesInv'
      BY <1>5 DEF Proceed, MessangerInv, ServicesInv, Services
    <2>2. TransactionsInv'
      BY <1>5, ProceedKeeps
    <2>3. PICK S \in SUBSET Requests :
             /\ \A r \in S : reports[r] = <<"ROUTED">>
             /\ reports' = [x \in Requests |-> IF x \in S THEN Append(reports[x], "CLOSED") ELSE reports[x]]
      BY <1>5, ProceedKeeps
    <2>4. Promise!Answer(S, "CLOSED")
      BY <2>3 DEF Promise!Answer
    <2>5. Promise!Next
      BY <2>4 DEF Promise!Next
    <2> QED
      BY <2>1, <2>2, <2>5 DEF MessangerInv
  <1> QED
    BY <1>1, <1>2, <1>3, <1>4, <1>5 DEF MessangerNext, messangerVars, StartHandling, FinishHandling

(* It says what is promised of services and indexes *)
LEMMA MessangerInv_Served == MessangerInv => MessangerTypeOK /\ ServicesMatchSessions
  <1> SUFFICES ASSUME MessangerInv PROVE MessangerTypeOK /\ ServicesMatchSessions
    OBVIOUS
  <1>1. Indexed(m_services, Service, "sName") /\ Indexed(m_transactions, Routed, "nServiceSeq")
    BY DEF MessangerInv, ServicesInv, TransactionsInv
  <1>2. Services \subseteq Service
    BY <1>1, IndexFacts DEF Services
  <1>3. m_nNextSeq \in 1 .. (Cardinality(Requests) + 1)
    <2>1. Reported \in SUBSET Requests /\ IsFiniteSet(Requests)
      BY MessangerAssumption DEF Reported
    <2>2. IsFiniteSet(Reported) /\ Cardinality(Reported) <= Cardinality(Requests)
      BY <2>1, FS_Subset
    <2>3. Cardinality(Reported) \in Nat /\ Cardinality(Requests) \in Nat
      BY <2>1, <2>2, FS_CardinalityType
    <2>4. m_nNextSeq \in Nat \ {0} /\ m_nNextSeq <= Cardinality(Reported) + 1
      BY DEF MessangerInv, TransactionsInv
    <2> QED
      BY <2>2, <2>3, <2>4
  <1>4. MessangerTypeOK
    <2>1. IndexAgrees(m_services) /\ IndexAgrees(m_transactions)
      BY <1>1 DEF Indexed
    <2> QED
      BY <1>2, <1>3, <2>1 DEF MessangerInv, ServicesInv, TransactionsInv, MessangerTypeOK, Services, Service
  <1>5. ServicesMatchSessions
    <2> SUFFICES ASSUME NEW i \in DOMAIN m_services.items, NEW j \in DOMAIN m_services.items
                 PROVE  /\ m_services.items[i].nSessionId = m_services.items[j].nSessionId => i = j
                        /\ \/ session[m_services.items[i].nSessionId] = "open"
                           \/ m_services.items[i].sName \in orphans
      BY DEF ServicesMatchSessions
    <2>1. DOMAIN m_services.items = 1 .. Len(m_services.items)
      BY <1>1, IndexFacts
    <2>2. m_services.items[i] \in Services /\ m_services.items[j] \in Services
      BY DEF Services, ToSet
    <2>3. m_services.items[i]["sName"] = m_services.items[j]["sName"] => i = j
      BY <1>1, <2>1, IndexFacts
    <2> QED
      BY <2>2, <2>3 DEF MessangerInv, ServicesInv
  <1> QED
    BY <1>4, <1>5

(* For any number of sessions, services and requests, and in whatever order responses,
   deadlines and closed sessions come, a request gets one rejection, or is routed and gets
   one response or one CLOSED; both indexes stay exact, and services have open sessions
   unless they were registered too late (Messanger, IndexedVector) *)
THEOREM RequestsStayServed == MessangerSpec => RequestsAreServed
  <1>1. MessangerInit => MessangerInv /\ Promise!Init
    BY MessangerInit_Inv DEF MessangerInit, Promise!Init
  <1>2. MessangerInv /\ [MessangerNext]_messangerVars => MessangerInv' /\ [Promise!Next]_reports
    BY MessangerStep
  <1>3. MessangerInv => MessangerTypeOK /\ ServicesMatchSessions
    BY MessangerInv_Served
  <1> QED
    BY <1>1, <1>2, <1>3, PTL DEF MessangerSpec, RequestsAreServed, PromiseKept, Promise!Spec
-----------------------------------------------------------------------------
(* The subscriptions to a clock or a ship, and rings *)

(* InsertAt puts one item at its place and moves the later ones on *)
LEMMA InsertedAt ==
    ASSUME NEW S, NEW s \in Seq(S), NEW e \in S, NEW p \in 1 .. (Len(s) + 1)
    PROVE  /\ InsertAt(s, p, e) \in Seq(S) /\ Len(InsertAt(s, p, e)) = Len(s) + 1
           /\ InsertAt(s, p, e)[p] = e
           /\ \A j \in 1 .. (p - 1) : InsertAt(s, p, e)[j] = s[j]
           /\ \A j \in (p + 1) .. (Len(s) + 1) : InsertAt(s, p, e)[j] = s[j - 1]
  <1> DEFINE n == Len(s)
             a == SubSeq(s, 1, p - 1)
             b == SubSeq(s, p, n)
             c == a \o <<e>>
  <1>1. n \in Nat /\ p \in Nat /\ p - 1 \in Nat /\ n - p + 1 \in Nat
    OBVIOUS
  <1>2. a \in Seq(S) /\ Len(a) = p - 1 /\ \A j \in 1 .. (p - 1) : a[j] = s[j]
    OBVIOUS
  <1>3. b \in Seq(S) /\ Len(b) = n - p + 1 /\ \A j \in 1 .. (n - p + 1) : b[j] = s[p + j - 1]
    OBVIOUS
  <1> HIDE DEF a, b, n
  <1>4. c \in Seq(S) /\ Len(c) = p /\ c[p] = e /\ \A j \in 1 .. (p - 1) : c[j] = a[j]
    BY <1>1, <1>2
  <1> HIDE DEF c
  <1>5. c \o b \in Seq(S) /\ Len(c \o b) = n + 1
    <2>1. c \o b \in Seq(S) /\ Len(c \o b) = Len(c) + Len(b)
      BY <1>3, <1>4, ConcatProperties
    <2>2. Len(c) + Len(b) = n + 1
      BY <1>1, <1>3, <1>4
    <2> QED
      BY <2>1, <2>2
  <1>6. \A j \in 1 .. (n + 1) : (c \o b)[j] = IF j <= p THEN c[j] ELSE b[j - p]
    BY <1>1, <1>3, <1>4
  <1>7. InsertAt(s, p, e) = c \o b
    BY DEF InsertAt, a, b, c, n
  <1>8. \A j \in 1 .. (p - 1) : (c \o b)[j] = s[j]
    BY <1>1, <1>2, <1>4, <1>6
  <1>9. \A j \in (p + 1) .. (n + 1) : (c \o b)[j] = s[j - 1]
    <2> TAKE j \in (p + 1) .. (n + 1)
    <2>1. j \in 1 .. (n + 1) /\ ~(j <= p) /\ j - p \in 1 .. (n - p + 1) /\ p + (j - p) - 1 = j - 1
      BY <1>1
    <2> QED
      BY <1>3, <1>6, <2>1
  <1>10. (c \o b)[p] = e
    BY <1>1, <1>4, <1>6
  <1> QED
    BY <1>5, <1>7, <1>8, <1>9, <1>10 DEF n

(* RemoveAt takes one item out and moves the later ones up *)
LEMMA RemovedFrom ==
    ASSUME NEW S, NEW s \in Seq(S), NEW i \in 1 .. Len(s)
    PROVE  /\ RemoveAt(s, i) \in Seq(S) /\ Len(RemoveAt(s, i)) = Len(s) - 1
           /\ \A j \in 1 .. (i - 1) : RemoveAt(s, i)[j] = s[j]
           /\ \A j \in i .. (Len(s) - 1) : RemoveAt(s, i)[j] = s[j + 1]
  <1> DEFINE n == Len(s)
             a == SubSeq(s, 1, i - 1)
             b == SubSeq(s, i + 1, n)
  <1>1. n \in Nat /\ i \in Nat /\ i - 1 \in Nat /\ n - i \in Nat
    OBVIOUS
  <1>2. a \in Seq(S) /\ Len(a) = i - 1 /\ \A j \in 1 .. (i - 1) : a[j] = s[j]
    OBVIOUS
  <1>3. b \in Seq(S) /\ Len(b) = n - i /\ \A j \in 1 .. (n - i) : b[j] = s[i + j]
    OBVIOUS
  <1> HIDE DEF a, b, n
  <1>4. a \o b \in Seq(S) /\ Len(a \o b) = n - 1
    <2>1. a \o b \in Seq(S) /\ Len(a \o b) = Len(a) + Len(b)
      BY <1>2, <1>3, ConcatProperties
    <2> QED
      BY <1>1, <1>2, <1>3, <2>1
  <1>5. \A j \in 1 .. (n - 1) : (a \o b)[j] = IF j <= i - 1 THEN a[j] ELSE b[j - (i - 1)]
    BY <1>1, <1>2, <1>3
  <1>6. RemoveAt(s, i) = a \o b
    BY DEF RemoveAt, a, b, n
  <1>7. \A j \in 1 .. (i - 1) : (a \o b)[j] = s[j]
    BY <1>1, <1>2, <1>5
  <1>8. \A j \in i .. (n - 1) : (a \o b)[j] = s[j + 1]
    <2> TAKE j \in i .. (n - 1)
    <2>1. j \in 1 .. (n - 1) /\ ~(j <= i - 1) /\ j - (i - 1) \in 1 .. (n - i) /\ i + (j - (i - 1)) = j + 1
      BY <1>1
    <2> QED
      BY <1>3, <1>5, <2>1
  <1> QED
    BY <1>4, <1>6, <1>7, <1>8 DEF n

(* The last of some places, or 0 if there is none *)
LEMMA LastOf ==
    ASSUME NEW m \in Nat, NEW T, T \subseteq 1 .. m
    PROVE  /\ Max({0} \cup T) \in 0 .. m
           /\ Max({0} \cup T) = 0 \/ Max({0} \cup T) \in T
           /\ \A j \in T : j <= Max({0} \cup T)
  <1> DEFINE U == {0} \cup T
             D == {m - j : j \in U}
  <1>1. D \subseteq Nat /\ D # {} /\ U \subseteq 0 .. m
    OBVIOUS
  <1>2. PICK d \in D : \A j \in D : d <= j
    <2> HIDE DEF D
    <2> QED
      BY <1>1, LeastOne
  <1>3. PICK x \in U : d = m - x
    OBVIOUS
  <1>4. \A y \in U : x >= y
    <2> TAKE y \in U
    <2>1. m - y \in D /\ x \in Int /\ y \in Int
      BY <1>1
    <2> HIDE DEF D, U
    <2> QED
      BY <1>2, <1>3, <2>1
  <1> HIDE DEF U, D
  <1>5. Max(U) \in U /\ \A y \in U : Max(U) >= y
    BY <1>4 DEF Max
  <1>6. Max(U) \in 0 .. m /\ Max(U) \in Int
    <2> DEFINE x0 == Max(U)
    <2>1. x0 \in 0 .. m
      BY <1>1, <1>5
    <2> HIDE DEF x0
    <2>2. x0 \in Int
      BY <2>1
    <2> QED
      BY <2>1, <2>2 DEF x0
  <1> QED
    BY <1>1, <1>5, <1>6 DEF U

(* The first of some places, or the last place if there is none *)
LEMMA FirstOf ==
    ASSUME NEW n \in Nat \ {0}, NEW T, T \subseteq 1 .. n
    PROVE  /\ Min({n} \cup T) \in 1 .. n
           /\ Min({n} \cup T) = n \/ Min({n} \cup T) \in T
           /\ \A j \in T : Min({n} \cup T) <= j
  <1> DEFINE U == {n} \cup T
  <1>1. U \subseteq Nat /\ U # {} /\ U \subseteq 1 .. n
    OBVIOUS
  <1> HIDE DEF U
  <1>2. PICK x \in U : \A j \in U : x <= j
    BY <1>1, LeastOne
  <1>3. Min(U) \in U /\ \A y \in U : Min(U) <= y
    BY <1>2 DEF Min
  <1> QED
    BY <1>1, <1>3 DEF U

Subscription == [session : Clients, period : Nat, left : Int]

(* The items of a box are sorted by the time that is left, and have different sessions *)
SortedBut(v, i) == \A j, k \in DOMAIN v : j # i /\ k # i /\ j <= k => v[j].left <= v[k].left
Sorted(v) == \A j, k \in DOMAIN v : j <= k => v[j].left <= v[k].left
OncePerSession(v) == \A j, k \in DOMAIN v : v[j].session = v[k].session => j = k

(* A sorted vector with an item inserted behind all sooner and before all later ones *)
LEMMA InsertionSorts ==
    ASSUME NEW r \in Seq(Subscription), Sorted(r), NEW x \in Subscription,
           NEW p \in 1 .. (Len(r) + 1),
           \A j \in 1 .. (p - 1) : r[j].left <= x.left,
           \A j \in p .. Len(r) : x.left <= r[j].left
    PROVE  Sorted(InsertAt(r, p, x))
  <1> DEFINE n == Len(r)
             w == InsertAt(r, p, x)
  <1>1. w \in Seq(Subscription) /\ Len(w) = n + 1 /\ w[p] = x
    BY InsertedAt
  <1>2. /\ \A j \in 1 .. (p - 1) : w[j] = r[j]
        /\ \A j \in (p + 1) .. (n + 1) : w[j] = r[j - 1]
    BY InsertedAt
  <1>3. DOMAIN r = 1 .. n /\ n \in Nat /\ p \in Nat /\ \A j \in 1 .. n : r[j].left \in Int
    <2>1. DOMAIN r = 1 .. n /\ n \in Nat /\ p \in Nat /\ \A j \in 1 .. n : r[j] \in Subscription
      OBVIOUS
    <2> QED
      BY <2>1 DEF Subscription
  <1>4. x.left \in Int
    BY DEF Subscription
  <1> HIDE DEF w, n
  <1>5. DOMAIN w = 1 .. (n + 1)
    BY <1>1
  <1>6. \A j \in 1 .. n : (j < p => r[j].left <= x.left) /\ (j >= p => x.left <= r[j].left)
    BY <1>3 DEF n
  <1>7. ASSUME NEW j \in 1 .. (n + 1), NEW k \in 1 .. (n + 1), j <= k
        PROVE  w[j].left <= w[k].left
    <2>1. CASE j < p /\ k < p
      <3>1. w[j] = r[j] /\ w[k] = r[k] /\ j \in 1 .. n /\ k \in 1 .. n
        BY <1>2, <1>3, <2>1 DEF n
      <3> QED
        BY <1>3, <1>7, <3>1 DEF Sorted
    <2>2. CASE j < p /\ k = p
      <3>1. w[j] = r[j] /\ w[k] = x /\ j \in 1 .. n
        BY <1>1, <1>2, <1>3, <2>2 DEF n
      <3> QED
        BY <1>6, <2>2, <3>1
    <2>3. CASE j < p /\ k > p
      <3>1. w[j] = r[j] /\ w[k] = r[k - 1] /\ j \in 1 .. n /\ k - 1 \in 1 .. n /\ j <= k - 1
        BY <1>2, <1>3, <2>3 DEF n
      <3> QED
        BY <1>3, <3>1 DEF Sorted
    <2>4. CASE j = p /\ k = p
      BY <1>1, <1>4, <2>4
    <2>5. CASE j = p /\ k > p
      <3>1. w[j] = x /\ w[k] = r[k - 1] /\ k - 1 \in 1 .. n /\ k - 1 >= p
        BY <1>1, <1>2, <1>3, <2>5 DEF n
      <3> QED
        BY <1>6, <3>1
    <2>6. CASE j > p
      <3>1. w[j] = r[j - 1] /\ w[k] = r[k - 1] /\ j - 1 \in 1 .. n /\ k - 1 \in 1 .. n /\ j - 1 <= k - 1
        BY <1>2, <1>3, <1>7, <2>6 DEF n
      <3> QED
        BY <1>3, <3>1 DEF Sorted
    <2> QED
      BY <1>3, <1>7, <2>1, <2>2, <2>3, <2>4, <2>5, <2>6
  <1> QED
    BY <1>5, <1>7 DEF Sorted, w

(* An item that is moved away and inserted: all items are still there *)
LEMMA MovedItem ==
    ASSUME NEW v \in Seq(Subscription), NEW i \in 1 .. Len(v), NEW p \in 1 .. Len(v), OncePerSession(v)
    PROVE  LET w == InsertAt(RemoveAt(v, i), p, v[i]) IN
           /\ w \in Seq(Subscription) /\ Len(w) = Len(v) /\ OncePerSession(w)
           /\ \A j \in DOMAIN w : \E k \in DOMAIN v : w[j] = v[k]
           /\ w[p] = v[i]
           /\ \A j \in 1 .. (p - 1) : j >= i => w[j] = v[j + 1]
  <1> DEFINE n == Len(v)
             r == RemoveAt(v, i)
             w == InsertAt(r, p, v[i])
             from(j) == IF j = p THEN i
                        ELSE IF j < p THEN (IF j < i THEN j ELSE j + 1)
                        ELSE (IF j - 1 < i THEN j - 1 ELSE j)
  <1>1. n \in Nat /\ n - 1 \in Nat /\ DOMAIN v = 1 .. n /\ v[i] \in Subscription
    OBVIOUS
  <1>2. r \in Seq(Subscription) /\ Len(r) = n - 1
    BY RemovedFrom
  <1>3. /\ \A j \in 1 .. (i - 1) : r[j] = v[j]
        /\ \A j \in i .. (n - 1) : r[j] = v[j + 1]
    BY RemovedFrom
  <1> HIDE DEF r, n
  <1>4. p \in 1 .. (Len(r) + 1) /\ i \in 1 .. n /\ p \in 1 .. n
    BY <1>1, <1>2 DEF n
  <1>5. w \in Seq(Subscription) /\ Len(w) = n /\ w[p] = v[i]
    BY <1>1, <1>2, <1>4, InsertedAt
  <1>6. /\ \A j \in 1 .. (p - 1) : w[j] = r[j]
        /\ \A j \in (p + 1) .. n : w[j] = r[j - 1]
    <2>1. (Len(r) + 1) = n
      BY <1>1, <1>2
    <2> QED
      BY <1>1, <1>2, <1>4, <2>1, InsertedAt
  <1> HIDE DEF w
  <1>7. ASSUME NEW j \in 1 .. n PROVE w[j] = v[from(j)] /\ from(j) \in 1 .. n
    <2>1. CASE j = p
      BY <1>4, <1>5, <2>1
    <2>2. CASE j < p
      <3>1. w[j] = r[j] /\ j \in 1 .. (n - 1)
        BY <1>1, <1>4, <1>6, <2>2
      <3>2. j < i => r[j] = v[j]
        BY <1>1, <1>3, <1>4
      <3>3. ~(j < i) => r[j] = v[j + 1]
        BY <1>1, <1>3, <1>4, <3>1
      <3> QED
        BY <1>1, <1>4, <2>2, <3>1, <3>2, <3>3
    <2>3. CASE j > p
      <3>1. w[j] = r[j - 1] /\ j - 1 \in 1 .. (n - 1)
        BY <1>1, <1>4, <1>6, <2>3
      <3>2. j - 1 < i => r[j - 1] = v[j - 1]
        BY <1>1, <1>3, <1>4, <3>1
      <3>3. ~(j - 1 < i) => r[j - 1] = v[j]
        <4>1. (j - 1) + 1 = j
          BY <1>1
        <4>2. ~(j - 1 < i) => j - 1 \in i .. (n - 1)
          BY <1>1, <1>4, <3>1
        <4> QED
          BY <1>3, <4>1, <4>2
      <3> QED
        BY <1>1, <1>4, <2>3, <3>1, <3>2, <3>3
    <2> QED
      BY <1>1, <1>4, <2>1, <2>2, <2>3
  <1>8. \A j, k \in 1 .. n : from(j) = from(k) => j = k
    BY <1>1, <1>4
  <1>9. \A j \in 1 .. (p - 1) : j >= i => w[j] = v[j + 1]
    <2> TAKE j \in 1 .. (p - 1)
    <2>1. j \in 1 .. n /\ (j >= i => from(j) = j + 1)
      BY <1>1, <1>4
    <2> QED
      BY <1>7, <2>1
  <1> HIDE DEF from
  <1>10. DOMAIN w = 1 .. n
    BY <1>5
  <1>11. OncePerSession(w)
    BY <1>1, <1>7, <1>8, <1>10 DEF OncePerSession
  <1>12. \A j \in DOMAIN w : \E k \in DOMAIN v : w[j] = v[k]
    BY <1>1, <1>7, <1>10
  <1>13. /\ w \in Seq(Subscription) /\ Len(w) = Len(v) /\ OncePerSession(w)
         /\ \A j \in DOMAIN w : \E k \in DOMAIN v : w[j] = v[k]
         /\ w[p] = v[i]
         /\ \A j \in 1 .. (p - 1) : j >= i => w[j] = v[j + 1]
    BY <1>5, <1>9, <1>11, <1>12 DEF n
  <1> QED
    BY <1>13 DEF w, r

(* What PlaceItem makes of a vector v whose items are sorted but for the i-th: a sorted one,
   with the items of v *)
Placed(w, v, i) ==
    /\ w \in Seq(Subscription) /\ Len(w) = Len(v) /\ OncePerSession(w) /\ Sorted(w)
    /\ \A j \in DOMAIN w : \E k \in DOMAIN v : w[j] = v[k]
    /\ \E p \in 1 .. Len(v) : w[p] = v[i] /\ \A j \in 1 .. (p - 1) : j >= i => w[j] = v[j + 1]

(* An item that is moved to where it fits *)
LEMMA PlaceItemSorts ==
    ASSUME NEW v \in Seq(Subscription), NEW i \in 1 .. Len(v), OncePerSession(v), SortedBut(v, i)
    PROVE  Placed(PlaceItem(v, i), v, i)
  <1> DEFINE n == Len(v)
             x == v[i]
             r == RemoveAt(v, i)
  <1>1. n \in Nat /\ n \in Nat \ {0} /\ n - 1 \in Nat /\ DOMAIN v = 1 .. n /\ x \in Subscription /\ i \in 1 .. n
    OBVIOUS
  <1>2. r \in Seq(Subscription) /\ Len(r) = n - 1
    BY RemovedFrom
  <1>3. /\ \A j \in 1 .. (i - 1) : r[j] = v[j]
        /\ \A j \in i .. (n - 1) : r[j] = v[j + 1]
    BY RemovedFrom
  <1>4. \A j \in 1 .. n : v[j].left \in Int
    <2>1. \A j \in 1 .. n : v[j] \in Subscription
      OBVIOUS
    <2> QED
      BY <2>1 DEF Subscription
  <1>5. x.left \in Int
    BY <1>1 DEF Subscription
  <1> HIDE DEF n, r
  <1>6. DOMAIN r = 1 .. (n - 1)
    BY <1>2
  <1> DEFINE from(j) == IF j < i THEN j ELSE j + 1
  <1>7. \A j \in 1 .. (n - 1) : r[j] = v[from(j)] /\ from(j) \in 1 .. n /\ from(j) # i
    <2> TAKE j \in 1 .. (n - 1)
    <2>1. j < i => j \in 1 .. (i - 1)
      BY <1>1
    <2>2. ~(j < i) => j \in i .. (n - 1)
      BY <1>1
    <2>3. r[j] = v[from(j)]
      BY <1>3, <2>1, <2>2
    <2>4. from(j) \in 1 .. n /\ from(j) # i
      BY <1>1
    <2> QED
      BY <2>3, <2>4
  <1>8. \A j, k \in 1 .. (n - 1) : j <= k => from(j) <= from(k)
    BY <1>1
  <1>9. Sorted(r)
    <2> HIDE DEF from
    <2> QED
      BY <1>1, <1>6, <1>7, <1>8 DEF Sorted, SortedBut
  <1>10. \A j \in 1 .. (n - 1) : r[j].left \in Int
    <2> HIDE DEF from
    <2> QED
      BY <1>4, <1>7
  <1>11. ASSUME NEW p \in 1 .. n, PlaceItem(v, i) = InsertAt(r, p, x),
                \A j \in 1 .. (n - 1) : (j < p => r[j].left <= x.left) /\ (j >= p => x.left <= r[j].left)
         PROVE  Placed(PlaceItem(v, i), v, i)
    <2> DEFINE w == InsertAt(r, p, x)
    <2>1. /\ w \in Seq(Subscription) /\ Len(w) = n /\ OncePerSession(w)
          /\ \A j \in DOMAIN w : \E k \in DOMAIN v : w[j] = v[k]
          /\ w[p] = v[i]
          /\ \A j \in 1 .. (p - 1) : j >= i => w[j] = v[j + 1]
      BY <1>1, <1>11, MovedItem DEF n, r
    <2>2. Sorted(w)
      <3>1. p \in 1 .. (Len(r) + 1) /\ p \in Nat
        BY <1>1, <1>2
      <3>2. \A j \in 1 .. (p - 1) : r[j].left <= x.left
        BY <1>1, <1>11, <3>1
      <3>3. \A j \in p .. Len(r) : x.left <= r[j].left
        BY <1>1, <1>2, <1>11, <3>1
      <3> HIDE DEF x
      <3> QED
        BY <1>1, <1>2, <1>9, <3>1, <3>2, <3>3, InsertionSorts
    <2> HIDE DEF w
    <2>3. Placed(w, v, i)
      BY <2>1, <2>2 DEF Placed, n
    <2> QED
      BY <1>11, <2>3 DEF w
  <1>12. CASE i > 1 /\ v[i - 1].left > x.left
    <2> DEFINE T == {j \in 1 .. (i - 1) : r[j].left <= x.left}
               m == Max({0} \cup T)
    <2>1. i - 1 \in Nat /\ T \subseteq 1 .. (i - 1) /\ i - 1 \in 1 .. (n - 1)
      BY <1>1, <1>12
    <2>2. m \in 0 .. (i - 1) /\ (m = 0 \/ m \in T) /\ \A j \in T : j <= m
      <3> HIDE DEF T
      <3> QED
        BY <2>1, LastOf
    <2>3. PlaceItem(v, i) = InsertAt(r, 1 + m, x)
      BY <1>12 DEF PlaceItem, r
    <2> HIDE DEF m
    <2>4. 1 + m \in 1 .. n
      BY <1>1, <2>1, <2>2
    <2>5. r[i - 1] = v[i - 1]
      BY <1>1, <1>3, <2>1
    <2>6. ASSUME NEW j \in 1 .. (n - 1)
          PROVE  (j < 1 + m => r[j].left <= x.left) /\ (j >= 1 + m => x.left <= r[j].left)
      <3>1. CASE j < 1 + m
        <4>1. m \in 1 .. (n - 1) /\ r[m].left <= x.left /\ j <= m
          BY <1>1, <2>1, <2>2, <3>1
        <4>2. r[j].left <= r[m].left
          BY <1>6, <1>9, <4>1 DEF Sorted
        <4>3. r[j].left \in Int /\ r[m].left \in Int
          BY <1>10, <4>1
        <4> QED
          BY <1>5, <2>2, <3>1, <4>1, <4>2, <4>3
      <3>2. CASE j >= 1 + m /\ j <= i - 1
        <4>1. j \in 1 .. (i - 1) /\ ~(j <= m)
          BY <1>1, <2>1, <2>2, <3>2
        <4>2. ~(r[j].left <= x.left)
          BY <2>2, <4>1
        <4> QED
          BY <1>5, <1>10, <2>2, <3>2, <4>2
      <3>3. CASE j > i - 1
        <4>1. r[i - 1].left <= r[j].left
          BY <1>1, <1>6, <1>9, <2>1, <3>3 DEF Sorted
        <4>2. r[i - 1].left \in Int /\ r[j].left \in Int
          BY <1>10, <2>1
        <4>3. x.left <= r[j].left
          BY <1>5, <1>12, <2>5, <4>1, <4>2
        <4>4. ~(j < 1 + m)
          BY <1>1, <2>2, <3>3
        <4> QED
          BY <4>3, <4>4
      <3> QED
        BY <1>1, <2>1, <2>2, <3>1, <3>2, <3>3
    <2> DEFINE p == 1 + m
    <2>7. p \in 1 .. n /\ PlaceItem(v, i) = InsertAt(r, p, x)
      BY <2>3, <2>4
    <2>8. \A j \in 1 .. (n - 1) : (j < p => r[j].left <= x.left) /\ (j >= p => x.left <= r[j].left)
      BY <2>6
    <2> HIDE DEF p
    <2> QED
      BY <1>11, <2>7, <2>8
  <1>13. CASE ~(i > 1 /\ v[i - 1].left > x.left)
    <2> DEFINE T == {j \in i .. Len(r) : x.left <= r[j].left}
               p == Min({n} \cup T)
    <2>1. T \subseteq 1 .. n /\ n \in Nat \ {0} /\ T \subseteq i .. (n - 1)
      BY <1>1, <1>2
    <2>2. p \in 1 .. n /\ (p = n \/ p \in T) /\ \A j \in T : p <= j
      <3> HIDE DEF T
      <3> QED
        BY <2>1, FirstOf
    <2>3. PlaceItem(v, i) = InsertAt(r, p, x)
      BY <1>13 DEF PlaceItem, r, n
    <2> HIDE DEF p
    <2>4. ASSUME NEW j \in 1 .. (n - 1), j < p PROVE r[j].left <= x.left
      <3>1. CASE j < i
        <4>1. i - 1 \in 1 .. (n - 1) /\ j <= i - 1 /\ i > 1 /\ r[i - 1] = v[i - 1]
          <5>1. i - 1 \in 1 .. (n - 1) /\ j <= i - 1 /\ i > 1 /\ i - 1 \in 1 .. (i - 1)
            BY <1>1, <3>1
          <5> QED
            BY <1>3, <5>1
        <4>2. r[j].left <= r[i - 1].left /\ r[j].left \in Int /\ r[i - 1].left \in Int
          BY <1>6, <1>9, <1>10, <4>1 DEF Sorted
        <4> QED
          BY <1>5, <1>13, <4>1, <4>2
      <3>2. CASE j >= i
        <4>1. j \in i .. Len(r) /\ ~(p <= j)
          BY <1>1, <1>2, <2>2, <2>4, <3>2
        <4>2. ~(x.left <= r[j].left)
          BY <2>2, <4>1
        <4> QED
          BY <1>5, <1>10, <4>2
      <3> QED
        BY <1>1, <3>1, <3>2
    <2>5. ASSUME NEW j \in 1 .. (n - 1), j >= p PROVE x.left <= r[j].left
      <3>1. p # n /\ p \in T /\ p \in 1 .. (n - 1)
        BY <1>1, <2>2, <2>5
      <3>2. x.left <= r[p].left
        BY <3>1
      <3>3. r[p].left <= r[j].left /\ r[p].left \in Int /\ r[j].left \in Int
        BY <1>6, <1>9, <1>10, <2>5, <3>1 DEF Sorted
      <3> QED
        BY <1>5, <3>2, <3>3
    <2> QED
      BY <1>11, <2>2, <2>3, <2>4, <2>5
  <1> QED
    BY <1>12, <1>13

(* A remainder does not depend on whole periods *)
LEMMA Remainders ==
    ASSUME NEW a \in Nat, NEW p \in Nat \ {0}
    PROVE  /\ a % p \in 0 .. (p - 1)
           /\ a < p => a % p = a
           /\ \A d \in Nat : ((a % p) + d) % p = (a + d) % p
  <1>1. \A q \in Nat : \A b \in 0 .. (p - 1) : (q * p + b) % p = b
    <2> TAKE q \in Nat
    <2> TAKE b \in 0 .. (p - 1)
    <2> QED
      BY Z3
  <1>2. \A c \in Nat : \E q \in Nat : c = q * p + (c % p) /\ c % p \in 0 .. (p - 1)
    <2> TAKE c \in Nat
    <2>1. c \div p \in Nat /\ c % p \in 0 .. (p - 1) /\ c = p * (c \div p) + (c % p)
      <3>1. c \div p \in Int /\ p * (c \div p) <= c /\ c < p * (c \div p) + p
        BY Z3
      <3>2. c \div p >= 0 /\ c % p \in 0 .. p - 1
        BY Z3
      <3>3. c % p = c - p * (c \div p)
        BY Z3
      <3> QED
        BY <3>1, <3>2, <3>3
    <2>2. p * (c \div p) = (c \div p) * p
      BY <2>1
    <2> QED
      BY <2>1, <2>2
  <1>3. a < p => a % p = a
    <2>1. a < p => a \in 0 .. (p - 1) /\ 0 * p + a = a
      OBVIOUS
    <2> QED
      BY <1>1, <2>1
  <1>4. ASSUME NEW d \in Nat PROVE ((a % p) + d) % p = (a + d) % p
    <2>1. PICK q \in Nat : a = q * p + (a % p) /\ a % p \in 0 .. (p - 1)
      BY <1>2
    <2> DEFINE b == a % p
    <2>2. b \in Nat /\ b + d \in Nat /\ a = q * p + b
      BY <2>1
    <2> HIDE DEF b
    <2>3. PICK t \in Nat : b + d = t * p + ((b + d) % p) /\ (b + d) % p \in 0 .. (p - 1)
      BY <1>2, <2>2
    <2> DEFINE e == (b + d) % p
    <2>4. b + d = t * p + e /\ e \in 0 .. (p - 1) /\ e \in Nat
      BY <2>3
    <2> HIDE DEF e
    <2>5. q + t \in Nat /\ q * p \in Nat /\ t * p \in Nat /\ (q + t) * p = q * p + t * p
      OBVIOUS
    <2>6. a + d = (q + t) * p + e
      BY <2>2, <2>4, <2>5
    <2>7. (a + d) % p = e
      BY <1>1, <2>4, <2>5, <2>6
    <2> QED
      BY <2>7 DEF b, e
  <1> QED
    BY <1>2, <1>3, <1>4

(* What is left until the next update, and the time since the subscription: they add up to
   whole periods. Ship refuses periods of 0 *)
InStep(period, left, t) == left <= period /\ t = (period - left) % period
Regular(x) ==
    /\ x.period > 0 => InStep(x.period, x.left, since[x.session])
    /\ kind = "Ship" => x.period > 0

(* nextUpdate puts an item off to the next of these times *)
LEMMA PutOffInStep ==
    ASSUME NEW p \in Nat \ {0}, NEW left \in Int, left <= 0, NEW t, InStep(p, left, t)
    PROVE  /\ p - ((-left) % p) \in 1 .. p
           /\ InStep(p, p - ((-left) % p), t)
  <1> DEFINE m == -left
             b == m % p
             next == p - b
  <1>1. m \in Nat /\ p - left = m + p /\ m + p = p + m
    OBVIOUS
  <1> HIDE DEF m
  <1>2. b \in 0 .. (p - 1) /\ ((m % p) + p) % p = (m + p) % p
    BY <1>1, Remainders
  <1>3. b \in Nat /\ b < p
    BY <1>2
  <1>4. (p + b) % p = b
    <2>1. p % p = 0
      <3>1. 1 * p + 0 = p /\ 0 \in 0 .. (p - 1)
        OBVIOUS
      <3>2. (1 * p + 0) % p = 0
        BY Z3
      <3> QED
        BY <3>1, <3>2
    <2>2. p \in Nat /\ b \in Nat /\ ((p % p) + b) % p = (p + b) % p
      BY <1>3, Remainders
    <2>3. b % p = b
      BY <1>3, Remainders
    <2> HIDE DEF b
    <2>4. 0 + b = b
      BY <1>3
    <2> QED
      BY <2>1, <2>2, <2>3, <2>4
  <1>5. t = b
    <2>1. t = (m + p) % p
      BY <1>1 DEF InStep
    <2>2. (m % p) + p = p + b
      BY <1>3
    <2> QED
      BY <1>2, <1>4, <2>1, <2>2
  <1>6. b % p = b
    BY <1>3, Remainders
  <1> HIDE DEF b
  <1>7. next \in 1 .. p /\ next <= p /\ p - next = b
    BY <1>3
  <1>8. InStep(p, next, t)
    BY <1>5, <1>6, <1>7 DEF InStep
  <1> QED
    BY <1>7, <1>8 DEF next, b, m

(* The items of a box after each round of the loop *)
Updates(v, n, f) ==
    f = [i \in 0 .. n |-> IF i = 0 THEN v ELSE UpdateIfDue(f[i - 1])]

(* The loop of SubscriptionsBox::nextUpdate and its callers *)
LEMMA UpdatesExist ==
    ASSUME NEW v, NEW n \in Nat PROVE \E f : Updates(v, n, f)
  <1> DEFINE N == {m \in Nat : \E f : Updates(v, m, f)}
  <1>1. 0 \in N
    <2> DEFINE f == [i \in 0 .. 0 |-> v]
    <2>1. f = [i \in 0 .. 0 |-> IF i = 0 THEN v ELSE UpdateIfDue(f[i - 1])]
      OBVIOUS
    <2>2. Updates(v, 0, f)
      BY <2>1 DEF Updates
    <2> QED
      BY <2>2
  <1>2. ASSUME NEW m \in 0 .. (n - 1), m \in N PROVE m + 1 \in N
    <2>1. PICK f : Updates(v, m, f)
      BY <1>2
    <2> DEFINE g == [i \in 0 .. (m + 1) |-> IF i = 0 THEN v ELSE UpdateIfDue(f[i - 1])]
    <2>2. \A i \in 0 .. m : g[i] = f[i]
      BY <2>1 DEF Updates
    <2>3. \A i \in 0 .. (m + 1) : i # 0 => i - 1 \in 0 .. m
      OBVIOUS
    <2>4. \A i \in 0 .. (m + 1) : g[i] = IF i = 0 THEN v ELSE UpdateIfDue(g[i - 1])
      <3> TAKE i \in 0 .. (m + 1)
      <3>1. g[i] = IF i = 0 THEN v ELSE UpdateIfDue(f[i - 1])
        OBVIOUS
      <3>2. i # 0 => g[i - 1] = f[i - 1]
        BY <2>2, <2>3
      <3> HIDE DEF g
      <3> QED
        BY <3>1, <3>2
    <2>5. g = [i \in 0 .. (m + 1) |-> g[i]]
      OBVIOUS
    <2> HIDE DEF g
    <2>6. Updates(v, m + 1, g)
      BY <2>4, <2>5 DEF Updates
    <2>7. m + 1 \in Nat
      OBVIOUS
    <2> QED
      BY <2>6, <2>7
  <1>3. n \in N
    <2> HIDE DEF N
    <2>1. n \in 0 .. n
      OBVIOUS
    <2> QED
      BY <1>1, <1>2, <2>1, RoundsInduction
  <1> QED
    BY <1>3

(* Updated is what its last round leaves *)
LEMMA UpdatesRounds ==
    ASSUME NEW v, Len(v) \in Nat
    PROVE  \E f : /\ Updated(v) = f[Len(v)]
                 /\ f[0] = v
                 /\ \A i \in 1 .. Len(v) : f[i] = UpdateIfDue(f[i - 1])
  <1> DEFINE n == Len(v)
             Up(f) == f = [i \in 0 .. n |-> IF i = 0 THEN v ELSE UpdateIfDue(f[i - 1])]
             f == CHOOSE f : Up(f)
  <1>1. n \in Nat
    OBVIOUS
  <1>2. \E g : Up(g)
    <2>1. PICK g : Updates(v, n, g)
      BY <1>1, UpdatesExist
    <2>2. Up(g)
      BY <2>1 DEF Updates
    <2> HIDE DEF Up
    <2> QED
      BY <2>2
  <1>3. Up(f)
    BY <1>2, Zenon
  <1>4. Updated(v) = f[n]
    BY DEF Updated
  <1>5. f[0] = v /\ \A i \in 1 .. n : f[i] = UpdateIfDue(f[i - 1])
    <2> HIDE DEF f
    <2> QED
      BY <1>1, <1>3
  <1> HIDE DEF f
  <1> QED
    BY <1>4, <1>5

(* The first rounds of the loop: as many items are in the future, at the end of the vector *)
UpdatedWell(v, w, rounds) ==
    /\ w \in Seq(Subscription) /\ Len(w) = Len(v)
    /\ Sorted(w) /\ OncePerSession(w) /\ ~NeverEnds(w)
    /\ \A i \in DOMAIN w : Regular(w[i])
    /\ \A i \in DOMAIN w : i > Len(v) - rounds => w[i].left > 0

(* An item that is put off is in the future, and in step *)
LEMMA PutOffIsRegular ==
    ASSUME NEW x \in Subscription, x.left <= 0, x.period # 0, Regular(x)
    PROVE  PutOff(x) \in Subscription /\ PutOff(x).left > 0 /\ Regular(PutOff(x))
           /\ PutOff(x).session = x.session
  <1>1. x.period \in Nat \ {0} /\ x.period > 0 /\ x.left \in Int
    BY DEF Subscription
  <1> DEFINE p == x.period
             left == p - ((-x.left) % p)
  <1>2. InStep(p, x.left, since[x.session])
    BY <1>1 DEF Regular
  <1>3. left \in 1 .. p /\ InStep(p, left, since[x.session])
    BY <1>1, <1>2, PutOffInStep
  <1>4. PutOff(x) = [x EXCEPT !.left = left]
    BY DEF PutOff
  <1> HIDE DEF left
  <1>5. left \in Int /\ left > 0
    BY <1>1, <1>3
  <1>6. PutOff(x) \in Subscription /\ PutOff(x).left = left
        /\ PutOff(x).session = x.session /\ PutOff(x).period = p
    BY <1>4, <1>5 DEF Subscription
  <1> QED
    BY <1>3, <1>5, <1>6 DEF Regular

(* A round of the loop: the first item is in the future, and so all are, or it is put off *)
LEMMA UpdatedWellStep ==
    ASSUME NEW v, Len(v) \in Nat, NEW w, NEW rounds \in 0 .. (Len(v) - 1), UpdatedWell(v, w, rounds)
    PROVE  UpdatedWell(v, UpdateIfDue(w), rounds + 1)
  <1> DEFINE n == Len(v)
  <1>1. n \in Nat /\ n > 0 /\ w \in Seq(Subscription) /\ Len(w) = n /\ DOMAIN w = 1 .. n /\ 1 \in 1 .. n
    BY DEF UpdatedWell
  <1>2. \A i \in 1 .. n : w[i] \in Subscription
    BY <1>1
  <1>3. \A i \in 1 .. n : w[i].left \in Int
    BY <1>2 DEF Subscription
  <1>4. w # <<>> /\ Head(w) = w[1]
    BY <1>1
  <1> HIDE DEF n
  <1>5. CASE ~(w[1].left <= 0)
    <2>1. UpdateIfDue(w) = w
      BY <1>4, <1>5 DEF UpdateIfDue, IsDue
    <2>2. \A i \in 1 .. n : w[i].left > 0
      <3> TAKE i \in 1 .. n
      <3>1. w[1].left <= w[i].left
        BY <1>1 DEF UpdatedWell, Sorted
      <3> QED
        BY <1>1, <1>3, <1>5, <3>1
    <2> QED
      BY <1>1, <2>1, <2>2 DEF UpdatedWell
  <1>6. CASE w[1].left <= 0
    <2> DEFINE x == PutOff(w[1])
               u == [w EXCEPT ![1] = x]
               r == PlaceItem(u, 1)
    <2>1. UpdateIfDue(w) = r
      BY <1>4, <1>6 DEF UpdateIfDue, IsDue, NextUpdate
    <2>2. w[1].period # 0 /\ Regular(w[1])
      BY <1>1, <1>6 DEF UpdatedWell, NeverEnds
    <2>3. x \in Subscription /\ x.left > 0 /\ Regular(x) /\ x.session = w[1].session
      BY <1>1, <1>2, <1>6, <2>2, PutOffIsRegular
    <2> HIDE DEF x
    <2>4. u \in Seq(Subscription) /\ Len(u) = n /\ DOMAIN u = 1 .. n
      BY <1>1, <2>3
    <2>5. u[1] = x /\ \A i \in 1 .. n : i # 1 => u[i] = w[i]
      BY <1>1
    <2> HIDE DEF u
    <2>6. \A i \in 1 .. n : u[i].session = w[i].session
      BY <2>3, <2>5
    <2>7. OncePerSession(u)
      BY <1>1, <2>4, <2>6 DEF OncePerSession, UpdatedWell
    <2>8. SortedBut(u, 1)
      BY <1>1, <2>4, <2>5 DEF SortedBut, UpdatedWell, Sorted
    <2>9. Placed(r, u, 1)
      BY <1>1, <2>4, <2>7, <2>8, PlaceItemSorts
    <2> HIDE DEF r
    <2>10. r \in Seq(Subscription) /\ Len(r) = n /\ DOMAIN r = 1 .. n /\ Sorted(r) /\ OncePerSession(r)
      BY <2>4, <2>9 DEF Placed
    <2>11. ASSUME NEW i \in 1 .. n PROVE Regular(r[i]) /\ ~(r[i].left <= 0 /\ r[i].period = 0)
      <3>1. PICK k \in 1 .. n : r[i] = u[k]
        BY <2>4, <2>9, <2>10 DEF Placed
      <3>2. CASE k = 1
        BY <2>3, <2>5, <3>1, <3>2 DEF Subscription
      <3>3. CASE k # 1
        BY <1>1, <2>5, <3>1, <3>3 DEF UpdatedWell, NeverEnds
      <3> QED
        BY <3>2, <3>3
    <2>12. ASSUME NEW i \in 1 .. n, i > n - (rounds + 1) PROVE r[i].left > 0
      <3>1. PICK p \in 1 .. n : r[p] = x /\ \A j \in 1 .. (p - 1) : j >= 1 => r[j] = u[j + 1]
        BY <2>4, <2>5, <2>9 DEF Placed
      <3>2. CASE i < p
        <4>1. i \in 1 .. (p - 1) /\ i + 1 \in 1 .. n /\ i + 1 # 1 /\ i + 1 > n - rounds /\ i >= 1
          BY <1>1, <2>12, <3>2 DEF n
        <4>2. r[i] = w[i + 1]
          BY <2>5, <3>1, <4>1
        <4> QED
          BY <1>1, <4>1, <4>2 DEF UpdatedWell, n
      <3>3. CASE i >= p
        <4>1. x.left <= r[i].left
          BY <2>10, <3>1, <3>3 DEF Sorted
        <4>2. r[i].left \in Int /\ x.left \in Int
          <5>1. r[i] \in Subscription
            BY <2>10
          <5> QED
            BY <2>3, <5>1 DEF Subscription
        <4> QED
          BY <2>3, <4>1, <4>2
      <3> QED
        BY <3>2, <3>3
    <2>13. ~NeverEnds(r)
      BY <2>10, <2>11 DEF NeverEnds
    <2>14. UpdatedWell(v, r, rounds + 1)
      BY <2>10, <2>11, <2>12, <2>13 DEF UpdatedWell, n
    <2> QED
      BY <2>1, <2>14
  <1> QED
    BY <1>5, <1>6

(* After the loop all items are in the future *)
LEMMA UpdatedInFuture ==
    ASSUME NEW v \in Seq(Subscription), Sorted(v), OncePerSession(v), ~NeverEnds(v),
           \A i \in DOMAIN v : Regular(v[i])
    PROVE  /\ Updated(v) \in Seq(Subscription) /\ Len(Updated(v)) = Len(v)
           /\ Sorted(Updated(v)) /\ OncePerSession(Updated(v))
           /\ \A i \in DOMAIN Updated(v) : Regular(Updated(v)[i]) /\ Updated(v)[i].left > 0
  <1> DEFINE n == Len(v)
  <1>1. n \in Nat /\ DOMAIN v = 1 .. n
    OBVIOUS
  <1>2. PICK f : /\ Updated(v) = f[n]
                 /\ f[0] = v
                 /\ \A i \in 1 .. n : f[i] = UpdateIfDue(f[i - 1])
    BY <1>1, UpdatesRounds
  <1> DEFINE T == {k \in Nat : UpdatedWell(v, f[k], k)}
  <1>3. 0 \in T
    BY <1>1, <1>2 DEF UpdatedWell
  <1>4. ASSUME NEW k \in 0 .. (n - 1), k \in T PROVE k + 1 \in T
    <2>1. k \in Nat /\ k + 1 \in Nat /\ k + 1 \in 1 .. n /\ (k + 1) - 1 = k
      BY <1>1
    <2>2. f[k + 1] = UpdateIfDue(f[k])
      BY <1>2, <2>1
    <2>3. UpdatedWell(v, f[k], k)
      BY <1>4
    <2>4. UpdatedWell(v, f[k + 1], k + 1)
      BY <1>1, <2>2, <2>3, UpdatedWellStep
    <2> QED
      BY <2>1, <2>4
  <1>5. n \in T
    <2> HIDE DEF T
    <2>1. n \in 0 .. n
      BY <1>1
    <2> QED
      BY <1>1, <1>3, <1>4, <2>1, RoundsInduction
  <1>6. UpdatedWell(v, Updated(v), n)
    BY <1>2, <1>5
  <1> DEFINE w == Updated(v)
  <1> HIDE DEF w
  <1>7. UpdatedWell(v, w, n)
    BY <1>6 DEF w
  <1>8. w \in Seq(Subscription) /\ Len(w) = n /\ DOMAIN w = 1 .. n
    BY <1>7 DEF UpdatedWell
  <1>9. \A i \in DOMAIN w : w[i].left > 0
    <2> TAKE i \in DOMAIN w
    <2>1. i > n - n
      BY <1>1, <1>8
    <2> QED
      BY <1>7, <2>1 DEF UpdatedWell
  <1>10. /\ w \in Seq(Subscription) /\ Len(w) = Len(v)
         /\ Sorted(w) /\ OncePerSession(w)
         /\ \A i \in DOMAIN w : Regular(w[i]) /\ w[i].left > 0
    BY <1>7, <1>9 DEF UpdatedWell
  <1> QED
    BY <1>10 DEF w

(* Subscriptions r that are among those of v *)
Among(r, v) ==
    /\ r \in Seq(Subscription) /\ Sorted(r) /\ OncePerSession(r)
    /\ \A j \in DOMAIN r : \E k \in DOMAIN v : r[j] = v[k]

(* A session has one place in the box *)
LEMMA OnlyPosition ==
    ASSUME NEW v \in Seq(Subscription), OncePerSession(v), NEW s, NEW i \in Positions(v, s)
    PROVE  /\ Positions(v, s) = {i} /\ Min(Positions(v, s)) = i
           /\ i \in 1 .. Len(v) /\ v[i].session = s
  <1>1. Positions(v, s) = {i} /\ i \in 1 .. Len(v) /\ v[i].session = s
    BY DEF Positions, OncePerSession
  <1>2. Min({i}) = i
    BY <1>1 DEF Min
  <1> QED
    BY <1>1, <1>2

(* SubscriptionsBox::remove *)
LEMMA RemovalIsAmong ==
    ASSUME NEW v \in Seq(Subscription), Sorted(v), OncePerSession(v), NEW s
    PROVE  Among(RemoveSubscription(v, s), v)
  <1> DEFINE r == RemoveSubscription(v, s)
             n == Len(v)
  <1>1. CASE Positions(v, s) = {}
    <2>1. r = v
      BY <1>1 DEF RemoveSubscription
    <2> QED
      BY <2>1 DEF Among
  <1>2. CASE Positions(v, s) # {}
    <2>1. PICK i \in Positions(v, s) : TRUE
      BY <1>2
    <2>2. r = RemoveAt(v, i) /\ i \in 1 .. n
      BY <1>2, <2>1, OnlyPosition DEF RemoveSubscription
    <2>3. n \in Nat /\ DOMAIN v = 1 .. n
      OBVIOUS
    <2>4. r \in Seq(Subscription) /\ Len(r) = n - 1
      BY <2>2, RemovedFrom
    <2>5. (\A j \in 1 .. (i - 1) : r[j] = v[j]) /\ (\A j \in i .. (n - 1) : r[j] = v[j + 1])
      BY <2>2, RemovedFrom
    <2> DEFINE from(j) == IF j < i THEN j ELSE j + 1
    <2> HIDE DEF r, n
    <2>6. DOMAIN r = 1 .. (n - 1)
      BY <2>3, <2>4
    <2>7. \A j \in 1 .. (n - 1) : r[j] = v[from(j)] /\ from(j) \in 1 .. n
      <3> TAKE j \in 1 .. (n - 1)
      <3>1. (j < i => j \in 1 .. (i - 1)) /\ (~(j < i) => j \in i .. (n - 1))
        BY <2>2, <2>3
      <3>2. r[j] = v[from(j)]
        BY <2>5, <3>1
      <3>3. from(j) \in 1 .. n
        BY <2>2, <2>3
      <3> QED
        BY <3>2, <3>3
    <2>8. \A j, k \in 1 .. (n - 1) : (j <= k => from(j) <= from(k)) /\ (from(j) = from(k) => j = k)
      BY <2>2, <2>3
    <2> HIDE DEF from
    <2>9. Sorted(r)
      BY <2>3, <2>6, <2>7, <2>8 DEF Sorted
    <2>10. OncePerSession(r)
      BY <2>3, <2>6, <2>7, <2>8 DEF OncePerSession
    <2>11. \A j \in DOMAIN r : \E k \in DOMAIN v : r[j] = v[k]
      BY <2>3, <2>6, <2>7
    <2>12. Among(r, v)
      BY <2>4, <2>9, <2>10, <2>11 DEF Among
    <2> QED
      BY <2>12 DEF r
  <1> QED
    BY <1>1, <1>2

(* SubscriptionsBox::add: the session has the new period, and no other subscription *)
LEMMA AddSubscribes ==
    ASSUME NEW v \in Seq(Subscription), Sorted(v), OncePerSession(v),
           NEW s \in Clients, NEW period \in Nat
    PROVE  LET r == Add(v, s, period) IN
           /\ r \in Seq(Subscription) /\ Sorted(r) /\ OncePerSession(r)
           /\ \A j \in DOMAIN r :
                 \/ r[j] = Item(s, period)
                 \/ \E k \in DOMAIN v : r[j] = v[k] /\ v[k].session # s
  <1> DEFINE x == Item(s, period)
             n == Len(v)
             r == Add(v, s, period)
             Promised(w) == /\ w \in Seq(Subscription) /\ Sorted(w) /\ OncePerSession(w)
                            /\ \A j \in DOMAIN w :
                                  \/ w[j] = Item(s, period)
                                  \/ \E k \in DOMAIN v : w[j] = v[k] /\ v[k].session # s
  <1> SUFFICES Promised(r)
    OBVIOUS
  <1>1. x \in Subscription /\ x.session = s
    BY DEF Item, Subscription
  <1>2. n \in Nat /\ DOMAIN v = 1 .. n
    OBVIOUS
  <1>3. ASSUME NEW u \in Seq(Subscription), NEW i \in 1 .. Len(u), u[i] = x,
               \A j \in 1 .. Len(u) : j # i => j \in 1 .. n /\ u[j] = v[j] /\ v[j].session # s
        PROVE  Promised(PlaceItem(u, i))
    <2> DEFINE w == PlaceItem(u, i)
    <2>1. DOMAIN u = 1 .. Len(u)
      OBVIOUS
    <2>2. OncePerSession(u)
      BY <1>1, <1>2, <1>3, <2>1 DEF OncePerSession
    <2>3. SortedBut(u, i)
      BY <1>2, <1>3, <2>1 DEF SortedBut, Sorted
    <2>4. Placed(w, u, i)
      BY <1>3, <2>2, <2>3, PlaceItemSorts
    <2> HIDE DEF w, x
    <2>5. w \in Seq(Subscription) /\ Sorted(w) /\ OncePerSession(w)
      BY <2>4 DEF Placed
    <2>6. ASSUME NEW j \in DOMAIN w
          PROVE  w[j] = x \/ \E k \in DOMAIN v : w[j] = v[k] /\ v[k].session # s
      <3>1. PICK k \in DOMAIN u : w[j] = u[k]
        BY <2>4 DEF Placed
      <3> QED
        BY <1>2, <1>3, <2>1, <3>1
    <2> QED
      BY <2>5, <2>6 DEF x, w
  <1>4. CASE Positions(v, s) # {}
    <2>1. PICK i \in Positions(v, s) : TRUE
      BY <1>4
    <2>2. Positions(v, s) = {i} /\ Min(Positions(v, s)) = i /\ i \in 1 .. n
      BY <2>1, OnlyPosition
    <2> DEFINE u == [v EXCEPT ![i] = x]
    <2>3. r = PlaceItem(u, i)
      BY <1>4, <2>2 DEF Add
    <2>4. \A j \in 1 .. n : j # i => v[j].session # s
      BY <1>2, <2>2 DEF Positions
    <2> HIDE DEF x, r
    <2>5. u \in Seq(Subscription) /\ Len(u) = n /\ u[i] = x /\ \A j \in 1 .. n : j # i => u[j] = v[j]
      BY <1>1, <1>2, <2>2
    <2> HIDE DEF u, Promised
    <2>6. i \in 1 .. Len(u) /\ \A j \in 1 .. Len(u) : j # i => j \in 1 .. n /\ u[j] = v[j] /\ v[j].session # s
      BY <2>2, <2>4, <2>5
    <2>7. Promised(PlaceItem(u, i))
      BY <1>3, <2>5, <2>6
    <2> QED
      BY <2>3, <2>7
  <1>5. CASE Positions(v, s) = {}
    <2> DEFINE u == Append(v, x)
               i == n + 1
    <2>1. r = PlaceItem(u, i)
      BY <1>5 DEF Add
    <2>2. \A j \in 1 .. n : v[j].session # s
      BY <1>2, <1>5 DEF Positions
    <2> HIDE DEF x, r
    <2>3. u \in Seq(Subscription) /\ Len(u) = n + 1 /\ u[n + 1] = x /\ \A j \in 1 .. n : u[j] = v[j]
      BY <1>1, <1>2
    <2>4. i \in 1 .. Len(u) /\ \A j \in 1 .. Len(u) : j # i => j \in 1 .. n
      BY <1>2, <2>3
    <2> HIDE DEF u
    <2>5. u[i] = x
      BY <2>3
    <2> HIDE DEF i, Promised
    <2>6. \A j \in 1 .. Len(u) : j # i => j \in 1 .. n /\ u[j] = v[j] /\ v[j].session # s
      BY <2>2, <2>3, <2>4
    <2>7. Promised(PlaceItem(u, i))
      BY <1>3, <2>3, <2>4, <2>5, <2>6
    <2> QED
      BY <2>1, <2>7
  <1> QED
    BY <1>4, <1>5

(* The subscriptions: sorted, one per session, in step with the time since they were made;
   none is overdue when a cycle begins *)
SubscriptionsInv ==
    /\ kind \in {"SystemClock", "Ship"}
    /\ since \in [Clients -> Nat]
    /\ m_subscriptions \in Seq(Subscription) /\ Sorted(m_subscriptions)
    /\ OncePerSession(m_subscriptions)
    /\ \A i \in DOMAIN m_subscriptions : Regular(m_subscriptions[i])
    /\ sphase = "receive" => \A i \in DOMAIN m_subscriptions : m_subscriptions[i].left > 0
    /\ m_subscriptions # <<>> => active
    /\ sphase = "hung" => kind = "SystemClock"

(* The constants are times *)
LEMMA SubscriberConstants ==
    /\ Periods \subseteq Nat /\ Intervals \subseteq Nat /\ Waits \subseteq Int
    /\ PeriodSpan \in Nat \ {0} /\ MinPeriod \in Nat \ {0} /\ MaxPeriod \in Nat \ {0}
    /\ MaxPeriod < PeriodSpan
  BY SubscribersAssumption

(* The larger and the smaller of two numbers *)
LEMMA LargerSmaller ==
    ASSUME NEW a \in Nat, NEW b \in Nat
    PROVE  /\ Max({a, b}) \in {a, b} /\ Max({a, b}) >= a /\ Max({a, b}) >= b
           /\ Min({a, b}) \in {a, b} /\ Min({a, b}) <= a /\ Min({a, b}) <= b
  <1>1. \E x \in {a, b} : \A y \in {a, b} : x >= y
    OBVIOUS
  <1>2. \E x \in {a, b} : \A y \in {a, b} : x <= y
    OBVIOUS
  <1>3. Max({a, b}) \in {a, b} /\ \A y \in {a, b} : Max({a, b}) >= y
    BY <1>1 DEF Max
  <1>4. Min({a, b}) \in {a, b} /\ \A y \in {a, b} : Min({a, b}) <= y
    BY <1>2 DEF Min
  <1> QED
    BY <1>3, <1>4

(* Fewer subscriptions keep to it *)
LEMMA FewerSubscriptions ==
    ASSUME SubscriptionsInv, NEW s, m_subscriptions' = RemoveSubscription(m_subscriptions, s),
           UNCHANGED <<kind, sphase, active, since>>
    PROVE  SubscriptionsInv'
  <1>1. Among(m_subscriptions', m_subscriptions)
    BY RemovalIsAmong DEF SubscriptionsInv
  <1>2. m_subscriptions' \in Seq(Subscription) /\ Sorted(m_subscriptions') /\ OncePerSession(m_subscriptions')
    BY <1>1 DEF Among
  <1>3. ASSUME NEW j \in DOMAIN m_subscriptions'
        PROVE  /\ Regular(m_subscriptions'[j])
               /\ sphase = "receive" => m_subscriptions'[j].left > 0
    <2>1. PICK k \in DOMAIN m_subscriptions : m_subscriptions'[j] = m_subscriptions[k]
      BY <1>1 DEF Among
    <2> QED
      BY <2>1 DEF SubscriptionsInv
  <1>4. m_subscriptions' # <<>> => m_subscriptions # <<>>
    <2> SUFFICES ASSUME m_subscriptions' # <<>>, m_subscriptions = <<>> PROVE FALSE
      OBVIOUS
    <2>1. 1 \in DOMAIN m_subscriptions' /\ DOMAIN m_subscriptions = {}
      BY <1>2
    <2> QED
      BY <1>1, <2>1 DEF Among
  <1>5. \A j \in DOMAIN m_subscriptions' : Regular(m_subscriptions[j])'
    BY <1>3 DEF Regular
  <1> QED
    BY <1>2, <1>3, <1>4, <1>5 DEF SubscriptionsInv

(* A subscription that is new or changed *)
LEMMA SubscribeKeeps ==
    ASSUME SubscriptionsInv, sphase = "handle", NEW s \in Clients, NEW ms \in Nat, Subscribe(s, ms),
           kind = "Ship" => ms % PeriodSpan > 0, UNCHANGED <<kind, sphase>>
    PROVE  SubscriptionsInv'
  <1> DEFINE p == ms % PeriodSpan
             r == Add(m_subscriptions, s, p)
  <1>1. p \in Nat
    BY SubscriberConstants, Remainders
  <1>2. m_subscriptions' = r /\ since' = [since EXCEPT ![s] = 0] /\ active' = TRUE
    BY DEF Subscribe
  <1>3. kind = "Ship" => p > 0
    OBVIOUS
  <1> HIDE DEF p
  <1>4. /\ r \in Seq(Subscription) /\ Sorted(r) /\ OncePerSession(r)
        /\ \A j \in DOMAIN r :
              \/ r[j] = Item(s, p)
              \/ \E k \in DOMAIN m_subscriptions : r[j] = m_subscriptions[k] /\ m_subscriptions[k].session # s
    BY <1>1, AddSubscribes DEF SubscriptionsInv
  <1> HIDE DEF r
  <1>5. since' \in [Clients -> Nat] /\ since'[s] = 0 /\ \A c \in Clients : c # s => since'[c] = since[c]
    BY <1>2 DEF SubscriptionsInv
  <1>6. ASSUME NEW j \in DOMAIN r
        PROVE  /\ r[j].period > 0 => InStep(r[j].period, r[j].left, since'[r[j].session])
               /\ kind = "Ship" => r[j].period > 0
    <2>1. CASE r[j] = Item(s, p)
      <3>1. r[j].period = p /\ r[j].left = p /\ r[j].session = s
        BY <2>1 DEF Item
      <3>2. p > 0 => InStep(p, p, 0)
        <4>1. p > 0 => 0 % p = 0 /\ p - p = 0 /\ p <= p
          BY <1>1, Remainders
        <4> QED
          BY <4>1 DEF InStep
      <3> QED
        BY <1>3, <1>5, <3>1, <3>2
    <2>2. ASSUME NEW k \in DOMAIN m_subscriptions, r[j] = m_subscriptions[k], m_subscriptions[k].session # s
          PROVE  /\ r[j].period > 0 => InStep(r[j].period, r[j].left, since'[r[j].session])
                 /\ kind = "Ship" => r[j].period > 0
      <3>1. Regular(r[j])
        BY <2>2 DEF SubscriptionsInv
      <3>2. r[j] \in Subscription
        BY <1>4
      <3>3. r[j].session \in Clients
        BY <3>2 DEF Subscription
      <3>4. since'[r[j].session] = since[r[j].session]
        BY <1>5, <2>2, <3>3
      <3> QED
        BY <3>1, <3>4 DEF Regular
    <2> QED
      BY <1>4, <2>1, <2>2
  <1>7. \A j \in DOMAIN m_subscriptions' : Regular(m_subscriptions[j])'
    BY <1>2, <1>6 DEF Regular
  <1> QED
    BY <1>2, <1>4, <1>5, <1>7 DEF SubscriptionsInv

(* SystemClock::monitoring and Ship::handleMonitorRequest: the limits of Ship keep the period
   from being 0 *)
LEMMA MonitoringKeeps ==
    ASSUME SubscriptionsInv, NEW s \in Clients, NEW ms \in Periods,
           Monitoring(s, ms) \/ HandleMonitorRequest(s, ms)
    PROVE  SubscriptionsInv'
  <1>1. ms \in Nat /\ MinPeriod \in Nat /\ MinPeriod > 0 /\ MaxPeriod \in Nat /\ MaxPeriod > 0
        /\ PeriodSpan \in Nat \ {0} /\ MaxPeriod < PeriodSpan
    BY SubscriberConstants
  <1> DEFINE m == Max({ms, MinPeriod})
  <1>2. m \in Nat /\ m > 0
    <2>1. m \in {ms, MinPeriod} /\ m >= MinPeriod
      BY <1>1, LargerSmaller
    <2> HIDE DEF m
    <2> QED
      BY <1>1, <2>1
  <1>3. CASE Monitoring(s, ms)
    <2>1. sphase = "handle" /\ kind # "Ship" /\ Subscribe(s, m) /\ UNCHANGED <<kind, sphase>>
      BY <1>3 DEF Monitoring, From
    <2> HIDE DEF m
    <2> QED
      BY <1>2, <2>1, SubscribeKeeps
  <1>4. CASE HandleMonitorRequest(s, ms) /\ ms > 0
    <2> HIDE DEF m
    <2> DEFINE p == Min({m, MaxPeriod})
    <2>1. p \in {m, MaxPeriod} /\ p <= MaxPeriod
      BY <1>1, <1>2, LargerSmaller
    <2>2. sphase = "handle" /\ Subscribe(s, p) /\ UNCHANGED <<kind, sphase>>
      BY <1>4 DEF HandleMonitorRequest, From, m
    <2> HIDE DEF p
    <2>3. p \in Nat /\ p > 0 /\ p < PeriodSpan
      BY <1>1, <1>2, <2>1
    <2>4. p % PeriodSpan = p
      BY <1>1, <2>3, Remainders
    <2>5. p % PeriodSpan > 0
      BY <2>3, <2>4
    <2> QED
      BY <2>2, <2>3, <2>5, SubscribeKeeps
  <1>5. CASE HandleMonitorRequest(s, ms) /\ ~(ms > 0)
    <2>1. m_subscriptions' = RemoveSubscription(m_subscriptions, s) /\ UNCHANGED <<kind, sphase, active, since>>
      BY <1>5 DEF HandleMonitorRequest, From
    <2> QED
      BY <2>1, FewerSubscriptions
  <1> QED
    BY <1>3, <1>4, <1>5

(* Time goes on for an item and for its session *)
LEMMA TimeInStep ==
    ASSUME NEW p \in Nat \ {0}, NEW left \in Int, NEW t, InStep(p, left, t), NEW dt \in Nat
    PROVE  InStep(p, left - dt, (t + dt) % p)
  <1> DEFINE a == p - left
  <1>1. a \in Nat /\ left - dt <= p /\ p - (left - dt) = a + dt
    BY DEF InStep
  <1>2. t = a % p
    BY DEF InStep
  <1> HIDE DEF a
  <1>3. ((a % p) + dt) % p = (a + dt) % p
    BY <1>1, Remainders
  <1> QED
    BY <1>1, <1>2, <1>3 DEF InStep

(* A new cycle: all times are less by as much, and stay sorted *)
LEMMA NextCycleKeeps ==
    ASSUME SubscriptionsInv, NEW dt \in Intervals, NextCycle(dt)
    PROVE  SubscriptionsInv'
  <1> DEFINE v == m_subscriptions
             n == Len(v)
             w == [i \in DOMAIN v |-> [v[i] EXCEPT !.left = v[i].left - dt]]
  <1>1. dt \in Nat
    BY SubscriberConstants
  <1>2. m_subscriptions' = w /\ sphase' = "handle" /\ UNCHANGED <<kind, active>>
    BY DEF NextCycle
  <1>3. v \in Seq(Subscription) /\ n \in Nat /\ DOMAIN v = 1 .. n /\ Sorted(v) /\ OncePerSession(v)
    BY DEF SubscriptionsInv
  <1>4. \A i \in 1 .. n : v[i] \in Subscription
    BY <1>3
  <1>5. \A i \in 1 .. n : /\ v[i].left \in Int /\ v[i].period \in Nat /\ v[i].session \in Clients
                          /\ v[i].left - dt \in Int
    BY <1>1, <1>4 DEF Subscription
  <1>6. \A i \in 1 .. n : /\ w[i] \in Subscription /\ w[i].left = v[i].left - dt
                          /\ w[i].period = v[i].period /\ w[i].session = v[i].session
    BY <1>3, <1>4, <1>5 DEF Subscription
  <1>7. w \in Seq(Subscription) /\ DOMAIN w = 1 .. n /\ Len(w) = n
    <2>1. DOMAIN w = 1 .. n /\ w = [i \in 1 .. n |-> w[i]]
      BY <1>3
    <2> HIDE DEF w, n
    <2>2. w \in [1 .. n -> Subscription]
      BY <1>6, <2>1
    <2> QED
      BY <1>3, <2>1, <2>2
  <1>8. since' \in [Clients -> Nat] /\ \A i \in 1 .. n : v[i].period > 0 =>
            since'[v[i].session] = (since[v[i].session] + dt) % v[i].period
    <2> DEFINE P(s) == {v[i].period : i \in Positions(v, s)}
               T(s) == IF P(s) \ {0} = {} THEN 0 ELSE (since[s] + dt) % Max(P(s))
    <2>1. since' = [s \in Clients |-> T(s)]
      BY DEF NextCycle
    <2>2. since \in [Clients -> Nat]
      BY DEF SubscriptionsInv
    <2>3. \A s \in Clients : \A i \in 1 .. n :
             v[i].session = s => P(s) = {v[i].period} /\ Max(P(s)) = v[i].period
      <3> TAKE s \in Clients
      <3> TAKE i \in 1 .. n
      <3> HAVE v[i].session = s
      <3>1. i \in Positions(v, s)
        BY <1>3 DEF Positions
      <3>2. Positions(v, s) = {i}
        BY <1>3, <3>1, OnlyPosition
      <3>3. P(s) = {v[i].period}
        BY <3>2
      <3>4. Max({v[i].period}) = v[i].period
        BY <1>5 DEF Max
      <3> QED
        BY <3>3, <3>4
    <2>4. \A s \in Clients : (\A i \in 1 .. n : v[i].session # s) => P(s) = {}
      BY <1>3 DEF Positions
    <2> HIDE DEF P
    <2>5. \A s \in Clients : T(s) \in Nat
      <3> TAKE s \in Clients
      <3>1. CASE P(s) \ {0} = {}
        BY <3>1
      <3>2. CASE P(s) \ {0} # {}
        <4>1. PICK i \in 1 .. n : v[i].session = s
          BY <2>4, <3>2
        <4>2. P(s) = {v[i].period} /\ Max(P(s)) = v[i].period /\ v[i].period \in Nat
          BY <1>5, <2>3, <4>1
        <4>3. v[i].period # 0
          BY <3>2, <4>2
        <4> DEFINE p == v[i].period
        <4>4. p \in Nat \ {0} /\ Max(P(s)) = p
          BY <4>2, <4>3
        <4> HIDE DEF p
        <4>5. since[s] + dt \in Nat
          BY <1>1, <2>2
        <4> DEFINE t == since[s] + dt
        <4>6. (since[s] + dt) % p \in Nat
          <5>1. t \in Nat
            BY <4>5
          <5> HIDE DEF t
          <5>2. t % p \in 0 .. (p - 1)
            BY <4>4, <5>1, Remainders
          <5>3. t % p \in Nat
            BY <4>4, <5>2
          <5> QED
            BY <5>3 DEF t
        <4> QED
          BY <3>2, <4>4, <4>6
      <3> QED
        BY <3>1, <3>2
    <2>6. ASSUME NEW i \in 1 .. n, v[i].period > 0
          PROVE  T(v[i].session) = (since[v[i].session] + dt) % v[i].period
      <3>1. P(v[i].session) = {v[i].period} /\ Max(P(v[i].session)) = v[i].period
        BY <1>5, <2>3
      <3>2. P(v[i].session) \ {0} # {}
        BY <1>5, <2>6, <3>1
      <3> QED
        BY <3>1, <3>2
    <2> HIDE DEF T
    <2> QED
      BY <1>5, <2>1, <2>5, <2>6
  <1> HIDE DEF w, n, v
  <1>9. Sorted(w)
    <2> SUFFICES ASSUME NEW j \in 1 .. n, NEW k \in 1 .. n, j <= k PROVE w[j].left <= w[k].left
      BY <1>7 DEF Sorted
    <2>1. v[j].left <= v[k].left
      BY <1>3 DEF Sorted
    <2> QED
      BY <1>1, <1>5, <1>6, <2>1
  <1>10. OncePerSession(w)
    BY <1>3, <1>6, <1>7 DEF OncePerSession
  <1>11. ASSUME NEW i \in 1 .. n
         PROVE  /\ w[i].period > 0 => InStep(w[i].period, w[i].left, since'[w[i].session])
                /\ kind = "Ship" => w[i].period > 0
    <2>1. Regular(v[i])
      BY <1>3 DEF SubscriptionsInv, v
    <2>2. ASSUME w[i].period > 0
          PROVE  InStep(w[i].period, w[i].left, since'[w[i].session])
      <3> DEFINE p == v[i].period
                 t == since[v[i].session]
                 left == v[i].left
      <3>1. p \in Nat \ {0} /\ left \in Int /\ w[i].period = p /\ w[i].left = left - dt
        BY <1>5, <1>6, <2>2
      <3>2. InStep(p, left, t)
        BY <1>6, <2>1, <2>2 DEF Regular
      <3>3. since'[w[i].session] = (t + dt) % p
        BY <1>6, <1>8, <2>2
      <3> HIDE DEF p, t, left
      <3>4. InStep(p, left - dt, (t + dt) % p)
        BY <1>1, <3>1, <3>2, TimeInStep
      <3> QED
        BY <3>1, <3>3, <3>4
    <2> QED
      BY <1>6, <2>1, <2>2 DEF Regular
  <1>12. \A i \in DOMAIN m_subscriptions' : Regular(m_subscriptions[i])'
    BY <1>2, <1>7, <1>11 DEF Regular
  <1>13. m_subscriptions' # <<>> => m_subscriptions # <<>>
    <2>1. w # <<>> => v # <<>>
      BY <1>3, <1>7
    <2> QED
      BY <1>2, <2>1 DEF v
  <1> QED
    BY <1>2, <1>7, <1>8, <1>9, <1>10, <1>12, <1>13 DEF SubscriptionsInv

(* proceed() *)
LEMMA ProceedSubscriptionsKeeps ==
    ASSUME SubscriptionsInv, ProceedSubscribers
    PROVE  SubscriptionsInv'
  <1>1. UNCHANGED <<kind, since>>
    BY DEF ProceedSubscribers
  <1>2. CASE ~active
    <2>1. m_subscriptions = <<>> /\ UNCHANGED <<active, m_subscriptions>> /\ sphase' = "receive"
      BY <1>2 DEF ProceedSubscribers, SubscriptionsInv
    <2>2. DOMAIN m_subscriptions = {}
      BY <2>1
    <2> QED
      BY <1>1, <2>1, <2>2 DEF SubscriptionsInv, Regular
  <1>3. CASE active /\ NeverEnds(m_subscriptions)
    <2>1. UNCHANGED <<active, m_subscriptions>> /\ sphase' = "hung"
      BY <1>3 DEF ProceedSubscribers
    <2>2. PICK i \in DOMAIN m_subscriptions : m_subscriptions[i].period = 0
      BY <1>3 DEF NeverEnds
    <2>3. kind # "Ship"
      BY <2>2 DEF SubscriptionsInv, Regular
    <2>4. \A j \in DOMAIN m_subscriptions' : Regular(m_subscriptions[j])'
      BY <1>1, <2>1 DEF SubscriptionsInv, Regular
    <2> QED
      BY <1>1, <2>1, <2>3, <2>4 DEF SubscriptionsInv
  <1>4. CASE active /\ ~NeverEnds(m_subscriptions)
    <2> DEFINE w == Updated(m_subscriptions)
    <2>1. /\ m_subscriptions' = w /\ sphase' = "receive"
          /\ m_subscriptions # <<>> => active'
      BY <1>4 DEF ProceedSubscribers
    <2>2. /\ w \in Seq(Subscription) /\ Len(w) = Len(m_subscriptions)
          /\ Sorted(w) /\ OncePerSession(w)
          /\ \A i \in DOMAIN w : Regular(w[i]) /\ w[i].left > 0
      BY <1>4, UpdatedInFuture DEF SubscriptionsInv
    <2> HIDE DEF w
    <2>3. w # <<>> => m_subscriptions # <<>>
      BY <2>2
    <2>4. \A j \in DOMAIN m_subscriptions' : Regular(m_subscriptions[j])'
      BY <1>1, <2>1, <2>2 DEF Regular
    <2> QED
      BY <1>1, <2>1, <2>2, <2>3, <2>4 DEF SubscriptionsInv
  <1> QED
    BY <1>2, <1>3, <1>4

(* Every action keeps the subscriptions so *)
LEMMA SubscriptionsStep ==
    ASSUME SubscriptionsInv, [SubscribersNext]_subscribersVars
    PROVE  SubscriptionsInv'
  <1>1. CASE UNCHANGED subscribersVars
    BY <1>1 DEF subscribersVars, SubscriptionsInv, Regular
  <1>2. ASSUME NEW s \in Clients, OnClientClosed(s) PROVE SubscriptionsInv'
    BY <1>2, FewerSubscriptions DEF OnClientClosed
  <1>3. ASSUME NEW s \in Clients, WaitUntilZero(s) \/ \E w \in Waits : WaitUntil(s, w) PROVE SubscriptionsInv'
    <2>1. UNCHANGED <<kind, sphase, m_subscriptions, since>> /\ active' = TRUE
      BY <1>3 DEF WaitUntilZero, WaitUntil, From
    <2> QED
      BY <2>1 DEF SubscriptionsInv, Regular
  <1>4. ASSUME NEW s \in Clients, NEW p \in Periods, Monitoring(s, p) \/ HandleMonitorRequest(s, p)
        PROVE  SubscriptionsInv'
    BY <1>4, MonitoringKeeps
  <1>5. ASSUME NEW dt \in Intervals, NextCycle(dt) PROVE SubscriptionsInv'
    BY <1>5, NextCycleKeeps
  <1>6. CASE ProceedSubscribers
    BY <1>6, ProceedSubscriptionsKeeps
  <1> QED
    BY <1>1, <1>2, <1>3, <1>4, <1>5, <1>6 DEF SubscribersNext

Ring == [session : Clients \cup {NobodyId}, valid : BOOLEAN, left : Int]

(* The valid rings are sorted, the next one to ring is the last *)
Descending(v) ==
    \A j, k \in DOMAIN v : j <= k /\ v[j].valid /\ v[k].valid => v[j].left >= v[k].left
RingsInv ==
    /\ m_rings \in Seq(Ring) /\ Descending(m_rings)
    /\ sphase = "receive" => \A i \in DOMAIN m_rings : m_rings[i].valid => m_rings[i].left > 0
    /\ (\E i \in DOMAIN m_rings : m_rings[i].valid) => active

(* Rings have times *)
LEMMA RingFacts ==
    ASSUME NEW v \in Seq(Ring)
    PROVE  /\ Len(v) \in Nat /\ DOMAIN v = 1 .. Len(v)
           /\ \A i \in 1 .. Len(v) : v[i] \in Ring /\ v[i].left \in Int
  <1>1. Len(v) \in Nat /\ DOMAIN v = 1 .. Len(v) /\ \A i \in 1 .. Len(v) : v[i] \in Ring
    OBVIOUS
  <1> QED
    BY <1>1 DEF Ring

(* A record of a ring with another session *)
LEMMA RingOfAnother ==
    ASSUME NEW a, NEW b, NEW c, NEW s
    PROVE  [[session |-> a, valid |-> b, left |-> c] EXCEPT !.session = s]
              = [session |-> s, valid |-> b, left |-> c]
  OBVIOUS

(* A ring that was never set, or is forgotten *)
LEMMA NoRingIsRing ==
    /\ NoRing \in Ring /\ ~NoRing.valid
    /\ \A s \in Clients : [NoRing EXCEPT !.session = s] \in Ring
  <1>1. NoRing \in Ring
    BY DEF NoRing, Ring
  <1>2. ~NoRing.valid
    BY DEF NoRing
  <1>3. ASSUME NEW s \in Clients PROVE [NoRing EXCEPT !.session = s] \in Ring
    <2>1. [NoRing EXCEPT !.session = s] = [session |-> s, valid |-> FALSE, left |-> 0]
      BY RingOfAnother, ZenonT(40) DEF NoRing
    <2>2. [session |-> s, valid |-> FALSE, left |-> 0] \in Ring
      BY DEF Ring
    <2> QED
      BY <2>1, <2>2
  <1> QED
    BY <1>1, <1>2, <1>3

(* A new ring is put behind all later ones *)
LEMMA RingIsDrawn ==
    ASSUME NEW v \in Seq(Ring), Descending(v), NEW x \in Ring
    PROVE  DrawnLastRing(Append(v, x)) \in Seq(Ring) /\ Descending(DrawnLastRing(Append(v, x)))
  <1> DEFINE n == Len(v)
             T == {j \in DOMAIN v : After(v[j], x)}
             m == Max({0} \cup T)
             p == 1 + m
             w == InsertAt(v, p, x)
  <1>1. n \in Nat /\ DOMAIN v = 1 .. n /\ \A i \in 1 .. n : v[i] \in Ring /\ v[i].left \in Int
    BY RingFacts
  <1>2. x.left \in Int
    BY DEF Ring
  <1>3. m \in 0 .. n /\ (m = 0 \/ m \in T) /\ \A j \in T : j <= m
    <2>1. T \subseteq 1 .. n
      BY <1>1
    <2> HIDE DEF T, n
    <2> QED
      BY <1>1, <2>1, LastOf
  <1>4. DrawnLastRing(Append(v, x)) = w
    <2> DEFINE a == Append(v, x)
    <2>1. a \in Seq(Ring) /\ Len(a) = n + 1 /\ a[n + 1] = x /\ \A i \in 1 .. n : a[i] = v[i]
      BY <1>1
    <2>2. Last(a) = x
      BY <2>1 DEF Last
    <2> HIDE DEF a
    <2>3. Front(a) = v
      <3> DEFINE f == SubSeq(a, 1, n)
      <3>1. Front(a) = f
        BY <1>1, <2>1 DEF Front
      <3>2. f \in Seq(Ring) /\ Len(f) = n /\ \A i \in 1 .. n : f[i] = a[i]
        BY <1>1, <2>1
      <3> HIDE DEF f
      <3>3. f = v
        BY <1>1, <2>1, <3>2, SeqEqual
      <3> QED
        BY <3>1, <3>3
    <2> QED
      BY <2>2, <2>3 DEF DrawnLastRing, a
  <1> HIDE DEF m
  <1>5. p \in 1 .. (n + 1)
    BY <1>1, <1>3
  <1>6. w \in Seq(Ring) /\ Len(w) = n + 1 /\ w[p] = x
    <2> HIDE DEF p
    <2> QED
      BY <1>5, InsertedAt
  <1>7. (\A j \in 1 .. (p - 1) : w[j] = v[j]) /\ (\A j \in (p + 1) .. (n + 1) : w[j] = v[j - 1])
    <2> HIDE DEF p
    <2> QED
      BY <1>5, InsertedAt
  <1> HIDE DEF w, n, p
  <1>8. ASSUME NEW j \in 1 .. n, x.valid, v[j].valid
        PROVE  (j < p => v[j].left >= x.left) /\ (j >= p => x.left >= v[j].left)
    <2>1. ASSUME j < p PROVE v[j].left >= x.left
      <3>1. j <= m /\ m \in 1 .. n /\ m \in T
        BY <1>1, <1>3, <2>1 DEF p
      <3>2. v[m].valid /\ v[m].left > x.left
        BY <1>8, <3>1 DEF After
      <3>3. v[j].left >= v[m].left
        BY <1>1, <1>8, <3>1, <3>2 DEF Descending
      <3> QED
        BY <1>1, <1>2, <3>1, <3>2, <3>3
    <2>2. ASSUME j >= p PROVE x.left >= v[j].left
      <3>1. ~(j <= m)
        BY <1>1, <1>3, <2>2 DEF p
      <3>2. ~After(v[j], x)
        BY <1>1, <1>3, <3>1
      <3> QED
        BY <1>1, <1>2, <1>8, <3>2 DEF After
    <2> QED
      BY <2>1, <2>2
  <1>9. ASSUME NEW j \in 1 .. (n + 1), NEW k \in 1 .. (n + 1), j <= k, w[j].valid, w[k].valid
        PROVE  w[j].left >= w[k].left
    <2>0. p \in Nat
      BY <1>1, <1>5
    <2>1. CASE j < p /\ k < p
      <3>1. w[j] = v[j] /\ w[k] = v[k] /\ j \in 1 .. n /\ k \in 1 .. n
        BY <1>1, <1>5, <1>7, <2>0, <2>1
      <3> QED
        BY <1>1, <1>9, <3>1 DEF Descending
    <2>2. CASE j < p /\ k = p
      <3>1. w[j] = v[j] /\ w[k] = x /\ j \in 1 .. n
        BY <1>1, <1>5, <1>6, <1>7, <2>0, <2>2
      <3> QED
        BY <1>8, <1>9, <2>2, <3>1
    <2>3. CASE j < p /\ k > p
      <3>1. w[j] = v[j] /\ w[k] = v[k - 1] /\ j \in 1 .. n /\ k - 1 \in 1 .. n /\ j <= k - 1
        BY <1>1, <1>5, <1>7, <2>0, <2>3
      <3> QED
        BY <1>1, <1>9, <3>1 DEF Descending
    <2>4. CASE j = p /\ k = p
      BY <1>2, <1>6, <2>4
    <2>5. CASE j = p /\ k > p
      <3>1. w[j] = x /\ w[k] = v[k - 1] /\ k - 1 \in 1 .. n /\ k - 1 >= p
        BY <1>1, <1>5, <1>6, <1>7, <2>0, <2>5
      <3> QED
        BY <1>8, <1>9, <3>1
    <2>6. CASE j > p
      <3>1. w[j] = v[j - 1] /\ w[k] = v[k - 1] /\ j - 1 \in 1 .. n /\ k - 1 \in 1 .. n /\ j - 1 <= k - 1
        BY <1>1, <1>5, <1>7, <1>9, <2>0, <2>6
      <3> QED
        BY <1>1, <1>9, <3>1 DEF Descending
    <2> QED
      BY <1>1, <1>9, <2>0, <2>1, <2>2, <2>3, <2>4, <2>5, <2>6
  <1>10. Descending(w)
    <2>1. DOMAIN w = 1 .. (n + 1)
      BY <1>6
    <2> QED
      BY <1>9, <2>1 DEF Descending
  <1> QED
    BY <1>4, <1>6, <1>10

(* onSessionClosed: a ring is forgotten *)
LEMMA ForgottenKeeps ==
    ASSUME NEW v \in Seq(Ring), Descending(v), NEW s
    PROVE  LET w == Forgotten(v, s) IN
           /\ w \in Seq(Ring) /\ Descending(w) /\ DOMAIN w = DOMAIN v
           /\ \A i \in DOMAIN w : w[i].valid => w[i] = v[i]
  <1> DEFINE w == Forgotten(v, s)
             n == Len(v)
             mine == {i \in DOMAIN v : v[i].session = s}
  <1> SUFFICES /\ w \in Seq(Ring) /\ Descending(w) /\ DOMAIN w = DOMAIN v
               /\ \A i \in DOMAIN w : w[i].valid => w[i] = v[i]
    OBVIOUS
  <1>1. n \in Nat /\ DOMAIN v = 1 .. n /\ \A i \in 1 .. n : v[i] \in Ring /\ v[i].left \in Int
    BY RingFacts
  <1>2. CASE mine = {}
    BY <1>2 DEF Forgotten
  <1>3. CASE mine # {}
    <2> DEFINE m == Min(mine)
    <2>1. mine \subseteq Nat /\ mine \subseteq 1 .. n
      BY <1>1
    <2>2. w = [v EXCEPT ![m] = NoRing]
      BY <1>3 DEF Forgotten
    <2>3. m \in 1 .. n
      <3> HIDE DEF mine
      <3>1. PICK x \in mine : \A j \in mine : x <= j
        BY <1>3, <2>1, LeastOne
      <3>2. Min(mine) \in mine
        BY <3>1 DEF Min
      <3> QED
        BY <2>1, <3>2
    <2> HIDE DEF m
    <2>4. DOMAIN w = 1 .. n /\ \A i \in 1 .. n : w[i] = IF i = m THEN NoRing ELSE v[i]
      BY <1>1, <2>2, <2>3
    <2>5. w \in Seq(Ring)
      BY <1>1, <2>2, <2>3, NoRingIsRing
    <2> HIDE DEF w
    <2>6. \A i \in 1 .. n : w[i].valid => w[i] = v[i]
      BY <2>4, NoRingIsRing
    <2>7. Descending(w)
      BY <1>1, <2>4, <2>6 DEF Descending
    <2> QED
      BY <1>1, <2>4, <2>5, <2>6, <2>7
  <1> QED
    BY <1>2, <1>3

(* proceed(): what is left has not to ring yet *)
LEMMA RungKeeps ==
    ASSUME NEW v \in Seq(Ring), Descending(v)
    PROVE  /\ Rung(v) \in Seq(Ring) /\ Descending(Rung(v))
           /\ \A i \in DOMAIN Rung(v) : i \in DOMAIN v /\ Rung(v)[i] = v[i] /\ (v[i].valid => v[i].left > 0)
  <1> DEFINE n == Len(v)
             T == {i \in DOMAIN v : v[i].valid /\ v[i].left > 0}
             m == Max({0} \cup T)
             w == SubSeq(v, 1, m)
  <1>1. n \in Nat /\ DOMAIN v = 1 .. n /\ \A i \in 1 .. n : v[i] \in Ring /\ v[i].left \in Int
    BY RingFacts
  <1>2. m \in 0 .. n /\ (m = 0 \/ m \in T)
    <2>1. T \subseteq 1 .. n
      BY <1>1
    <2> HIDE DEF T, n
    <2> QED
      BY <1>1, <2>1, LastOf
  <1>3. Rung(v) = w
    BY DEF Rung
  <1> HIDE DEF m
  <1>4. w \in Seq(Ring) /\ DOMAIN w = 1 .. m /\ \A i \in 1 .. m : i \in 1 .. n /\ w[i] = v[i]
    BY <1>1, <1>2
  <1> HIDE DEF w
  <1>5. \A i \in 1 .. m : v[i].valid => v[i].left > 0
    <2> TAKE i \in 1 .. m
    <2> HAVE v[i].valid
    <2>1. m \in T /\ m \in 1 .. n /\ i \in 1 .. n /\ i <= m
      BY <1>1, <1>2
    <2>2. v[i].left >= v[m].left /\ v[m].left > 0
      BY <1>1, <2>1 DEF Descending
    <2> QED
      BY <1>1, <2>1, <2>2
  <1>6. Descending(w)
    BY <1>1, <1>4 DEF Descending
  <1> QED
    BY <1>1, <1>3, <1>4, <1>5, <1>6

(* Time goes on for a ring that is valid *)
Elapsed(x, dt) == IF x.valid THEN [x EXCEPT !.left = x.left - dt] ELSE x

(* It stays a ring *)
LEMMA ElapsedRing ==
    ASSUME NEW x \in Ring, NEW dt \in Nat
    PROVE  /\ Elapsed(x, dt) \in Ring
           /\ Elapsed(x, dt).valid => x.valid /\ Elapsed(x, dt).left = x.left - dt
  <1>1. CASE x.valid
    <2> DEFINE y == [x EXCEPT !.left = x.left - dt]
    <2>1. x.left - dt \in Int
      BY DEF Ring
    <2>2. y \in Ring /\ y.left = x.left - dt
      BY <2>1 DEF Ring
    <2>3. Elapsed(x, dt) = y
      BY <1>1 DEF Elapsed
    <2> HIDE DEF y
    <2> QED
      BY <1>1, <2>2, <2>3
  <1>2. CASE ~x.valid
    BY <1>2 DEF Elapsed
  <1> QED
    BY <1>1, <1>2

(* Every action keeps the rings so *)
LEMMA RingsStep ==
    ASSUME RingsInv, SubscriptionsInv, [SubscribersNext]_subscribersVars
    PROVE  RingsInv'
  <1>1. CASE UNCHANGED subscribersVars
    BY <1>1 DEF subscribersVars, RingsInv
  <1>2. ASSUME NEW s \in Clients, OnClientClosed(s) PROVE RingsInv'
    <2>1. m_rings' = Forgotten(m_rings, s) /\ UNCHANGED <<sphase, active>>
      BY <1>2 DEF OnClientClosed
    <2>2. /\ m_rings' \in Seq(Ring) /\ Descending(m_rings') /\ DOMAIN m_rings' = DOMAIN m_rings
          /\ \A i \in DOMAIN m_rings' : m_rings'[i].valid => m_rings'[i] = m_rings[i]
      BY <2>1, ForgottenKeeps DEF RingsInv
    <2> QED
      BY <2>1, <2>2 DEF RingsInv
  <1>3. ASSUME NEW s \in Clients, WaitUntilZero(s) \/ \E w \in Waits : WaitUntil(s, w) PROVE RingsInv'
    <2>1. sphase = "handle" /\ sphase' = sphase /\ active' = TRUE
      BY <1>3 DEF WaitUntilZero, WaitUntil, From
    <2>2. PICK x \in Ring : m_rings' = DrawnLastRing(Append(m_rings, x))
      <3>1. CASE WaitUntilZero(s)
        BY <3>1, NoRingIsRing DEF WaitUntilZero
      <3>2. ASSUME NEW w \in Waits, WaitUntil(s, w)
            PROVE  \E x \in Ring : m_rings' = DrawnLastRing(Append(m_rings, x))
        <4>1. [session |-> s, valid |-> TRUE, left |-> w] \in Ring
          BY SubscriberConstants DEF Ring
        <4> QED
          BY <3>2, <4>1 DEF WaitUntil
      <3> QED
        BY <1>3, <3>1, <3>2
    <2>3. m_rings' \in Seq(Ring) /\ Descending(m_rings')
      BY <2>2, RingIsDrawn DEF RingsInv
    <2> QED
      BY <2>1, <2>3 DEF RingsInv
  <1>4. ASSUME NEW s \in Clients, NEW p \in Periods, Monitoring(s, p) \/ HandleMonitorRequest(s, p)
        PROVE  RingsInv'
    <2>1. m_rings' = m_rings /\ sphase' = sphase /\ (active' = TRUE \/ active' = active)
      BY <1>4 DEF Monitoring, HandleMonitorRequest, From, Subscribe
    <2> QED
      BY <2>1 DEF RingsInv
  <1>5. ASSUME NEW dt \in Intervals, NextCycle(dt) PROVE RingsInv'
    <2> DEFINE v == m_rings
               n == Len(v)
               w == [i \in DOMAIN v |-> Elapsed(v[i], dt)]
    <2>1. sphase' = "handle" /\ active' = active
      BY <1>5 DEF NextCycle
    <2>2. m_rings' = w
      BY <1>5 DEF NextCycle, Elapsed
    <2>3. v \in Seq(Ring) /\ Descending(v)
      BY DEF RingsInv
    <2>4. n \in Nat /\ DOMAIN v = 1 .. n /\ \A i \in 1 .. n : v[i] \in Ring /\ v[i].left \in Int
      BY <2>3, RingFacts
    <2>5. dt \in Nat
      BY SubscriberConstants
    <2>6. \A i \in 1 .. n : /\ Elapsed(v[i], dt) \in Ring
                            /\ Elapsed(v[i], dt).valid => v[i].valid /\ Elapsed(v[i], dt).left = v[i].left - dt
      BY <2>4, <2>5, ElapsedRing
    <2>7. DOMAIN w = 1 .. n /\ w = [i \in 1 .. n |-> w[i]] /\ \A i \in 1 .. n : w[i] = Elapsed(v[i], dt)
      BY <2>4
    <2> HIDE DEF w, n, v
    <2>8. w \in Seq(Ring)
      <3>1. w \in [1 .. n -> Ring]
        BY <2>6, <2>7
      <3> QED
        BY <2>4, <3>1
    <2>9. Descending(w)
      <3> SUFFICES ASSUME NEW j \in 1 .. n, NEW k \in 1 .. n, j <= k, w[j].valid, w[k].valid
                   PROVE  w[j].left >= w[k].left
        BY <2>7 DEF Descending
      <3>1. v[j].valid /\ v[k].valid /\ w[j].left = v[j].left - dt /\ w[k].left = v[k].left - dt
        BY <2>6, <2>7
      <3>2. v[j].left >= v[k].left
        BY <2>3, <2>4, <3>1 DEF Descending
      <3> QED
        BY <2>4, <2>5, <3>1, <3>2
    <2>10. (\E i \in DOMAIN w : w[i].valid) => active
      <3> SUFFICES ASSUME NEW i \in 1 .. n, w[i].valid PROVE active
        BY <2>7
      <3>1. v[i].valid /\ i \in DOMAIN v
        BY <2>4, <2>6, <2>7
      <3> QED
        BY <3>1 DEF RingsInv, v
    <2> QED
      BY <2>1, <2>2, <2>8, <2>9, <2>10 DEF RingsInv
  <1>6. CASE ProceedSubscribers /\ ~active
    <2>1. m_rings' = m_rings /\ active' = active
      BY <1>6 DEF ProceedSubscribers
    <2> QED
      BY <1>6, <2>1 DEF RingsInv
  <1>7. CASE ProceedSubscribers /\ active
    <2> DEFINE w == Rung(m_rings)
    <2>1. m_rings' = w /\ (m_rings' # <<>> => active' = active \/ active' = TRUE)
      BY <1>7 DEF ProceedSubscribers
    <2>2. w \in Seq(Ring) /\ Descending(w)
      BY RungKeeps DEF RingsInv
    <2>3. \A i \in DOMAIN w : i \in DOMAIN m_rings /\ w[i] = m_rings[i] /\ (m_rings[i].valid => m_rings[i].left > 0)
      BY RungKeeps DEF RingsInv
    <2> HIDE DEF w
    <2>4. \A i \in DOMAIN w : w[i].valid => w[i].left > 0
      BY <2>3
    <2>5. \A i \in DOMAIN w : w # <<>>
      BY <2>2
    <2> QED
      BY <1>7, <2>1, <2>2, <2>4, <2>5 DEF RingsInv
  <1> QED
    BY <1>1, <1>2, <1>3, <1>4, <1>5, <1>6, <1>7 DEF SubscribersNext

(* Nobody waits at the start *)
LEMMA SubscribersInit_Inv == SubscribersInit => SubscriptionsInv /\ RingsInv
  <1> SUFFICES ASSUME SubscribersInit PROVE SubscriptionsInv /\ RingsInv
    OBVIOUS
  <1>1. /\ m_rings = <<>> /\ m_rings \in Seq(Ring) /\ DOMAIN m_rings = {}
        /\ m_subscriptions = <<>> /\ m_subscriptions \in Seq(Subscription) /\ DOMAIN m_subscriptions = {}
    BY DEF SubscribersInit
  <1>2. kind \in {"SystemClock", "Ship"} /\ sphase = "receive" /\ since \in [Clients -> Nat]
    BY DEF SubscribersInit
  <1> QED
    BY <1>1, <1>2 DEF SubscriptionsInv, RingsInv, Sorted, OncePerSession, Descending

(* It says what is promised of those who wait *)
LEMMA SubscribersInv_Served == SubscriptionsInv /\ RingsInv => SubscribersAreServed
  <1> SUFFICES ASSUME SubscriptionsInv, RingsInv PROVE SubscribersAreServed
    OBVIOUS
  <1>1. NobodyIsOverdue
    BY DEF NobodyIsOverdue, SubscriptionsInv, RingsInv
  <1>2. UpdatesAreRegular
    <2> SUFFICES ASSUME NEW i \in DOMAIN m_subscriptions, sphase = "receive", m_subscriptions[i].period > 0
                 PROVE  m_subscriptions[i].left = m_subscriptions[i].period - since[m_subscriptions[i].session]
      BY DEF UpdatesAreRegular, SubscriptionsInv, OncePerSession
    <2> DEFINE x == m_subscriptions[i]
               a == x.period - x.left
    <2>1. x \in Subscription /\ Regular(x) /\ x.left > 0
      BY DEF SubscriptionsInv
    <2>2. x.period \in Nat \ {0} /\ x.left \in Int
      BY <2>1 DEF Subscription
    <2>3. x.left <= x.period /\ since[x.session] = a % x.period
      BY <2>1 DEF Regular, InStep
    <2>4. a \in Nat /\ a < x.period
      BY <2>1, <2>2, <2>3
    <2> HIDE DEF a, x
    <2>5. a % x.period = a
      BY <2>2, <2>4, Remainders
    <2>6. x.left = x.period - since[x.session]
      BY <2>2, <2>3, <2>5 DEF a
    <2> QED
      BY <2>6 DEF x
  <1> QED
    BY <1>1, <1>2 DEF SubscribersAreServed

(* For any number of sessions, all periods and intervals, and in whatever order sessions
   subscribe, change their mind and go: nobody who waits for a ring or an update is overdue
   after a cycle, updates come at multiples of the period, and a ship never hangs
   (SubscriptionsBox, SystemClock, Ship) *)
THEOREM SubscribersStayServed == SubscribersSpec => []SubscribersAreServed
  <1>1. SubscribersInit => SubscriptionsInv /\ RingsInv
    BY SubscribersInit_Inv
  <1>2. SubscriptionsInv /\ RingsInv /\ [SubscribersNext]_subscribersVars => (SubscriptionsInv /\ RingsInv)'
    BY SubscriptionsStep, RingsStep
  <1>3. SubscriptionsInv /\ RingsInv => SubscribersAreServed
    BY SubscribersInv_Served
  <1> QED
    BY <1>1, <1>2, <1>3, PTL DEF SubscribersSpec
-----------------------------------------------------------------------------
(* The administrators and the clock *)

(* Both modes account for all the real time that has passed *)
LEMMA NextIntervalKeeps ==
    ASSUME ClockIsExact, GetNextInterval PROVE ClockIsExact'
  <1>1. RealTimeTick \in Nat /\ DebugTick \in Nat /\ Dt \in Nat
    BY ClockAssumption DEF ClockIsExact, ClockTypeOK, NeverAhead, Dt, RealTimeTick, DebugTick
  <1>2. CASE NextRealTime
    <2>1. ClockTypeOK'
      BY <1>1, <1>2 DEF NextRealTime, ClockIsExact, ClockTypeOK
    <2>2. Dt' = 0
      BY <1>1, <1>2 DEF NextRealTime, ClockIsExact, ClockTypeOK, Dt
    <2> QED
      BY <2>1, <2>2 DEF ClockIsExact, NeverAhead
  <1>3. CASE NextDebug
    <2>1. ClockTypeOK'
      BY <1>1, <1>3 DEF NextDebug, ClockIsExact, ClockTypeOK
    <2>2. Dt' = 0
      BY <1>1, <1>3 DEF NextDebug, ClockIsExact, ClockTypeOK, Dt
    <2> QED
      BY <2>1, <2>2 DEF ClockIsExact, NeverAhead
  <1>4. CASE NextTerminated
    BY <1>4 DEF NextTerminated, ClockIsExact, ClockTypeOK, NeverAhead, Dt
  <1> QED
    BY <1>2, <1>3, <1>4 DEF GetNextInterval

(* An administrator waits for ticks only while they are made; what is left of them ends at
   the time that is due *)
TicksInv ==
    /\ m_nDebugTicksCounter > 0 => m_eState # "RealTime"
    /\ m_nDebugSessionId # NoSession /\ m_eState # "Terminated" =>
          m_inGameTimeUs + m_nDebugTicksCounter * m_nDebugTickUs = due
    /\ m_nDebugSessionId # NoSession /\ cphase = "interval" => IsDebugInProgress
ControlInv ==
    ClockIsExact /\ TicksInv /\ inbox \in Seq(AdminMessage)

(* One tick less is left *)
LEMMA OneTick ==
    ASSUME NEW a \in Nat, NEW c \in Nat, NEW t \in Nat, c > 0
    PROVE  (a + t) + (c - 1) * t = a + c * t
  <1>1. (c - 1) * t = c * t - t /\ c * t \in Int
    OBVIOUS
  <1> DEFINE ct == c * t
  <1> HIDE DEF ct
  <1>2. ct \in Int /\ (c - 1) * t = ct - t
    BY <1>1 DEF ct
  <1>3. (a + t) + (ct - t) = a + ct
    BY <1>2
  <1> QED
    BY <1>2, <1>3 DEF ct

(* A cycle begins *)
LEMMA RunCycleKeeps ==
    ASSUME ControlInv, RunCycle PROVE ControlInv'
  <1>1. ClockIsExact'
    BY NextIntervalKeeps DEF ControlInv, RunCycle
  <1>2. UNCHANGED <<inbox, m_nDebugSessionId, due, m_eState>> /\ cphase = "interval" /\ cphase' = "handle"
        /\ m_eState # "Terminated"
    BY DEF RunCycle, GetNextInterval, NextRealTime, NextDebug, NextTerminated
  <1>3. /\ m_inGameTimeUs \in Nat /\ m_nDebugTicksCounter \in Nat /\ m_nDebugTickUs \in Nat
        /\ m_eState \in {"RealTime", "Debug", "Terminated"}
    BY DEF ControlInv, ClockIsExact, ClockTypeOK
  <1>4. m_nDebugTicksCounter' > 0 => m_eState' # "RealTime"
    BY <1>2, <1>3 DEF ControlInv, TicksInv, RunCycle, GetNextInterval, NextRealTime, NextDebug, NextTerminated
  <1>5. ASSUME m_nDebugSessionId # NoSession
        PROVE  m_inGameTimeUs' + m_nDebugTicksCounter' * m_nDebugTickUs' = due
    <2>1. m_eState = "Debug" /\ m_nDebugTicksCounter > 0
      BY <1>2, <1>5 DEF ControlInv, TicksInv, IsDebugInProgress
    <2>2. /\ m_nDebugTicksCounter' = m_nDebugTicksCounter - 1
          /\ m_inGameTimeUs' = m_inGameTimeUs + m_nDebugTickUs /\ m_nDebugTickUs' = m_nDebugTickUs
      BY <2>1 DEF RunCycle, GetNextInterval, NextRealTime, NextDebug, NextTerminated, DebugTick
    <2>3. m_inGameTimeUs + m_nDebugTicksCounter * m_nDebugTickUs = due
      BY <1>2, <1>5 DEF ControlInv, TicksInv
    <2>4. (m_inGameTimeUs + m_nDebugTickUs) + (m_nDebugTicksCounter - 1) * m_nDebugTickUs
             = m_inGameTimeUs + m_nDebugTicksCounter * m_nDebugTickUs
      BY <1>3, <2>1, OneTick
    <2> QED
      BY <2>2, <2>3, <2>4
  <1>6. TicksInv'
    BY <1>2, <1>4, <1>5 DEF TicksInv
  <1> QED
    BY <1>1, <1>2, <1>6 DEF ControlInv

(* A message of an administrator is handled; nobody stops waiting for ticks *)
LEMMA AdminMessageKeeps ==
    ASSUME ControlInv, HandleAdminMessage
    PROVE  ControlInv' /\ (m_nDebugSessionId # NoSession => m_nDebugSessionId' # NoSession)
  <1> DEFINE m == Head(inbox)
  <1>1. /\ m_inGameTimeUs \in Nat /\ m_nDebugTicksCounter \in Nat /\ m_nDebugTickUs \in Nat
        /\ m_eState \in {"RealTime", "Debug", "Terminated"}
    BY DEF ControlInv, ClockIsExact, ClockTypeOK
  <1>2. m \in AdminMessage /\ inbox' \in Seq(AdminMessage) /\ cphase = "handle" /\ cphase' = "handle"
    BY DEF ControlInv, HandleAdminMessage
  <1>3. ModeRequest(m) \/ TickDuration(m) \/ ProceedTicks(m)
    BY DEF HandleAdminMessage
  <1> HIDE DEF m
  <1>4. CASE ModeRequest(m)
    <2>1. UNCHANGED <<m_nDebugSessionId, due, realTime, m_inGameTimeUs, m_nDeviationUs, m_nDebugTickUs,
                      m_nDebugTicksCounter, nIntervalUs>>
      BY <1>4 DEF ModeRequest, clockVars, SwitchToRealtimeMode, SwitchToDebugMode, Terminate, SwitchMode
    <2>2. /\ m_eState' \in {"RealTime", "Debug", "Terminated"}
          /\ m_eState' = "RealTime" => m_eState = "RealTime" \/ m_nDebugTicksCounter = 0
          /\ m_eState' # "Terminated" => m_eState # "Terminated"
      BY <1>1, <1>4 DEF ModeRequest, clockVars, SwitchToRealtimeMode, SwitchToDebugMode, Terminate,
         SwitchMode, CanSwitchToRealtime
    <2>3. ClockIsExact'
      BY <2>1, <2>2 DEF ControlInv, ClockIsExact, ClockTypeOK, NeverAhead, Dt
    <2>4. TicksInv'
      BY <1>1, <1>2, <2>1, <2>2 DEF ControlInv, TicksInv
    <2> QED
      BY <1>2, <2>1, <2>3, <2>4 DEF ControlInv
  <1>5. CASE TickDuration(m)
    <2>1. UNCHANGED <<m_nDebugSessionId, due, realTime, m_inGameTimeUs, m_nDeviationUs, m_eState,
                      m_nDebugTicksCounter, nIntervalUs>>
      BY <1>5 DEF TickDuration, SetDebugTickUs, clockVars
    <2>2. m.type = "tick_duration_us"
      BY <1>5 DEF TickDuration
    <2>3. m.value \in Nat
      BY <1>2, <2>2, ClockAssumption DEF AdminMessage
    <2>4. m_nDebugTickUs' \in Nat /\ (IsDebugInProgress => m_nDebugTickUs' = m_nDebugTickUs)
      BY <1>1, <1>5, <2>3 DEF TickDuration, SetDebugTickUs, clockVars
    <2>5. ClockIsExact'
      BY <2>1, <2>4 DEF ControlInv, ClockIsExact, ClockTypeOK, NeverAhead, Dt
    <2>6. ASSUME m_nDebugSessionId # NoSession, m_eState # "Terminated"
          PROVE  m_inGameTimeUs + m_nDebugTicksCounter * m_nDebugTickUs' = due
      <3>1. m_inGameTimeUs + m_nDebugTicksCounter * m_nDebugTickUs = due
        BY <2>6 DEF ControlInv, TicksInv
      <3>2. CASE IsDebugInProgress
        BY <2>4, <3>1, <3>2
      <3>3. CASE ~IsDebugInProgress
        <4>1. m_nDebugTicksCounter = 0
          BY <1>1, <2>6, <3>3 DEF ControlInv, TicksInv, IsDebugInProgress
        <4>2. \A t \in Nat : 0 * t = 0
          OBVIOUS
        <4>3. 0 * m_nDebugTickUs = 0 /\ 0 * m_nDebugTickUs' = 0
          BY <1>1, <2>4, <4>2
        <4> QED
          BY <3>1, <4>1, <4>3
      <3> QED
        BY <3>2, <3>3
    <2>7. TicksInv'
      BY <1>2, <2>1, <2>6 DEF ControlInv, TicksInv
    <2> QED
      BY <1>2, <2>1, <2>5, <2>7 DEF ControlInv
  <1>6. CASE ProceedTicks(m) /\ CanProceed
    <2>1. /\ m_nDebugTicksCounter' = m.value /\ m_nDebugSessionId' = m.from
          /\ due' = m_inGameTimeUs + m.value * m_nDebugTickUs
          /\ UNCHANGED <<m_eState, realTime, m_inGameTimeUs, m_nDeviationUs, m_nDebugTickUs, nIntervalUs>>
          /\ m_eState = "Debug" /\ m.type = "proceed_ticks"
      BY <1>6 DEF ProceedTicks, ProceedRequest, CanProceed, Due
    <2>2. m.value \in Nat /\ m.from \in Admins
      BY <1>2, <2>1, ClockAssumption DEF AdminMessage
    <2>3. m_nDebugSessionId' # NoSession
      BY <2>1, <2>2, ControlAssumption
    <2>4. ClockIsExact'
      BY <2>1, <2>2 DEF ControlInv, ClockIsExact, ClockTypeOK, NeverAhead, Dt
    <2>5. TicksInv'
      BY <1>2, <2>1 DEF TicksInv
    <2> QED
      BY <1>2, <2>3, <2>4, <2>5 DEF ControlInv
  <1>7. CASE ProceedTicks(m) /\ ~CanProceed
    <2>1. UNCHANGED <<clockVars, m_nDebugSessionId, due, cphase>>
      BY <1>2, <1>7 DEF ProceedTicks
    <2> QED
      BY <1>2, <2>1 DEF ControlInv, ClockIsExact, ClockTypeOK, NeverAhead, Dt, clockVars, TicksInv, IsDebugInProgress
  <1> QED
    BY <1>3, <1>4, <1>5, <1>6, <1>7

(* The step AnsweredOnTime is about *)
OnTime ==
    m_nDebugSessionId # NoSession /\ m_nDebugSessionId' = NoSession /\ m_eState # "Terminated"
       => m_inGameTimeUs = due

(* Every action of the loop keeps to it, and answers on time *)
LEMMA ControlLoopStep ==
    ASSUME ControlInv, [ControlNext]_controlVars PROVE ControlInv' /\ OnTime
  <1>1. CASE UNCHANGED controlVars
    BY <1>1 DEF controlVars, clockVars, ControlInv, ClockIsExact, ClockTypeOK, NeverAhead, Dt, TicksInv,
       IsDebugInProgress, OnTime
  <1>2. ASSUME NEW d \in Elapses, TimePasses(d) PROVE ControlInv' /\ OnTime
    <2>1. /\ realTime' = realTime + d /\ d \in Nat
          /\ UNCHANGED <<m_eState, m_inGameTimeUs, m_nDeviationUs, m_nDebugTickUs, m_nDebugTicksCounter,
                         nIntervalUs, cphase, inbox, m_nDebugSessionId, due>>
      BY <1>2, ClockAssumption DEF TimePasses, Elapse
    <2>2. ClockIsExact'
      BY <2>1 DEF ControlInv, ClockIsExact, ClockTypeOK, NeverAhead, Dt
    <2> QED
      BY <2>1, <2>2 DEF ControlInv, TicksInv, IsDebugInProgress, OnTime
  <1>3. ASSUME NEW m \in AdminMessage, OnAdminMessage(m) PROVE ControlInv' /\ OnTime
    <2>1. inbox' = Append(inbox, m) /\ UNCHANGED <<clockVars, cphase, m_nDebugSessionId, due>>
      BY <1>3 DEF OnAdminMessage
    <2>2. inbox' \in Seq(AdminMessage)
      BY <2>1 DEF ControlInv
    <2> QED
      BY <2>1, <2>2 DEF clockVars, ControlInv, ClockIsExact, ClockTypeOK, NeverAhead, Dt, TicksInv,
         IsDebugInProgress, OnTime
  <1>4. CASE RunCycle
    BY <1>4, RunCycleKeeps DEF RunCycle, OnTime
  <1>5. CASE StopRunning
    BY <1>5 DEF StopRunning, clockVars, ControlInv, ClockIsExact, ClockTypeOK, NeverAhead, Dt, TicksInv,
       IsDebugInProgress, OnTime
  <1>6. CASE HandleAdminMessage
    BY <1>6, AdminMessageKeeps DEF OnTime
  <1>7. CASE ControlProceed
    <2>1. /\ UNCHANGED <<clockVars, inbox, due>>
          /\ m_nDebugSessionId' = IF IsDebugInProgress THEN m_nDebugSessionId ELSE NoSession
      BY <1>7 DEF ControlProceed, ReportTicks
    <2>2. /\ m_inGameTimeUs \in Nat /\ m_nDebugTicksCounter \in Nat /\ m_nDebugTickUs \in Nat
          /\ m_eState \in {"RealTime", "Debug", "Terminated"}
      BY DEF ControlInv, ClockIsExact, ClockTypeOK
    <2>3. ClockIsExact'
      BY <2>1 DEF clockVars, ControlInv, ClockIsExact, ClockTypeOK, NeverAhead, Dt
    <2>4. TicksInv'
      BY <2>1 DEF clockVars, ControlInv, TicksInv, IsDebugInProgress
    <2>5. ASSUME m_nDebugSessionId # NoSession, m_nDebugSessionId' = NoSession, m_eState # "Terminated"
          PROVE  m_inGameTimeUs = due
      <3>1. m_nDebugTicksCounter = 0
        BY <2>1, <2>2, <2>5 DEF ControlInv, TicksInv, IsDebugInProgress
      <3>2. m_inGameTimeUs + m_nDebugTicksCounter * m_nDebugTickUs = due
        BY <2>5 DEF ControlInv, TicksInv
      <3>3. 0 * m_nDebugTickUs = 0
        BY <2>2
      <3> QED
        BY <2>2, <3>1, <3>2, <3>3
    <2> QED
      BY <2>1, <2>3, <2>4, <2>5 DEF ControlInv, OnTime
  <1> QED
    BY <1>1, <1>2, <1>3, <1>4, <1>5, <1>6, <1>7 DEF ControlNext

(* Whatever administrators ask for and in whatever order: the clock stays exact, and who
   asked for ticks is answered at the in-game time at which the last of them is done
   (ClockControl, Clock) *)
THEOREM AdministratorsAreAnsweredOnTime == ControlSpec => []ClockIsExact /\ AnsweredOnTime
  <1>1. ControlInit => ControlInv
    BY DEF ControlInit, ClockInit, ControlInv, ClockIsExact, ClockTypeOK, NeverAhead, Dt, TicksInv
  <1>2. ControlInv /\ [ControlNext]_controlVars => ControlInv' /\ OnTime
    BY ControlLoopStep
  <1>3. ControlInv => ClockIsExact
    BY DEF ControlInv
  <1> QED
    BY <1>1, <1>2, <1>3, PTL DEF ControlSpec, AnsweredOnTime, OnTime
-----------------------------------------------------------------------------
(* The services together *)

(* A step of the services is a step of each part, or leaves it alone *)
LEMMA ServicesStep ==
    [ServicesNext]_servicesVars =>
       /\ [MessangerNext]_messangerVars /\ [SlotsNext]_slotsVars
       /\ [SubscribersNext]_subscribersVars /\ [ControlNext]_controlVars
       /\ [CargoMonitorsNext]_cargoMonitorsVars
  BY DEF ServicesNext, servicesVars

(* Whichever part a behaviour is of: the messanger keeps its promise to clients, the
   monitors of a commutator know its slots and those of a container its content, nobody
   who waits for a ring or an update is overdue, and the clock is exact and answers
   administrators on time *)
THEOREM ServicesKeepTheirPromises ==
    ServicesSpec => /\ RequestsAreServed
                    /\ []MonitorsAreExact /\ []MonitorsAreTold /\ []SubscribersAreServed
                    /\ []ClockIsExact /\ AnsweredOnTime
  <1>1. ServicesInit =>
           MessangerInit /\ SlotsInit /\ SubscribersInit /\ ControlInit /\ CargoMonitorsInit
    BY DEF ServicesInit
  <1>2. ServicesSpec => MessangerSpec /\ SlotsSpec /\ SubscribersSpec /\ ControlSpec /\ CargoMonitorsSpec
    BY <1>1, ServicesStep, PTL
    DEF ServicesSpec, MessangerSpec, SlotsSpec, SubscribersSpec, ControlSpec, CargoMonitorsSpec
  <1> QED
    BY <1>2, RequestsStayServed, MonitorsStayExact, MonitorsStayTold, SubscribersStayServed,
       AdministratorsAreAnsweredOnTime, PTL
=============================================================================
