---------------------------- MODULE WorldProofs ----------------------------
(***************************************************************************)
(* What is seen of the world, for every size of the grid, every number of  *)
(* objects and threads: the lists of the cells, the celestial scan that    *)
(* reads them, the screen of administrators, whose filter is run by all    *)
(* threads together, and the passive scanner, which overlooks nobody. And  *)
(* the conversations of clients with the devices of the server: a call     *)
(* that finds its session clean is answered in the order it expects.       *)
(***************************************************************************)
EXTENDS MCWorld, FiniteSetTheorems, FunctionTheorems, SequenceTheorems,
        WellFoundedInduction, NaturalsInduction, TLAPS
-----------------------------------------------------------------------------
(* Division, and the cells of the grid *)
LEMMA DivisionUnique ==
    ASSUME NEW a \in Nat, NEW w \in Nat \ {0}, NEW b \in 0 .. w - 1
    PROVE  (a * w + b) \div w = a /\ (a * w + b) % w = b
  BY Z3

(* Quotient and remainder bracket the dividend *)
LEMMA Division ==
    ASSUME NEW n \in Nat, NEW w \in Nat \ {0}
    PROVE  /\ n \div w \in Nat /\ n % w \in 0 .. w - 1
           /\ (n \div w) * w <= n /\ n < (n \div w) * w + w
           /\ n % w = n - (n \div w) * w
  <1>1. n \div w \in Int /\ w * (n \div w) <= n /\ n < w * (n \div w) + w
    BY Z3
  <1>2. n \div w >= 0 /\ n % w \in 0 .. w - 1
    BY Z3
  <1>3. n % w = n - w * (n \div w)
    BY Z3
  <1>4. w * (n \div w) = (n \div w) * w
    BY <1>1
  <1> QED
    BY <1>1, <1>2, <1>3, <1>4

(* The half of the grid is a whole number of positions, and the cells are those of its rows and columns *)
LEMMA GridConstants ==
    /\ GridWidth \in Nat \ {0} /\ CellWidth \in Nat \ {0} /\ HalfSize \in Nat
    /\ GridWidth * CellWidth \in Nat /\ GridWidth * CellWidth = HalfSize + HalfSize
    /\ Margin \in Nat /\ NoCell \notin Cells
  <1>1. /\ GridWidth \in Nat \ {0} /\ CellWidth \in Nat \ {0} /\ Margin \in Nat
        /\ (GridWidth * CellWidth) % 2 = 0
    BY WorldAssumption
  <1>2. GridWidth * CellWidth \in Nat
    BY <1>1
  <1>3. \A n \in Nat : n % 2 = 0 => n \div 2 \in Nat /\ n = n \div 2 + n \div 2
    OBVIOUS
  <1>4. NoCell \notin Cells
    BY <1>1 DEF NoCell, Cells
  <1> QED
    BY <1>1, <1>2, <1>3, <1>4 DEF HalfSize

(* The row, or the column, of a coordinate in the grid *)
LEMMA CellOfCoordinate ==
    ASSUME NEW v \in -HalfSize .. HalfSize - 1
    PROVE  LET k == (v + HalfSize) \div CellWidth
           IN  /\ k \in 0 .. GridWidth - 1
               /\ v \in -HalfSize + k * CellWidth .. -HalfSize + k * CellWidth + CellWidth - 1
  <1> DEFINE k == (v + HalfSize) \div CellWidth
  <1>1. v + HalfSize \in Nat /\ v + HalfSize < GridWidth * CellWidth /\ v \in Int
    BY GridConstants
  <1>2. k \in Nat /\ k * CellWidth <= v + HalfSize /\ v + HalfSize < k * CellWidth + CellWidth
    BY <1>1, GridConstants, Division
  <1> HIDE DEF k
  <1>3. k < GridWidth
    <2>1. \A g, c \in Nat : k >= g => k * c >= g * c
      BY <1>2, Z3
    <2> QED
      BY <1>1, <1>2, <2>1, GridConstants
  <1>4. k * CellWidth \in Nat
    BY <1>2, GridConstants
  <1> QED
    BY <1>1, <1>2, <1>3, <1>4, GridConstants DEF k

(* The coordinates of the cell in row j and column i are those of the grid's row and
   column. *)
LEMMA CellOfRow ==
    ASSUME NEW i \in 0 .. GridWidth - 1, NEW j \in 0 .. GridWidth - 1
    PROVE  /\ j * GridWidth + i \in Cells
           /\ (j * GridWidth + i) % GridWidth = i /\ (j * GridWidth + i) \div GridWidth = j
  <1>1. (j * GridWidth + i) % GridWidth = i /\ (j * GridWidth + i) \div GridWidth = j
    BY GridConstants, DivisionUnique
  <1>2. j * GridWidth <= (GridWidth - 1) * GridWidth /\ j * GridWidth \in Nat
    BY GridConstants, Z3
  <1>3. (GridWidth - 1) * GridWidth = GridWidth * GridWidth - GridWidth /\ GridWidth * GridWidth \in Nat
    BY GridConstants, Z3
  <1>4. j * GridWidth + i \in Cells
    BY <1>2, <1>3, GridConstants DEF Cells
  <1> QED
    BY <1>1, <1>4

(* Grid::getCell returns the cell that contains the position. *)
LEMMA IndexContains ==
    ASSUME NEW p \in [x : Int, y : Int], InGrid(p.x, p.y)
    PROVE  IndexOf(p.x, p.y) \in Cells /\ CellContains(IndexOf(p.x, p.y), p)
  <1> DEFINE i == (p.x + HalfSize) \div CellWidth
             j == (p.y + HalfSize) \div CellWidth
  <1>1. p.x \in -HalfSize .. HalfSize - 1 /\ p.y \in -HalfSize .. HalfSize - 1
    BY DEF InGrid
  <1>2. /\ i \in 0 .. GridWidth - 1
        /\ p.x \in -HalfSize + i * CellWidth .. -HalfSize + i * CellWidth + CellWidth - 1
    BY <1>1, CellOfCoordinate
  <1>3. /\ j \in 0 .. GridWidth - 1
        /\ p.y \in -HalfSize + j * CellWidth .. -HalfSize + j * CellWidth + CellWidth - 1
    BY <1>1, CellOfCoordinate
  <1>4. IndexOf(p.x, p.y) = j * GridWidth + i
    BY DEF IndexOf
  <1> HIDE DEF i, j
  <1> QED
    BY <1>2, <1>3, <1>4, CellOfRow DEF CellContains

(* A position in a cell is in the grid, and has the row and the column of the cell. *)
LEMMA ContainedInGrid ==
    ASSUME NEW p \in [x : Int, y : Int], NEW c \in Cells, CellContains(c, p)
    PROVE  InGrid(p.x, p.y)
  <1> DEFINE i == c % GridWidth
             j == c \div GridWidth
  <1>1. c \in Nat /\ c < GridWidth * GridWidth
    BY GridConstants DEF Cells
  <1>2. i \in 0 .. GridWidth - 1 /\ j \in Nat /\ j * GridWidth <= c
    BY <1>1, GridConstants, Division
  <1>3. /\ p.x \in -HalfSize + i * CellWidth .. -HalfSize + i * CellWidth + CellWidth - 1
        /\ p.y \in -HalfSize + j * CellWidth .. -HalfSize + j * CellWidth + CellWidth - 1
    BY DEF CellContains
  <1> HIDE DEF i, j
  <1>4. j \in 0 .. GridWidth - 1
    <2>1. \A a, g \in Nat : a >= g => a * g >= g * g
      BY Z3
    <2> QED
      BY <1>1, <1>2, <2>1, GridConstants
  <1>5. ASSUME NEW k \in 0 .. GridWidth - 1
        PROVE  k * CellWidth \in Nat /\ k * CellWidth + CellWidth <= HalfSize + HalfSize
    <2>1. \A a \in Nat, g, w \in Nat : a < g => a * w + w <= g * w
      BY Z3
    <2> QED
      BY <2>1, GridConstants
  <1>6. p.x \in -HalfSize .. HalfSize - 1
    BY <1>2, <1>3, <1>5, GridConstants
  <1>7. p.y \in -HalfSize .. HalfSize - 1
    BY <1>3, <1>4, <1>5, GridConstants
  <1> QED
    BY <1>6, <1>7 DEF InGrid

-----------------------------------------------------------------------------
(* Where an object is found, as CellsAreExact has it; besides, an object leaves a cell
   only for another one, after it was moved and before the stage ends, and what is claimed
   of its cell holds in the newton stage as soon as the object was moved in it. *)
InItsCell(o) ==
    IF InGrid(place[o].x, place[o].y) THEN cell[o] \in Cells /\ CellContains(cell[o], place[o])
    ELSE cell[o] = NoCell

WorldTypeOK ==
    /\ place \in [Objects -> Places]
    /\ spawned \subseteq Objects /\ toMove \subseteq spawned /\ displaced \subseteq spawned
    /\ cell \in [Objects -> Cells \cup {NoCell}]
    /\ leaving \in [Objects -> Cells \cup {NoCell}]
    /\ members \in [Cells -> SUBSET Objects]
    /\ stage \in {"newton", "modules"}

ListedThere ==
    \A o \in Objects, c \in Cells : o \in members[c] <=> c = cell[o] \/ c = leaving[o]
LeavesForAnother ==
    \A o \in Objects : leaving[o] # NoCell =>
        leaving[o] # cell[o] /\ o \notin toMove /\ stage = "newton"
MovedAreInTheirCells ==
    \A o \in spawned \ toMove : stage = "newton" \/ o \notin displaced => InItsCell(o)
SpawnedAreListed == \A o \in Objects : cell[o] # NoCell => o \in spawned

WorldInv ==
    /\ WorldTypeOK /\ ListedThere /\ LeavesForAnother /\ MovedAreInTheirCells
    /\ SpawnedAreListed /\ (stage = "modules" => toMove = {})

(* Coordinates can be computed with *)
LEMMA PlacesAreIntegers ==
    ASSUME NEW p \in Places PROVE p \in [x : Int, y : Int]
  BY GridConstants DEF Places, Coordinates

(* The first critical section of track() puts the object into the cell that contains it *)
LEMMA MoveObjectInv ==
    ASSUME WorldInv, NEW o \in Objects, NEW p \in Places, MoveObject(o, p)
    PROVE  WorldInv'
  <1> DEFINE stays == cell[o] # NoCell /\ CellContains(cell[o], p)
             new == IF stays THEN cell[o] ELSE GetCell(p)
  <1>1. /\ stage = "newton" /\ o \in toMove /\ toMove' = toMove \ {o}
        /\ place' = [place EXCEPT ![o] = p] /\ cell' = [cell EXCEPT ![o] = new]
        /\ members' = IF stays \/ new = NoCell THEN members
                      ELSE [members EXCEPT ![new] = @ \cup {o}]
        /\ leaving' = [leaving EXCEPT ![o] = IF stays THEN NoCell ELSE cell[o]]
        /\ UNCHANGED <<spawned, stage, displaced>>
    BY DEF MoveObject
  <1>2. /\ WorldTypeOK /\ ListedThere /\ LeavesForAnother /\ MovedAreInTheirCells
        /\ cell[o] \in Cells \cup {NoCell} /\ leaving[o] = NoCell /\ NoCell \notin Cells
    BY <1>1, GridConstants DEF WorldInv, WorldTypeOK, LeavesForAnother
  <1>3. /\ new \in Cells \cup {NoCell} /\ (new # NoCell => CellContains(new, p))
        /\ InGrid(p.x, p.y) <=> new # NoCell
        /\ ~stays /\ cell[o] # NoCell => new # cell[o]
    <2>1. p \in [x : Int, y : Int]
      BY PlacesAreIntegers
    <2>2. CASE stays
      BY <1>2, <2>1, <2>2, ContainedInGrid
    <2>3. CASE ~stays /\ InGrid(p.x, p.y)
      <3>1. new = IndexOf(p.x, p.y)
        BY <2>3 DEF GetCell
      <3> QED
        BY <1>2, <2>1, <2>3, <3>1, IndexContains
    <2>4. CASE ~stays /\ ~InGrid(p.x, p.y)
      BY <2>4 DEF GetCell
    <2> QED
      BY <2>2, <2>3, <2>4
  <1>4. stays => new = cell[o] /\ new # NoCell
    OBVIOUS
  <1> HIDE DEF new, stays
  <1>5. WorldTypeOK'
    <2>1. members' \in [Cells -> SUBSET Objects]
      BY <1>1, <1>2, <1>3 DEF WorldTypeOK
    <2> QED
      BY <1>1, <1>2, <1>3, <2>1 DEF WorldTypeOK
  <1>6. /\ cell'[o] = new /\ leaving'[o] = (IF stays THEN NoCell ELSE cell[o]) /\ place'[o] = p
        /\ \A x \in Objects : x # o => cell'[x] = cell[x] /\ leaving'[x] = leaving[x] /\ place'[x] = place[x]
    BY <1>1, <1>2 DEF WorldTypeOK
  <1>7. \A x \in Objects, c \in Cells :
            x \in members'[c] <=> x \in members[c] \/ (~stays /\ c = new /\ x = o)
    BY <1>1, <1>2, <1>3 DEF WorldTypeOK
  <1>8. ListedThere'
    <2> SUFFICES ASSUME NEW x \in Objects, NEW c \in Cells
                 PROVE  x \in members'[c] <=> c = cell'[x] \/ c = leaving'[x]
      BY DEF ListedThere
    <2>1. x \in members[c] <=> c = cell[x] \/ c = leaving[x]
      BY <1>2 DEF ListedThere
    <2>2. CASE x # o
      BY <1>6, <1>7, <2>1, <2>2
    <2>3. CASE x = o
      BY <1>2, <1>4, <1>6, <1>7, <2>1, <2>3
    <2> QED
      BY <2>2, <2>3
  <1>9. LeavesForAnother'
    <2> SUFFICES ASSUME NEW x \in Objects, leaving'[x] # NoCell
                 PROVE  leaving'[x] # cell'[x] /\ x \notin toMove' /\ stage' = "newton"
      BY DEF LeavesForAnother
    <2>1. CASE x # o
      BY <1>1, <1>2, <1>6, <2>1 DEF LeavesForAnother
    <2>2. CASE x = o
      BY <1>1, <1>3, <1>6, <2>2
    <2> QED
      BY <2>1, <2>2
  <1>10. MovedAreInTheirCells'
    <2> SUFFICES ASSUME NEW x \in spawned, x \notin toMove' PROVE InItsCell(x)'
      BY <1>1 DEF MovedAreInTheirCells
    <2>1. x \in Objects
      BY <1>2 DEF WorldTypeOK
    <2>2. CASE x # o
      <3>1. InItsCell(x)
        BY <1>1, <1>2, <2>2 DEF MovedAreInTheirCells
      <3> QED
        BY <1>6, <2>1, <2>2, <3>1 DEF InItsCell
    <2>3. CASE x = o
      BY <1>3, <1>6, <2>3 DEF InItsCell
    <2> QED
      BY <2>2, <2>3
  <1>11. SpawnedAreListed'
    BY <1>1, <1>2, <1>6 DEF WorldInv, SpawnedAreListed, WorldTypeOK
  <1> QED
    BY <1>1, <1>5, <1>8, <1>9, <1>10, <1>11 DEF WorldInv

(* The second one takes it out of the cell it came from, and of no other *)
LEMMA LeaveCellInv ==
    ASSUME WorldInv, NEW o \in Objects, LeaveCell(o)
    PROVE  WorldInv'
  <1>1. /\ leaving[o] # NoCell /\ members' = [members EXCEPT ![leaving[o]] = @ \ {o}]
        /\ leaving' = [leaving EXCEPT ![o] = NoCell]
        /\ UNCHANGED <<place, spawned, cell, toMove, stage, displaced>>
    BY DEF LeaveCell
  <1>2. /\ WorldTypeOK /\ ListedThere /\ LeavesForAnother /\ MovedAreInTheirCells
        /\ leaving[o] \in Cells /\ NoCell \notin Cells /\ leaving[o] # cell[o]
    BY <1>1, GridConstants DEF WorldInv, WorldTypeOK, LeavesForAnother
  <1>3. WorldTypeOK'
    BY <1>1, <1>2 DEF WorldTypeOK
  <1>4. /\ leaving'[o] = NoCell /\ \A x \in Objects : x # o => leaving'[x] = leaving[x]
        /\ \A x \in Objects, c \in Cells : x \in members'[c] <=> x \in members[c] /\ ~(x = o /\ c = leaving[o])
    BY <1>1, <1>2 DEF WorldTypeOK
  <1>5. ListedThere'
    BY <1>1, <1>2, <1>4 DEF ListedThere
  <1>6. LeavesForAnother'
    BY <1>1, <1>2, <1>4 DEF LeavesForAnother
  <1>7. MovedAreInTheirCells'
    BY <1>1, <1>2 DEF MovedAreInTheirCells, InItsCell
  <1> QED
    BY <1>1, <1>3, <1>5, <1>6, <1>7 DEF WorldInv, SpawnedAreListed

(* The stages of the cycle hand over with all objects moved *)
LEMMA StageInv ==
    ASSUME WorldInv, EndNewton \/ StartNewton
    PROVE  WorldInv'
  <1>1. CASE EndNewton
    <2>1. /\ stage = "newton" /\ toMove = {} /\ (\A o \in Objects : leaving[o] = NoCell)
          /\ stage' = "modules" /\ displaced' = {}
          /\ UNCHANGED <<place, spawned, cell, members, leaving, toMove>>
      BY <1>1 DEF EndNewton
    <2>2. WorldTypeOK'
      BY <2>1 DEF WorldInv, WorldTypeOK
    <2>3. MovedAreInTheirCells'
      BY <2>1 DEF WorldInv, MovedAreInTheirCells, InItsCell
    <2> QED
      BY <2>1, <2>2, <2>3 DEF WorldInv, ListedThere, LeavesForAnother, SpawnedAreListed
  <1>2. CASE StartNewton
    <2>1. /\ stage = "modules" /\ stage' = "newton" /\ toMove' = spawned
          /\ UNCHANGED <<place, spawned, cell, members, leaving, displaced>>
      BY <1>2 DEF StartNewton
    <2>2. WorldTypeOK'
      BY <2>1 DEF WorldInv, WorldTypeOK
    <2>3. MovedAreInTheirCells'
      BY <2>1 DEF MovedAreInTheirCells
    <2> QED
      BY <2>1, <2>2, <2>3 DEF WorldInv, ListedThere, LeavesForAnother, SpawnedAreListed
  <1> QED
    BY <1>1, <1>2

(* What administrators and spawning displace is remembered as displaced *)
LEMMA DisplaceInv ==
    ASSUME WorldInv, NEW o, NEW p \in Places,
           (o \in Objects /\ SpawnObject(o)) \/ MoveByAdministrator(o, p)
    PROVE  WorldInv'
  <1>1. /\ stage = "modules" /\ displaced' = displaced \cup {o} /\ o \in Objects
        /\ spawned' = spawned \cup {o}
        /\ place' = place \/ place' = [place EXCEPT ![o] = p]
        /\ UNCHANGED <<cell, members, leaving, toMove, stage>>
    BY DEF WorldInv, WorldTypeOK, SpawnObject, MoveByAdministrator
  <1>2. WorldTypeOK'
    BY <1>1 DEF WorldInv, WorldTypeOK
  <1>3. \A x \in Objects : x # o => place'[x] = place[x]
    BY <1>1 DEF WorldInv, WorldTypeOK
  <1>4. MovedAreInTheirCells'
    <2> SUFFICES ASSUME NEW x \in spawned', x \notin displaced' PROVE InItsCell(x)'
      BY <1>1 DEF MovedAreInTheirCells
    <2>1. x # o /\ x \in Objects /\ x \in spawned
      BY <1>1 DEF WorldInv, WorldTypeOK
    <2>2. InItsCell(x)
      BY <1>1, <2>1 DEF WorldInv, MovedAreInTheirCells
    <2> QED
      BY <1>1, <1>3, <2>1, <2>2 DEF InItsCell
  <1> QED
    BY <1>1, <1>2, <1>4 DEF WorldInv, ListedThere, LeavesForAnother, SpawnedAreListed

(* The invariant is inductive: one step per action *)
LEMMA WorldStep ==
    ASSUME WorldInv, [WorldNext]_worldVars PROVE WorldInv'
  <1>1. CASE UNCHANGED worldVars
    BY <1>1 DEF worldVars, WorldInv, WorldTypeOK, ListedThere, LeavesForAnother, MovedAreInTheirCells, InItsCell,
                 SpawnedAreListed
  <1>2. CASE \E o \in Objects : \E p \in Reachable(o) : MoveObject(o, p)
    BY <1>2, MoveObjectInv DEF Reachable
  <1>3. CASE \E o \in Movers, p \in Destinations : MoveByAdministrator(o, p)
    BY <1>3, DisplaceInv DEF Destinations
  <1>4. CASE \E o \in Objects : LeaveCell(o)
    BY <1>4, LeaveCellInv
  <1>5. CASE \E o \in Objects : SpawnObject(o)
    <2>1. PICK o \in Objects : SpawnObject(o)
      BY <1>5
    <2>2. place[o] \in Places
      BY DEF WorldInv, WorldTypeOK
    <2> QED
      BY <2>1, <2>2, DisplaceInv
  <1> QED
    BY <1>1, <1>2, <1>3, <1>4, <1>5, StageInv DEF WorldNext

(* The inductive invariant of the world: every cell lists exactly the objects that are in
   it or, for a thread in track(), about to leave it (Grid.h:223, NewtonEngine.cpp:41). *)
THEOREM WorldInvariant == WorldSpec => []WorldInv
  <1>1. WorldInit => WorldInv
    BY GridConstants DEF WorldInit, WorldInv, WorldTypeOK, ListedThere, LeavesForAnother, MovedAreInTheirCells,
                         SpawnedAreListed
  <1>2. WorldInv /\ [WorldNext]_worldVars => WorldInv'
    BY WorldStep
  <1> QED
    BY <1>1, <1>2, PTL DEF WorldSpec

(* The invariant gives what other stages rely on *)
LEMMA InvImpliesExact == WorldInv => CellsAreExact
  <1> SUFFICES ASSUME WorldInv, NEW o \in Objects
               PROVE  /\ {c \in Cells : o \in members[c]} = {cell[o], leaving[o]} \ {NoCell}
                      /\ o \in spawned \ (toMove \cup displaced) => InItsCell(o)
    BY DEF CellsAreExact, InItsCell
  <1>1. cell[o] \in Cells \cup {NoCell} /\ leaving[o] \in Cells \cup {NoCell} /\ NoCell \notin Cells
    BY GridConstants DEF WorldInv, WorldTypeOK
  <1>2. \A c \in Cells : o \in members[c] <=> c = cell[o] \/ c = leaving[o]
    BY DEF WorldInv, ListedThere
  <1>3. o \in spawned \ (toMove \cup displaced) => InItsCell(o)
    BY DEF WorldInv, MovedAreInTheirCells
  <1> QED
    BY <1>1, <1>2, <1>3

(* An object is listed by the cell that contains it and by no other, however the threads
   of NewtonEngine move objects between cells and over the edge of the grid, and whatever
   administrators move and spawn (NewtonEngine.cpp:41, Grid.h:223): for every grid, every
   number of objects and every speed. *)
THEOREM CellsStayExact == WorldSpec => []CellsAreExact
  BY WorldInvariant, InvImpliesExact, PTL

-----------------------------------------------------------------------------
(* The cells that Grid::range returns for an area *)
Line(v) == (v + HalfSize) \div CellWidth

(* The smaller and the larger of two numbers *)
LEMMA MinMax ==
    ASSUME NEW a \in Int, NEW b \in Int
    PROVE  /\ Min({a, b}) = IF a <= b THEN a ELSE b
           /\ Max({a, b}) = IF a >= b THEN a ELSE b
  <1>1. \E m \in {a, b} : \A y \in {a, b} : m <= y
    OBVIOUS
  <1>2. \E m \in {a, b} : \A y \in {a, b} : m >= y
    OBVIOUS
  <1>3. Min({a, b}) \in {a, b} /\ \A y \in {a, b} : Min({a, b}) <= y
    BY <1>1 DEF Min
  <1>4. Max({a, b}) \in {a, b} /\ \A y \in {a, b} : Max({a, b}) >= y
    BY <1>2 DEF Max
  <1> QED
    BY <1>3, <1>4

(* Division by the width of a cell keeps the order of coordinates *)
LEMMA DivisionMonotone ==
    ASSUME NEW a \in Nat, NEW b \in Nat, NEW w \in Nat \ {0}, a <= b
    PROVE  a \div w <= b \div w
  <1> DEFINE i == a \div w
             j == b \div w
  <1>1. i \in Nat /\ i * w <= a
    BY Division
  <1>2. j \in Nat /\ b < j * w + w
    BY Division
  <1> HIDE DEF i, j
  <1>3. i > j => i * w >= j * w + w
    <2>1. \A m, n \in Nat : m > n => m * w >= n * w + w
      BY Z3
    <2> QED
      BY <1>1, <1>2, <2>1
  <1>4. i * w \in Nat /\ j * w \in Nat
    BY <1>1, <1>2
  <1>5. i <= j
    BY <1>1, <1>2, <1>3, <1>4
  <1> QED
    BY <1>5 DEF i, j

(* The row or column of cells that a coordinate is in *)
LEMMA LineOf ==
    ASSUME NEW v \in -HalfSize .. HalfSize - 1
    PROVE  /\ v \in Int /\ Line(v) \in 0 .. GridWidth - 1
           /\ \A u \in -HalfSize .. HalfSize - 1 : v <= u => Line(v) <= Line(u)
  <1>1. Line(v) \in 0 .. GridWidth - 1
    BY CellOfCoordinate DEF Line
  <1>2. ASSUME NEW u \in -HalfSize .. HalfSize - 1, v <= u PROVE Line(v) <= Line(u)
    <2>1. v + HalfSize \in Nat /\ u + HalfSize \in Nat /\ v + HalfSize <= u + HalfSize
      BY <1>2, GridConstants
    <2> QED
      BY <2>1, DivisionMonotone, GridConstants DEF Line
  <1> QED
    BY <1>1, <1>2, GridConstants

(* The last line of the grid holds the position a metre before its edge. *)
LEMMA LastLine ==
    /\ HalfSize - Unit \in -HalfSize .. HalfSize - 1
    /\ Line(HalfSize - Unit) = GridWidth - 1
  <1>1. Unit \in Nat \ {0} /\ Unit <= CellWidth
    <2>1. PICK n \in 1 .. CellWidth : CellWidth = Unit * n
      BY WorldAssumption
    <2>2. Unit \in Nat \ {0} /\ n \in Nat \ {0}
      BY <2>1, WorldAssumption
    <2>3. Unit * n >= Unit
      BY <2>2, Z3
    <2> QED
      BY <2>1, <2>2, <2>3
  <1>2. GridWidth * CellWidth = (GridWidth - 1) * CellWidth + CellWidth /\ (GridWidth - 1) * CellWidth \in Nat
    BY GridConstants, Z3
  <1>3. CellWidth - Unit \in 0 .. CellWidth - 1 /\ GridWidth - 1 \in Nat
    BY <1>1, GridConstants
  <1>4. HalfSize - Unit + HalfSize = (GridWidth - 1) * CellWidth + (CellWidth - Unit)
    BY <1>1, <1>2, GridConstants
  <1>5. Line(HalfSize - Unit) = GridWidth - 1
    <2> DEFINE a == GridWidth - 1
               b == CellWidth - Unit
    <2> HIDE DEF a, b
    <2>1. a \in Nat /\ b \in 0 .. CellWidth - 1 /\ CellWidth \in Nat \ {0}
      BY <1>3, GridConstants DEF a, b
    <2>2. (a * CellWidth + b) \div CellWidth = a
      BY <2>1, DivisionUnique
    <2>3. HalfSize - Unit + HalfSize = a * CellWidth + b
      BY <1>4 DEF a, b
    <2> QED
      BY <2>2, <2>3 DEF Line, a
  <1> QED
    BY <1>1, <1>2, <1>5, GridConstants

(* The row and the column of a cell are those of what it contains. *)
LEMMA CellHasLines ==
    ASSUME NEW p \in [x : Int, y : Int], NEW c \in Cells, CellContains(c, p)
    PROVE  c = Line(p.y) * GridWidth + Line(p.x)
  <1> DEFINE i == c % GridWidth
             j == c \div GridWidth
  <1>1. c \in Nat /\ c < GridWidth * GridWidth
    BY GridConstants DEF Cells
  <1>2. i \in Nat /\ j \in Nat /\ c = j * GridWidth + i
    <2>1. i \in 0 .. GridWidth - 1 /\ j \in Nat /\ i = c - j * GridWidth /\ j * GridWidth \in Nat
      <3>1. GridWidth \in Nat \ {0}
        BY GridConstants
      <3>2. i \in 0 .. GridWidth - 1 /\ j \in Nat /\ i = c - j * GridWidth
        BY <1>1, <3>1, Division
      <3> HIDE DEF i, j
      <3> QED
        BY <3>1, <3>2
    <2> HIDE DEF i, j
    <2> QED
      BY <1>1, <2>1, GridConstants
  <1>3. /\ p.x \in -HalfSize + i * CellWidth .. -HalfSize + i * CellWidth + CellWidth - 1
        /\ p.y \in -HalfSize + j * CellWidth .. -HalfSize + j * CellWidth + CellWidth - 1
    BY DEF CellContains
  <1> HIDE DEF i, j
  <1>4. ASSUME NEW k \in Nat, NEW v \in -HalfSize + k * CellWidth .. -HalfSize + k * CellWidth + CellWidth - 1
        PROVE  Line(v) = k
    <2>1. k * CellWidth \in Nat
      BY GridConstants
    <2>2. v + HalfSize - k * CellWidth \in 0 .. CellWidth - 1
      BY <2>1, GridConstants
    <2>3. v + HalfSize = k * CellWidth + (v + HalfSize - k * CellWidth)
      BY <2>1, GridConstants
    <2> QED
      BY <2>2, <2>3, DivisionUnique, GridConstants DEF Line
  <1> QED
    BY <1>2, <1>3, <1>4

(* The clamped corners of an area that touches the grid *)
LEMMA Clamped ==
    ASSUME NEW x \in Int, NEW size \in Nat, x < HalfSize, x + size > -HalfSize
    PROVE  LET begin == Max({x, -HalfSize})
               end == Min({x + size, HalfSize - Unit})
           IN  /\ begin \in -HalfSize .. HalfSize - 1 /\ end \in -HalfSize .. HalfSize - 1
               /\ Line(begin) \in 0 .. GridWidth - 1 /\ Line(end) \in 0 .. GridWidth - 1
               /\ \A v \in -HalfSize .. HalfSize - 1 :
                     v \in x .. x + size => Line(v) \in Line(begin) .. Line(end)
  <1> DEFINE begin == Max({x, -HalfSize})
             end == Min({x + size, HalfSize - Unit})
  <1>1. HalfSize - Unit \in Int /\ -HalfSize \in Int /\ HalfSize \in Nat
    BY GridConstants, LastLine
  <1>2. begin = IF x >= -HalfSize THEN x ELSE -HalfSize
    BY <1>1, MinMax
  <1>3. end = IF x + size <= HalfSize - Unit THEN x + size ELSE HalfSize - Unit
    BY <1>1, MinMax
  <1> HIDE DEF begin, end
  <1>4. begin \in -HalfSize .. HalfSize - 1
    BY <1>1, <1>2, GridConstants, LastLine
  <1>5. end \in -HalfSize .. HalfSize - 1
    BY <1>1, <1>3, GridConstants, LastLine
  <1>6. Line(begin) \in 0 .. GridWidth - 1 /\ Line(end) \in 0 .. GridWidth - 1
    BY <1>4, <1>5, LineOf
  <1>7. ASSUME NEW v \in -HalfSize .. HalfSize - 1, v \in x .. x + size
        PROVE  Line(v) \in Line(begin) .. Line(end)
    <2>1. begin <= v
      BY <1>2, <1>7, <1>1
    <2>2. Line(begin) <= Line(v) /\ Line(v) \in 0 .. GridWidth - 1
      BY <1>4, <2>1, LineOf
    <2>3. Line(v) <= Line(end)
      <3>1. CASE v <= end
        BY <1>5, <3>1, LineOf
      <3>2. CASE v > end
        <4>1. end = HalfSize - Unit
          BY <1>1, <1>3, <1>7, <3>2
        <4> QED
          BY <2>2, <4>1, LastLine, GridConstants
      <3> QED
        BY <1>1, <1>5, <3>1, <3>2
    <2> QED
      BY <1>6, <2>2, <2>3
  <1> QED
    BY <1>4, <1>5, <1>6, <1>7 DEF begin, end

(* The cells of an area with these lines *)
LEMMA CellsOfLines ==
    ASSUME NEW i1 \in 0 .. GridWidth - 1, NEW i2 \in 0 .. GridWidth - 1,
           NEW j1 \in 0 .. GridWidth - 1, NEW j2 \in 0 .. GridWidth - 1
    PROVE  CellsFrom(j1 * GridWidth + i1, i2 - i1 + 1, j2 - j1 + 1)
               = {j * GridWidth + i : i \in i1 .. i2, j \in j1 .. j2}
  <1> DEFINE G == GridWidth
             first == j1 * G + i1
  <1>1. G \in Nat
    BY GridConstants
  <1>2. \A i, j \in Int : first + j * G + i = (j1 + j) * G + (i1 + i)
    BY <1>1, Z3
  <1>3. ASSUME NEW i \in i1 .. i2, NEW j \in j1 .. j2
        PROVE  \E a \in 0 .. i2 - i1, b \in 0 .. j2 - j1 : first + b * G + a = j * G + i
    <2>1. i - i1 \in 0 .. i2 - i1 /\ j - j1 \in 0 .. j2 - j1
      BY <1>1
    <2>2. first + (j - j1) * G + (i - i1) = (j1 + (j - j1)) * G + (i1 + (i - i1))
      BY <1>2
    <2>3. j1 + (j - j1) = j /\ i1 + (i - i1) = i
      BY <1>1
    <2> QED
      BY <2>1, <2>2, <2>3
  <1>4. ASSUME NEW a \in 0 .. i2 - i1, NEW b \in 0 .. j2 - j1
        PROVE  \E i \in i1 .. i2, j \in j1 .. j2 : first + b * G + a = j * G + i
    <2>1. i1 + a \in i1 .. i2 /\ j1 + b \in j1 .. j2 /\ a \in Int /\ b \in Int
      BY <1>1
    <2> QED
      BY <1>2, <2>1
  <1>5. CellsFrom(first, i2 - i1 + 1, j2 - j1 + 1) = {first + b * G + a : a \in 0 .. i2 - i1, b \in 0 .. j2 - j1}
    <2>1. i2 - i1 + 1 - 1 = i2 - i1 /\ j2 - j1 + 1 - 1 = j2 - j1
      BY <1>1
    <2> QED
      BY <2>1 DEF CellsFrom
  <1> QED
    BY <1>3, <1>4, <1>5

(* The range of an area holds cells only, and each cell with something strictly inside of
   the area. *)
LEMMA RangeIsExact ==
    ASSUME NEW x \in Int, NEW y \in Int, NEW size \in Nat
    PROVE  /\ RangeOf(x, y, size) \subseteq Cells
           /\ \A p \in [x : Int, y : Int], c \in Cells :
                 /\ CellContains(c, p)
                 /\ x < p.x /\ p.x < x + size /\ y < p.y /\ p.y < y + size
                 => c \in RangeOf(x, y, size)
  <1> DEFINE outside == \/ x >= HalfSize \/ x + size <= -HalfSize
                        \/ y >= HalfSize \/ y + size <= -HalfSize
             bx == Max({x, -HalfSize})
             by == Max({y, -HalfSize})
             ex == Min({x + size, HalfSize - Unit})
             ey == Min({y + size, HalfSize - Unit})
  <1>1. HalfSize \in Nat /\ GridWidth \in Nat
    BY GridConstants
  <1>2. CASE outside
    <2>1. RangeOf(x, y, size) = {}
      BY <1>2 DEF RangeOf
    <2>2. ASSUME NEW p \in [x : Int, y : Int], InGrid(p.x, p.y),
                 x < p.x /\ p.x < x + size /\ y < p.y /\ p.y < y + size
          PROVE  FALSE
      BY <1>1, <1>2, <2>2 DEF InGrid
    <2> QED
      BY <2>1, <2>2, ContainedInGrid
  <1>3. CASE ~outside
    <2>1. /\ x < HalfSize /\ x + size > -HalfSize /\ y < HalfSize /\ y + size > -HalfSize
      BY <1>1, <1>3
    <2>2. /\ Line(bx) \in 0 .. GridWidth - 1 /\ Line(ex) \in 0 .. GridWidth - 1
          /\ \A v \in -HalfSize .. HalfSize - 1 : v \in x .. x + size => Line(v) \in Line(bx) .. Line(ex)
      BY <2>1, Clamped
    <2>3. /\ Line(by) \in 0 .. GridWidth - 1 /\ Line(ey) \in 0 .. GridWidth - 1
          /\ \A v \in -HalfSize .. HalfSize - 1 : v \in y .. y + size => Line(v) \in Line(by) .. Line(ey)
      BY <2>1, Clamped
    <2>4. RangeOf(x, y, size) =
              LET first == IndexOf(bx, by)
                  last == IndexOf(ex, ey)
              IN  CellsFrom(first, (last % GridWidth) - (first % GridWidth) + 1,
                            (last \div GridWidth) - (first \div GridWidth) + 1)
      BY <1>3 DEF RangeOf
    <2>5. IndexOf(bx, by) = Line(by) * GridWidth + Line(bx) /\ IndexOf(ex, ey) = Line(ey) * GridWidth + Line(ex)
      BY DEF IndexOf, Line
    <2> HIDE DEF bx, by, ex, ey
    <2>6. /\ IndexOf(bx, by) % GridWidth = Line(bx) /\ IndexOf(bx, by) \div GridWidth = Line(by)
          /\ IndexOf(ex, ey) % GridWidth = Line(ex) /\ IndexOf(ex, ey) \div GridWidth = Line(ey)
      BY <2>2, <2>3, <2>5, CellOfRow
    <2>7. RangeOf(x, y, size) = {j * GridWidth + i : i \in Line(bx) .. Line(ex), j \in Line(by) .. Line(ey)}
      BY <2>2, <2>3, <2>4, <2>5, <2>6, CellsOfLines
    <2>8. RangeOf(x, y, size) \subseteq Cells
      <3>1. \A i \in Line(bx) .. Line(ex) : i \in 0 .. GridWidth - 1
        BY <1>1, <2>2
      <3>2. \A j \in Line(by) .. Line(ey) : j \in 0 .. GridWidth - 1
        BY <1>1, <2>3
      <3> QED
        BY <2>7, <3>1, <3>2, CellOfRow
    <2>9. ASSUME NEW p \in [x : Int, y : Int], NEW c \in Cells, CellContains(c, p),
                 x < p.x /\ p.x < x + size /\ y < p.y /\ p.y < y + size
          PROVE  c \in RangeOf(x, y, size)
      <3>1. InGrid(p.x, p.y) /\ c = Line(p.y) * GridWidth + Line(p.x)
        BY <2>9, ContainedInGrid, CellHasLines
      <3>2. p.x \in -HalfSize .. HalfSize - 1 /\ p.y \in -HalfSize .. HalfSize - 1
        BY <3>1 DEF InGrid
      <3>3. p.x \in x .. x + size /\ p.y \in y .. y + size
        BY <2>9
      <3> QED
        BY <2>2, <2>3, <2>7, <3>1, <3>2, <3>3
    <2> QED
      BY <2>8, <2>9
  <1> QED
    BY <1>2, <1>3

-----------------------------------------------------------------------------
(* What a celestial scan collects, and how it is split into messages *)
LEMMA SmallSquares ==
    ASSUME NEW a \in Int, NEW b \in Int, NEW r \in Nat, Sqr(a) + Sqr(b) < Sqr(r)
    PROVE  -r < a /\ a < r /\ -r < b /\ b < r
  <1>1. \A n \in Int : n * n >= 0 /\ n * n \in Int
    BY Z3
  <1>2. \A n \in Int : n >= r \/ -n >= r => n * n >= r * r
    BY Z3
  <1>3. a * a + b * b < r * r
    BY DEF Sqr
  <1> QED
    BY <1>1, <1>2, <1>3

Around == RangeOf(place[Platform].x - MaxRadius, place[Platform].y - MaxRadius, 2 * MaxRadius)
Near(o) == DistanceSqr(o) < Sqr(MaxRadius)

(* What a scan collects is listed in one of the cells it looks into *)
LEMMA CollectedThere ==
    ASSUME NEW o
    PROVE  o \in Collected <=> (\E c \in Around : o \in members[c]) /\ o # Platform /\ Near(o)
  <1>1. Collected = {x \in (UNION {members[c] : c \in Around}) \ {Platform} : Near(x)}
    BY DEF Collected, Around, Near
  <1>2. o \in Collected <=> o \in (UNION {members[c] : c \in Around}) \ {Platform} /\ Near(o)
    BY <1>1
  <1> QED
    BY <1>2

(* A scan collects exactly the objects within its radius that are in the grid *)
LEMMA CollectedIsExact ==
    ASSUME WorldInv, stage = "modules"
    PROVE  /\ Collected \subseteq Objects
           /\ Collected \ displaced =
                  {o \in spawned \ displaced : /\ o # Platform
                                              /\ InGrid(place[o].x, place[o].y)
                                              /\ DistanceSqr(o) < Sqr(MaxRadius)}
  <1> DEFINE here == place[Platform]
  <1>1. MaxRadius \in Nat /\ Platform \in Objects
    BY ScannersAssumption
  <1>2. \A o \in Objects : place[o] \in [x : Int, y : Int] /\ place[o].x \in Int /\ place[o].y \in Int
    BY PlacesAreIntegers DEF WorldInv, WorldTypeOK
  <1>3. /\ Around \subseteq Cells
        /\ \A p \in [x : Int, y : Int], c \in Cells :
              /\ CellContains(c, p)
              /\ here.x - MaxRadius < p.x /\ p.x < here.x + MaxRadius
              /\ here.y - MaxRadius < p.y /\ p.y < here.y + MaxRadius
              => c \in Around
    <2>1. here.x \in Int /\ here.y \in Int
      BY <1>1, <1>2
    <2> HIDE DEF here
    <2>2. here.x - MaxRadius \in Int /\ here.y - MaxRadius \in Int /\ 2 * MaxRadius \in Nat
      BY <1>1, <2>1
    <2>3. /\ here.x - MaxRadius + 2 * MaxRadius = here.x + MaxRadius
          /\ here.y - MaxRadius + 2 * MaxRadius = here.y + MaxRadius
      BY <1>1, <2>1
    <2> QED
      BY <2>2, <2>3, RangeIsExact DEF Around, here
  <1>4. \A o \in Objects, c \in Cells : o \in members[c] <=> c = cell[o]
    BY GridConstants DEF WorldInv, ListedThere, LeavesForAnother
  <1>5. \A o : o \in Collected <=> o \in Objects /\ cell[o] \in Around /\ o # Platform /\ Near(o)
    BY <1>3, <1>4, CollectedThere DEF WorldInv, WorldTypeOK
  <1>6. \A o \in spawned \ displaced : o \in Objects /\ InItsCell(o)
    BY DEF WorldInv, WorldTypeOK, MovedAreInTheirCells
  <1>7. ASSUME NEW o \in Collected \ displaced PROVE o \in spawned /\ InGrid(place[o].x, place[o].y)
    <2>1. o \in Objects /\ cell[o] \in Cells /\ cell[o] # NoCell
      BY <1>3, <1>5, GridConstants
    <2>2. o \in spawned
      BY <2>1 DEF WorldInv, SpawnedAreListed
    <2> QED
      BY <1>6, <2>1, <2>2 DEF InItsCell
  <1>8. ASSUME NEW o \in spawned \ displaced, o # Platform, InGrid(place[o].x, place[o].y), Near(o)
        PROVE  o \in Collected
    <2>1. o \in Objects /\ CellContains(cell[o], place[o])
      BY <1>6, <1>8 DEF InItsCell
    <2>2. cell[o] \in Cells
      BY <1>6, <1>8 DEF InItsCell
    <2>3. /\ -MaxRadius < place[o].x - here.x /\ place[o].x - here.x < MaxRadius
          /\ -MaxRadius < place[o].y - here.y /\ place[o].y - here.y < MaxRadius
      <3>1. Sqr(place[o].x - here.x) + Sqr(place[o].y - here.y) < Sqr(MaxRadius)
        BY <1>8 DEF Near, DistanceSqr
      <3>2. place[o].x - here.x \in Int /\ place[o].y - here.y \in Int
        BY <1>1, <1>2, <2>1
      <3> QED
        BY <1>1, <3>1, <3>2, SmallSquares
    <2>4. /\ here.x - MaxRadius < place[o].x /\ place[o].x < here.x + MaxRadius
          /\ here.y - MaxRadius < place[o].y /\ place[o].y < here.y + MaxRadius
      BY <1>1, <1>2, <2>1, <2>3
    <2>5. cell[o] \in Around
      BY <1>2, <1>3, <2>1, <2>2, <2>4
    <2> QED
      BY <1>5, <1>8, <2>1, <2>5
  <1>9. Collected \ displaced = {o \in spawned \ displaced : o # Platform /\ InGrid(place[o].x, place[o].y) /\ Near(o)}
    BY <1>5, <1>7, <1>8 DEF Near
  <1> QED
    BY <1>5, <1>9 DEF Near

(* The messages of an answer hold every entry of the list once, and the last one has
   nothing left. *)
BatchTotal(n) == Max({1, (n + BatchSize - 1) \div BatchSize})
BatchEnd(n, i) == Min({i * BatchSize, n})

(* Where the messages of a list begin and end *)
LEMMA BatchNumbers ==
    ASSUME NEW n \in Nat
    PROVE  /\ BatchTotal(n) \in Nat \ {0}
           /\ BatchTotal(n) * BatchSize >= n
           /\ \A k \in 1 .. n : (k - 1) \div BatchSize + 1 \in 1 .. BatchTotal(n)
           /\ \A i \in Nat : /\ i * BatchSize \in Nat
                             /\ BatchEnd(n, i) = IF i * BatchSize <= n THEN i * BatchSize ELSE n
  <1> DEFINE B == BatchSize
             t == (n + B - 1) \div B
  <1>1. B \in Nat \ {0} /\ n + B - 1 \in Nat
    BY ScannersAssumption
  <1>2. t \in Nat /\ n + B - 1 < t * B + B /\ t * B \in Nat
    BY <1>1, Division
  <1> HIDE DEF t
  <1>3. t * B >= n
    BY <1>1, <1>2
  <1>4. BatchTotal(n) = IF 1 >= t THEN 1 ELSE t
    <2>1. BatchTotal(n) = Max({1, t})
      BY DEF BatchTotal, t
    <2>2. \A a, b \in Int : Max({a, b}) = IF a >= b THEN a ELSE b
      BY MinMax
    <2>3. 1 \in Int /\ t \in Int
      BY <1>2
    <2>4. Max({1, t}) = IF 1 >= t THEN 1 ELSE t
      BY <2>2, <2>3, Zenon
    <2> QED
      BY <2>1, <2>4
  <1>5. BatchTotal(n) \in Nat \ {0} /\ BatchTotal(n) * B >= n
    <2>1. CASE 1 >= t
      <3>1. t = 0 \/ t = 1
        BY <1>2, <2>1
      <3>2. t * B <= 1 * B
        BY <1>1, <3>1
      <3> QED
        BY <1>1, <1>2, <1>3, <1>4, <2>1, <3>2
    <2>2. CASE ~(1 >= t)
      BY <1>2, <1>3, <1>4, <2>2
    <2> QED
      BY <2>1, <2>2
  <1>6. ASSUME NEW k \in 1 .. n PROVE (k - 1) \div B + 1 \in 1 .. BatchTotal(n)
    <2> DEFINE q == (k - 1) \div B
    <2>1. q \in Nat /\ q * B <= k - 1
      <3>1. k - 1 \in Nat
        OBVIOUS
      <3> QED
        BY <1>1, <3>1, Division
    <2> HIDE DEF q
    <2>2. q < t
      <3>1. \A m \in Nat : q >= m => q * B >= m * B
        BY <1>1, <2>1, Z3
      <3>2. q * B \in Nat
        BY <1>1, <2>1
      <3> QED
        BY <1>2, <1>3, <2>1, <3>1, <3>2
    <2> QED
      BY <1>2, <1>4, <2>1, <2>2 DEF q
  <1>7. ASSUME NEW i \in Nat
        PROVE  i * B \in Nat /\ BatchEnd(n, i) = IF i * B <= n THEN i * B ELSE n
    <2>1. i * B \in Nat
      BY <1>1
    <2> QED
      BY <2>1, MinMax DEF BatchEnd
  <1> QED
    BY <1>5, <1>6, <1>7

(* The messages of a list, one by one *)
LEMMA BatchesAre ==
    ASSUME NEW list
    PROVE  /\ DOMAIN Batches(list) = 1 .. BatchTotal(Len(list))
           /\ \A i \in 1 .. BatchTotal(Len(list)) :
                 /\ Batches(list)[i].items = SubSeq(list, (i - 1) * BatchSize + 1, BatchEnd(Len(list), i))
                 /\ Batches(list)[i].left = Len(list) - BatchEnd(Len(list), i)
  BY DEF Batches, BatchTotal, BatchEnd

(* The position in the list of the entry e *)
Position(e) == (e[1] - 1) * BatchSize + e[2]

(* Each position of the list is in one message, and each place in a message is a position of the list *)
LEMMA EntriesAre ==
    ASSUME NEW S, NEW list \in Seq(S)
    PROVE  LET bs == Batches(list)
           IN  /\ \A e \in Entries(bs) : /\ Position(e) \in DOMAIN list
                                        /\ bs[e[1]].items[e[2]] = list[Position(e)]
                                        /\ e = <<e[1], e[2]>>
                                        /\ e[1] \in Nat \ {0} /\ e[2] \in 1 .. BatchSize
               /\ \A k \in DOMAIN list : \E e \in Entries(bs) : Position(e) = k
  <1> DEFINE n == Len(list)
             B == BatchSize
             bs == Batches(list)
  <1>1. n \in Nat /\ DOMAIN list = 1 .. n /\ B \in Nat \ {0} /\ BatchTotal(n) \in Nat \ {0}
    BY ScannersAssumption, BatchNumbers
  <1>2. ASSUME NEW i \in 1 .. BatchTotal(n)
        PROVE  LET a == (i - 1) * B
               IN  /\ a \in Nat /\ a + B = i * B
                   /\ DOMAIN bs[i].items = 1 .. BatchEnd(n, i) - a
                   /\ BatchEnd(n, i) \in Nat /\ BatchEnd(n, i) <= n /\ BatchEnd(n, i) <= a + B
                   /\ (a + B <= n => BatchEnd(n, i) = a + B) /\ (a + B > n => BatchEnd(n, i) = n)
                   /\ \A j \in 1 .. BatchEnd(n, i) - a : bs[i].items[j] = list[a + j]
    <2> DEFINE a == (i - 1) * B
               end == BatchEnd(n, i)
    <2>1. i \in Nat \ {0} /\ i - 1 \in Nat
      BY <1>1
    <2>2. a \in Nat /\ i * B \in Nat
      BY <1>1, <2>1
    <2>3. a + B = i * B
      BY <1>1, <2>1, Z3
    <2> HIDE DEF a
    <2>4. end = IF i * B <= n THEN i * B ELSE n
      BY <1>1, <2>1, BatchNumbers
    <2>5. end \in Nat /\ end <= n /\ end <= a + B /\ (a + B <= n => end = a + B) /\ (a + B > n => end = n)
      <3> HIDE DEF end, n
      <3> QED
        BY <1>1, <2>2, <2>3, <2>4
    <2>6. bs[i].items = SubSeq(list, a + 1, end)
      BY BatchesAre DEF a
    <2> HIDE DEF end, n, bs
    <2>7. \A k \in a + 1 .. end : list[k] \in S
      BY <1>1, <2>2, <2>5
    <2>8. /\ bs[i].items \in Seq(S) /\ Len(bs[i].items) = IF a + 1 <= end THEN end - (a + 1) + 1 ELSE 0
          /\ \A j \in 1 .. end - (a + 1) + 1 : bs[i].items[j] = list[(a + 1) + j - 1]
      BY <2>2, <2>5, <2>6, <2>7, SubSeqProperties
    <2>9. end - (a + 1) + 1 = end - a /\ \A j \in Int : (a + 1) + j - 1 = a + j
      BY <2>2, <2>5
    <2>10. DOMAIN bs[i].items = 1 .. end - a
      BY <2>2, <2>5, <2>8
    <2>11. \A j \in 1 .. end - a : bs[i].items[j] = list[a + j]
      BY <2>2, <2>5, <2>8, <2>9
    <2> QED
      BY <2>2, <2>3, <2>5, <2>10, <2>11 DEF a, end, n, bs
  <1>3. DOMAIN bs = 1 .. BatchTotal(n)
    BY BatchesAre
  <1> HIDE DEF n, bs
  <1>4. ASSUME NEW e \in Entries(bs)
        PROVE  /\ Position(e) \in DOMAIN list /\ bs[e[1]].items[e[2]] = list[Position(e)]
               /\ e = <<e[1], e[2]>> /\ e[1] \in Nat \ {0} /\ e[2] \in 1 .. B
    <2>1. PICK i \in 1 .. BatchTotal(n) : e \in {i} \X DOMAIN bs[i].items
      BY <1>3 DEF Entries
    <2>2. e = <<e[1], e[2]>> /\ e[1] = i /\ e[2] \in DOMAIN bs[i].items
      BY <2>1
    <2> DEFINE a == (i - 1) * B
    <2>3. /\ a \in Nat /\ DOMAIN bs[i].items = 1 .. BatchEnd(n, i) - a
          /\ BatchEnd(n, i) \in Nat /\ BatchEnd(n, i) <= n /\ BatchEnd(n, i) <= a + B
          /\ \A j \in 1 .. BatchEnd(n, i) - a : bs[i].items[j] = list[a + j]
      BY <1>2
    <2>4. Position(e) = a + e[2]
      BY <2>2 DEF Position
    <2> HIDE DEF a
    <2>5. e[2] \in 1 .. BatchEnd(n, i) - a
      BY <2>2, <2>3
    <2>6. bs[i].items[e[2]] = list[a + e[2]]
      BY <2>3, <2>5
    <2>7. a + e[2] \in 1 .. n /\ e[2] \in 1 .. B /\ i \in Nat \ {0}
      BY <1>1, <2>3, <2>5
    <2> QED
      BY <1>1, <2>2, <2>4, <2>6, <2>7
  <1>5. ASSUME NEW k \in DOMAIN list PROVE \E e \in Entries(bs) : Position(e) = k
    <2> DEFINE q == (k - 1) \div B
               i == q + 1
               a == (i - 1) * B
               j == k - a
    <2>1. k \in 1 .. n /\ k - 1 \in Nat
      BY <1>1
    <2>2. q \in Nat /\ q * B <= k - 1 /\ k - 1 < q * B + B
      BY <1>1, <2>1, Division
    <2>3. i \in 1 .. BatchTotal(n)
      BY <1>1, <2>1, BatchNumbers
    <2> HIDE DEF q
    <2>4. i - 1 = q
      BY <2>2
    <2>5. a <= k - 1 /\ k - 1 < a + B
      BY <2>2, <2>4
    <2> HIDE DEF i
    <2>6. /\ a \in Nat /\ DOMAIN bs[i].items = 1 .. BatchEnd(n, i) - a /\ BatchEnd(n, i) \in Nat
          /\ (a + B <= n => BatchEnd(n, i) = a + B) /\ (a + B > n => BatchEnd(n, i) = n)
      BY <1>2, <2>3
    <2> HIDE DEF a
    <2>7. j \in 1 .. BatchEnd(n, i) - a /\ a + j = k
      BY <1>1, <2>1, <2>5, <2>6
    <2> HIDE DEF j
    <2>8. <<i, j>> \in {i} \X DOMAIN bs[i].items
      BY <2>6, <2>7
    <2>9. <<i, j>> \in Entries(bs)
      BY <1>3, <2>3, <2>8 DEF Entries
    <2>10. Position(<<i, j>>) = k
      BY <2>7 DEF Position, a
    <2> QED
      BY <2>9, <2>10
  <1> QED
    BY <1>4, <1>5 DEF bs

(* The messages together are the list: nothing is left out or repeated, and the last one says so *)
LEMMA BatchesAreExact ==
    ASSUME NEW S, NEW list \in Seq(S), IsInjective(list)
    PROVE  LET bs == Batches(list)
           IN  /\ IsInjective(Reported(bs)) /\ Range(Reported(bs)) = Range(list)
               /\ Last(bs).left = 0
  <1> DEFINE n == Len(list)
             bs == Batches(list)
             r == Reported(bs)
  <1>1. /\ \A e \in Entries(bs) : /\ Position(e) \in DOMAIN list
                                 /\ bs[e[1]].items[e[2]] = list[Position(e)]
                                 /\ e = <<e[1], e[2]>>
                                 /\ e[1] \in Nat \ {0} /\ e[2] \in 1 .. BatchSize
        /\ \A k \in DOMAIN list : \E e \in Entries(bs) : Position(e) = k
    BY EntriesAre
  <1>2. DOMAIN r = Entries(bs) /\ \A e \in Entries(bs) : r[e] = bs[e[1]].items[e[2]]
    BY DEF Reported
  <1>3. Last(bs).left = 0
    <2>1. n \in Nat
      OBVIOUS
    <2>2. /\ BatchTotal(n) \in Nat \ {0} /\ BatchTotal(n) * BatchSize >= n /\ BatchTotal(n) * BatchSize \in Nat
          /\ BatchEnd(n, BatchTotal(n)) =
                IF BatchTotal(n) * BatchSize <= n THEN BatchTotal(n) * BatchSize ELSE n
      BY <2>1, BatchNumbers
    <2>3. BatchEnd(n, BatchTotal(n)) = n
      BY <2>1, <2>2
    <2>4. DOMAIN bs = 1 .. BatchTotal(n) /\ BatchTotal(n) \in 1 .. BatchTotal(n)
          /\ bs[BatchTotal(n)].left = n - BatchEnd(n, BatchTotal(n))
      BY <2>2, BatchesAre
    <2> HIDE DEF bs, n
    <2>5. Len(bs) = BatchTotal(n)
      BY <2>2, <2>4
    <2> QED
      BY <2>1, <2>3, <2>4, <2>5 DEF Last
  <1> HIDE DEF bs, r
  <1>4. \A e \in Entries(bs) : r[e] = list[Position(e)] /\ Position(e) \in DOMAIN list
    BY <1>1, <1>2
  <1>5. ASSUME NEW e \in Entries(bs), NEW f \in Entries(bs), Position(e) = Position(f)
        PROVE  e = f
    <2> DEFINE e1 == e[1]  e2 == e[2]  f1 == f[1]  f2 == f[2]
    <2>1. /\ e1 \in Nat \ {0} /\ f1 \in Nat \ {0} /\ e2 \in 1 .. BatchSize /\ f2 \in 1 .. BatchSize
          /\ e = <<e1, e2>> /\ f = <<f1, f2>> /\ BatchSize \in Nat \ {0}
      BY <1>1, ScannersAssumption
    <2>2. (e1 - 1) * BatchSize + e2 = (f1 - 1) * BatchSize + f2
      BY <1>5 DEF Position
    <2> HIDE DEF e1, e2, f1, f2
    <2>3. \A a, b \in Nat, c, d \in 0 .. BatchSize - 1 :
              a * BatchSize + c = b * BatchSize + d => a = b /\ c = d
      <3> SUFFICES ASSUME NEW a \in Nat, NEW b \in Nat, NEW c \in 0 .. BatchSize - 1, NEW d \in 0 .. BatchSize - 1,
                          a * BatchSize + c = b * BatchSize + d
                   PROVE  a = b /\ c = d
        OBVIOUS
      <3>1. (a * BatchSize + c) \div BatchSize = a /\ (a * BatchSize + c) % BatchSize = c
        BY <2>1, DivisionUnique
      <3>2. (b * BatchSize + d) \div BatchSize = b /\ (b * BatchSize + d) % BatchSize = d
        BY <2>1, DivisionUnique
      <3> QED
        BY <3>1, <3>2
    <2>4. e1 - 1 \in Nat /\ f1 - 1 \in Nat /\ e2 - 1 \in 0 .. BatchSize - 1 /\ f2 - 1 \in 0 .. BatchSize - 1
      BY <2>1
    <2>5. (e1 - 1) * BatchSize \in Nat /\ (f1 - 1) * BatchSize \in Nat
      BY <2>1, <2>4
    <2>6. (e1 - 1) * BatchSize + (e2 - 1) = (f1 - 1) * BatchSize + (f2 - 1)
      BY <2>1, <2>2, <2>5
    <2>7. e1 - 1 = f1 - 1 /\ e2 - 1 = f2 - 1
      BY <2>3, <2>4, <2>6
    <2>8. e1 = f1 /\ e2 = f2
      BY <2>1, <2>7
    <2> QED
      BY <2>1, <2>8
  <1>6. IsInjective(r)
    BY <1>2, <1>4, <1>5 DEF IsInjective
  <1>7. Range(r) = Range(list)
    BY <1>1, <1>2, <1>4 DEF Range
  <1> QED
    BY <1>3, <1>6, <1>7 DEF bs, r

(* A sequence of all elements of a set *)
LEMMA OrderedOnce ==
    ASSUME NEW S, IsFiniteSet(S), NEW list \in SetToSeqs(S)
    PROVE  list \in Seq(S) /\ IsInjective(list) /\ Range(list) = S
  <1> DEFINE n == Cardinality(S)
  <1>1. n \in Nat
    BY FS_CardinalityType
  <1>2. list \in [1 .. n -> S] /\ \A i, j \in 1 .. n : i # j => list[i] # list[j]
    BY DEF SetToSeqs
  <1> HIDE DEF n
  <1>3. list \in Injection(1 .. n, S)
    BY <1>2 DEF Injection, IsInjective
  <1>4. Cardinality(1 .. n) = n
    BY <1>1, FS_Interval
  <1>5. list \in Surjection(1 .. n, S)
    BY <1>3, <1>4, FS_Injection DEF n
  <1>6. Range(list) = S
    BY <1>2, <1>5 DEF Surjection, Range
  <1> QED
    BY <1>1, <1>2, <1>3, <1>6 DEF Injection

-----------------------------------------------------------------------------
(* The scanners: the session of a celestial scan is open, unless it was closed meanwhile and is
   forgotten, or was closed before. *)
Scan == [state : {"idle", "active", "deactivating"}, caller : Callers \cup {Nobody}, late : BOOLEAN,
         left : Nat, target : Objects]

ScannersInv ==
    /\ WorldInv
    /\ scan \in [AllKinds -> Scan] /\ listening \subseteq Callers
    /\ scan["celestial"].state # "idle" =>
          scan["celestial"].caller \in listening \cup {Nobody} \/ scan["celestial"].late
    /\ \A k \in AllKinds :
          scan[k].state = "deactivating" => k = "celestial" /\ scan[k].caller = Nobody

(* What a step of the scanners may answer, and to whom: the parts of ScansAreExact *)
AnswersOnce(k) ==
    /\ reply'.from = k =>
          /\ scan[k].state # "idle" /\ scan'[k].state = "idle" /\ reply'.to = scan[k].caller
          /\ k = "celestial" => reply'.to \in listening \cup {Nobody} \/ scan[k].late
    /\ reply'.from # k /\ scan[k].state # "idle" =>
          \/ scan'[k].state = scan[k].state /\ scan'[k].caller = scan[k].caller
          \/ k = "celestial" /\ scan[k].caller \notin listening' /\ scan'[k].caller = Nobody

(* A step that sends nothing says nothing wrong *)
LEMMA SilentIsExact ==
    ASSUME reply' = Silence PROVE ScanIsExact'
  BY DEF ScanIsExact, Silence

(* What a scanner is started with *)
LEMMA StartedScan ==
    ASSUME NEW s \in Callers, NEW o \in Objects, NEW b \in BOOLEAN
    PROVE  [state |-> "active", caller |-> s, late |-> b, left |-> ScanTime, target |-> o] \in Scan
  BY ScannersAssumption DEF Scan

(* A request starts an idle scanner *)
LEMMA ScanRequestStep ==
    ASSUME ScannersInv, NEW k \in AllKinds, NEW s \in Callers, NEW o \in Objects, ScanRequest(k, s, o)
    PROVE  ScannersInv' /\ ScanIsExact' /\ \A kk \in AllKinds : AnswersOnce(kk)
  <1> DEFINE new == [state |-> "active", caller |-> s, late |-> s \notin listening,
                     left |-> ScanTime, target |-> o]
  <1>1. /\ scan[k].state = "idle" /\ scan' = [scan EXCEPT ![k] = new] /\ reply' = Silence
        /\ UNCHANGED worldVars /\ listening' = listening
    BY DEF ScanRequest
  <1>2. WorldInv'
    BY <1>1, WorldStep DEF ScannersInv
  <1>3. new \in Scan
    BY StartedScan
  <1>4. new.state = "active" /\ new.caller = s /\ (new.late <=> s \notin listening)
    OBVIOUS
  <1> HIDE DEF new
  <1>5. scan'[k] = new /\ \A kk \in AllKinds : kk # k => scan'[kk] = scan[kk]
    BY <1>1 DEF ScannersInv
  <1>6. scan' \in [AllKinds -> Scan]
    BY <1>1, <1>3 DEF ScannersInv
  <1>7. ScannersInv'
    BY <1>1, <1>2, <1>4, <1>5, <1>6 DEF ScannersInv, AllKinds
  <1>8. \A kk \in AllKinds : AnswersOnce(kk)
    BY <1>1, <1>5 DEF AnswersOnce, Silence, AllKinds
  <1> QED
    BY <1>1, <1>7, <1>8, SilentIsExact

(* A busy scanner goes on with what it does *)
LEMMA BusyRequestStep ==
    ASSUME ScannersInv, NEW k \in AllKinds, NEW s, BusyRequest(k, s)
    PROVE  ScannersInv' /\ ScanIsExact' /\ \A kk \in AllKinds : AnswersOnce(kk)
  <1>1. reply'.from = "busy" /\ UNCHANGED worldVars /\ scan' = scan /\ listening' = listening
    BY DEF BusyRequest
  <1>2. WorldInv'
    BY <1>1, WorldStep DEF ScannersInv
  <1>3. \A kk \in AllKinds : AnswersOnce(kk)
    BY <1>1 DEF AnswersOnce, AllKinds
  <1> QED
    BY <1>1, <1>2, <1>3 DEF ScannersInv, ScanIsExact

(* A closed session is forgotten by the celestial scanner *)
LEMMA CloseCallerStep ==
    ASSUME ScannersInv, NEW s, CloseCaller(s)
    PROVE  ScannersInv' /\ ScanIsExact' /\ \A kk \in AllKinds : AnswersOnce(kk)
  <1>1. /\ s \in listening /\ listening' = listening \ {s} /\ reply' = Silence /\ UNCHANGED worldVars
    BY DEF CloseCaller
  <1>2. WorldInv'
    BY <1>1, WorldStep DEF ScannersInv
  <1>3. CASE scan["celestial"].caller # s
    <2>1. scan' = scan
      BY <1>3 DEF CloseCaller
    <2> QED
      BY <1>1, <1>2, <1>3, <2>1, SilentIsExact DEF ScannersInv, AnswersOnce, Silence, AllKinds
  <1>4. CASE scan["celestial"].caller = s
    <2> DEFINE old == scan["celestial"]
               next == IF old.state = "idle" THEN "idle" ELSE "deactivating"
               new == [old EXCEPT !.caller = Nobody, !.state = next]
    <2>1. scan' = [scan EXCEPT !["celestial"] = new]
      BY <1>4 DEF CloseCaller, ScannersInv, AllKinds
    <2>2. old \in Scan /\ next \in {"idle", "deactivating"}
      BY DEF ScannersInv, AllKinds
    <2> HIDE DEF old, next
    <2>3. new \in Scan /\ new.caller = Nobody
      BY <2>2 DEF Scan
    <2> HIDE DEF new
    <2>4. scan'["celestial"] = new /\ \A kk \in AllKinds : kk # "celestial" => scan'[kk] = scan[kk]
      BY <2>1 DEF ScannersInv, AllKinds
    <2>5. scan' \in [AllKinds -> Scan]
      BY <2>1, <2>3 DEF ScannersInv
    <2>6. ScannersInv'
      BY <1>1, <1>2, <2>3, <2>4, <2>5 DEF ScannersInv
    <2>7. \A kk \in AllKinds : AnswersOnce(kk)
      BY <1>1, <1>4, <2>3, <2>4 DEF AnswersOnce, Silence, AllKinds
    <2> QED
      BY <1>1, <2>6, <2>7, SilentIsExact
  <1> QED
    BY <1>3, <1>4

(* A scan that takes more time keeps its caller, unless it has none *)
LEMMA ScanGoesOnStep ==
    ASSUME ScannersInv, NEW k \in AllKinds, ScanGoesOn(k)
    PROVE  ScannersInv' /\ ScanIsExact' /\ \A kk \in AllKinds : AnswersOnce(kk)
  <1> DEFINE old == scan[k]
             next == IF old.state = "deactivating" THEN "idle" ELSE old.state
             less == old.left - 1
             new == [old EXCEPT !.left = less, !.state = next]
  <1>1. /\ old.state # "idle" /\ old.left > 1 /\ scan' = [scan EXCEPT ![k] = new] /\ reply' = Silence
        /\ UNCHANGED worldVars /\ listening' = listening
    BY DEF ScanGoesOn, ScannersInv
  <1>2. WorldInv'
    BY <1>1, WorldStep DEF ScannersInv
  <1>3. old \in Scan /\ old.left \in Nat
    BY DEF ScannersInv, Scan
  <1>4. less \in Nat
    BY <1>1, <1>3
  <1>5. next \in {"idle", "active"} /\ (old.state = "active" => next = "active")
    BY <1>1, <1>3 DEF Scan
  <1>6. /\ old.state = "deactivating" => k = "celestial" /\ old.caller = Nobody
        /\ k = "celestial" => old.caller \in listening \cup {Nobody} \/ old.late
        /\ old.state = "active" \/ old.state = "deactivating"
    BY <1>1, <1>3 DEF ScannersInv, Scan
  <1>7. scan'[k] = new /\ \A kk \in AllKinds : kk # k => scan'[kk] = scan[kk]
    BY <1>1 DEF ScannersInv
  <1> HIDE DEF old, next, less
  <1>8. new \in Scan /\ new.state = next /\ new.caller = old.caller /\ new.late = old.late
    BY <1>3, <1>4, <1>5 DEF Scan
  <1>9. scan' \in [AllKinds -> Scan]
    BY <1>1, <1>8 DEF ScannersInv
  <1> HIDE DEF new
  <1>10. ScannersInv'
    BY <1>1, <1>2, <1>5, <1>6, <1>7, <1>8, <1>9 DEF ScannersInv, AllKinds
  <1>11. \A kk \in AllKinds : AnswersOnce(kk)
    <2>1. Nobody \notin listening
      BY ScannersAssumption DEF ScannersInv
    <2>2. AnswersOnce(k)
      BY <1>1, <1>5, <1>6, <1>7, <1>8, <2>1 DEF AnswersOnce, Silence, AllKinds, old
    <2> QED
      BY <1>1, <1>7, <2>2 DEF AnswersOnce, Silence, AllKinds
  <1> QED
    BY <1>1, <1>10, <1>11, SilentIsExact

(* The end of a celestial scan answers its caller, with what is there *)
LEMMA CelestialScanStep ==
    ASSUME ScannersInv, CelestialScanEnds
    PROVE  ScannersInv' /\ ScanIsExact' /\ \A kk \in AllKinds : AnswersOnce(kk)
  <1> DEFINE k == "celestial"
             new == [scan[k] EXCEPT !.state = "idle"]
  <1>1. /\ stage = "modules" /\ scan[k].state # "idle" /\ scan' = [scan EXCEPT ![k] = new]
        /\ UNCHANGED worldVars /\ listening' = listening
    BY DEF CelestialScanEnds, ScannersInv, AllKinds
  <1>2. PICK list \in SetToSeqs(Collected) :
            reply' = [from |-> k, to |-> scan[k].caller, batches |-> Batches(list)]
    BY DEF CelestialScanEnds
  <1>3. reply'.from = k /\ reply'.to = scan[k].caller /\ reply'.batches = Batches(list)
    BY <1>2
  <1>4. WorldInv'
    BY <1>1, WorldStep DEF ScannersInv
  <1>5. new \in Scan /\ new.state = "idle" /\ k \in AllKinds
    BY DEF ScannersInv, Scan, AllKinds
  <1> HIDE DEF new
  <1>6. scan'[k] = new /\ \A kk \in AllKinds : kk # k => scan'[kk] = scan[kk]
    BY <1>1, <1>5 DEF ScannersInv
  <1>7. ScannersInv'
    BY <1>1, <1>4, <1>5, <1>6 DEF ScannersInv
  <1>8. \A kk \in AllKinds : AnswersOnce(kk)
    <2>1. scan'[k].state = "idle" /\ (scan[k].caller \in listening \cup {Nobody} \/ scan[k].late)
      BY <1>1, <1>5, <1>6 DEF ScannersInv
    <2>2. AnswersOnce(k)
      BY <1>1, <1>3, <2>1 DEF AnswersOnce
    <2>3. \A kk \in AllKinds : kk # k => AnswersOnce(kk)
      BY <1>3, <1>6 DEF AnswersOnce
    <2> QED
      BY <2>2, <2>3
  <1>9. ScanIsExact'
    <2>1. /\ Collected \subseteq Objects
          /\ Collected \ displaced =
                  {o \in spawned \ displaced : /\ o # Platform
                                              /\ InGrid(place[o].x, place[o].y)
                                              /\ DistanceSqr(o) < Sqr(MaxRadius)}
      BY <1>1, CollectedIsExact DEF ScannersInv
    <2>2. IsFiniteSet(Collected)
      BY <2>1, ScannersAssumption, FS_Subset
    <2>3. list \in Seq(Collected) /\ IsInjective(list) /\ Range(list) = Collected
      BY <2>2, OrderedOnce
    <2>4. /\ IsInjective(Reported(Batches(list))) /\ Range(Reported(Batches(list))) = Collected
          /\ Last(Batches(list)).left = 0
      BY <2>3, BatchesAreExact
    <2>5. place' = place /\ spawned' = spawned /\ displaced' = displaced
      BY <1>1 DEF worldVars
    <2>6. /\ IsInjective(Reported(reply'.batches)) /\ Range(Reported(reply'.batches)) = Collected
          /\ Last(reply'.batches).left = 0
      BY <1>3, <2>4
    <2> QED
      BY <2>1, <2>5, <2>6 DEF ScanIsExact, DistanceSqr
  <1> QED
    BY <1>7, <1>8, <1>9

(* The end of an asteroid scan answers its caller *)
LEMMA AsteroidScanStep ==
    ASSUME ScannersInv, AsteroidScanEnds
    PROVE  ScannersInv' /\ ScanIsExact' /\ \A kk \in AllKinds : AnswersOnce(kk)
  <1> DEFINE k == "asteroid"
             lost == ~WithinReach(scan[k].target)
             new == [scan[k] EXCEPT !.state = "idle", !.caller = IF lost THEN @ ELSE Nobody]
  <1>1. /\ scan[k].state # "idle" /\ scan' = [scan EXCEPT ![k] = new] /\ reply'.from = k /\ reply'.to = scan[k].caller
        /\ UNCHANGED worldVars /\ listening' = listening
    BY DEF AsteroidScanEnds, ScannersInv, AllKinds
  <1>2. WorldInv'
    BY <1>1, WorldStep DEF ScannersInv
  <1>3. new \in Scan /\ new.state = "idle" /\ k \in AllKinds
    BY DEF ScannersInv, Scan, AllKinds
  <1> HIDE DEF new
  <1>4. scan'[k] = new /\ \A kk \in AllKinds : kk # k => scan'[kk] = scan[kk]
    BY <1>1, <1>3 DEF ScannersInv
  <1>5. ScannersInv'
    BY <1>1, <1>2, <1>3, <1>4 DEF ScannersInv, AllKinds
  <1>6. \A kk \in AllKinds : AnswersOnce(kk)
    <2>1. AnswersOnce(k)
      BY <1>1, <1>3, <1>4 DEF AnswersOnce
    <2>2. \A kk \in AllKinds : kk # k => AnswersOnce(kk)
      BY <1>1, <1>4 DEF AnswersOnce
    <2> QED
      BY <2>1, <2>2
  <1>7. ScanIsExact'
    BY <1>1 DEF ScanIsExact
  <1> QED
    BY <1>5, <1>6, <1>7

(* Every step keeps the invariant and answers exactly *)
LEMMA ScannersStep ==
    ASSUME ScannersInv, ScannersNext
    PROVE  ScannersInv' /\ ScanIsExact' /\ \A kk \in AllKinds : AnswersOnce(kk)
  <1>1. CASE WorldNext /\ reply' = Silence /\ UNCHANGED <<scan, listening>>
    <2>1. WorldInv'
      BY <1>1, WorldStep DEF ScannersInv
    <2>2. ScannersInv'
      BY <1>1, <2>1 DEF ScannersInv
    <2>3. \A kk \in AllKinds : AnswersOnce(kk)
      BY <1>1 DEF AnswersOnce, Silence, AllKinds
    <2> QED
      BY <1>1, <2>2, <2>3, SilentIsExact
  <1>2. Kinds \subseteq AllKinds
    BY ScannersAssumption
  <1> QED
    BY <1>1, <1>2, ScanRequestStep, BusyRequestStep, CloseCallerStep, ScanGoesOnStep, CelestialScanStep, AsteroidScanStep
       DEF ScannersNext

(* It holds at the start *)
LEMMA ScannersStart ==
    ASSUME ScannersInit PROVE ScannersInv
  <1>1. WorldInv
    BY GridConstants
       DEF ScannersInit, WorldInit, WorldInv, WorldTypeOK, ListedThere, LeavesForAnother, MovedAreInTheirCells,
           SpawnedAreListed
  <1>2. Idle \in Scan /\ Idle.state = "idle"
    BY ScannersAssumption DEF Idle, Scan
  <1> QED
    BY <1>1, <1>2 DEF ScannersInit, ScannersInv, AllKinds

(* A celestial scan reports exactly the asteroids within its radius, each once and over
   all messages of the answer, although it looks only into the cells that Grid::range
   returns and threads have moved objects between cells (CelestialScanner.cpp:97); and
   each scan is answered once, to the session it was started for, and to no session that was
   closed while it ran. *)
THEOREM ScansStayExact == ScannersSpec => ScansAreExact
  <1>1. ScannersInit => ScannersInv
    BY ScannersStart
  <1>2. ScannersInv /\ [ScannersNext]_scannersVars => ScannersInv'
    <2>1. ScannersInv /\ UNCHANGED scannersVars => ScannersInv'
      <3> SUFFICES ASSUME ScannersInv, UNCHANGED scannersVars PROVE ScannersInv'
        OBVIOUS
      <3>1. WorldInv'
        BY WorldStep DEF scannersVars, ScannersInv
      <3> QED
        BY <3>1 DEF scannersVars, ScannersInv
    <2> QED
      BY <2>1, ScannersStep
  <1>3. ScannersInv /\ [ScannersNext]_scannersVars => [ScanIsExact']_scannersVars
    BY ScannersStep
  <1>4. ScannersInv /\ [ScannersNext]_scannersVars => [\A k \in AllKinds : AnswersOnce(k)]_scannersVars
    BY ScannersStep
  <1> QED
    BY <1>1, <1>2, <1>3, <1>4, PTL DEF ScannersSpec, ScansAreExact, ScanIsAnsweredOnce, AnswersOnce

-----------------------------------------------------------------------------
(* The screen of administrators *)

(* A list that names no object twice *)
Once(s) == s \in Seq(Bodies) /\ IsInjective(s)

(* The empty list *)
LEMMA EmptyOnce == Once(<<>>) /\ Range(<<>>) = {}
  BY DEF Once, IsInjective, Range

(* A list that gets one more object *)
LEMMA AppendOnce ==
    ASSUME NEW s, Once(s), NEW o \in Bodies, o \notin Range(s)
    PROVE  Once(Append(s, o)) /\ Range(Append(s, o)) = Range(s) \cup {o}
  <1> DEFINE t == Append(s, o)
             n == Len(s)
  <1>1. s \in Seq(Bodies) /\ DOMAIN s = 1 .. n /\ n \in Nat /\ IsInjective(s)
    BY DEF Once
  <1>2. t \in Seq(Bodies) /\ Len(t) = n + 1 /\ (\A i \in 1 .. n : t[i] = s[i]) /\ t[n + 1] = o
    BY <1>1, AppendProperties
  <1>3. DOMAIN t = 1 .. n + 1
    BY <1>2
  <1> HIDE DEF t, n
  <1>4. \A i \in 1 .. n : s[i] # o
    BY <1>1 DEF Range
  <1>5. \A i \in 1 .. n + 1 : i \in 1 .. n \/ i = n + 1
    BY <1>1
  <1>6. IsInjective(t)
    BY <1>1, <1>2, <1>3, <1>4, <1>5 DEF IsInjective
  <1>7. \A i \in 1 .. n : i \in 1 .. n + 1
    BY <1>1
  <1>8. n + 1 \in 1 .. n + 1
    BY <1>1
  <1>9. Range(t) = Range(s) \cup {o}
    BY <1>1, <1>2, <1>3, <1>5, <1>7, <1>8 DEF Range
  <1> QED
    BY <1>2, <1>6, <1>9 DEF Once, t

(* A list that gets the objects of another one *)
LEMMA ConcatOnce ==
    ASSUME NEW s, NEW u, Once(s), Once(u), Range(s) \cap Range(u) = {}
    PROVE  Once(s \o u) /\ Range(s \o u) = Range(s) \cup Range(u)
  <1> DEFINE t == s \o u
             n == Len(s)
             m == Len(u)
  <1>1. /\ s \in Seq(Bodies) /\ DOMAIN s = 1 .. n /\ n \in Nat /\ IsInjective(s)
        /\ u \in Seq(Bodies) /\ DOMAIN u = 1 .. m /\ m \in Nat /\ IsInjective(u)
    BY DEF Once
  <1>2. /\ t \in Seq(Bodies) /\ Len(t) = n + m
        /\ \A i \in 1 .. n + m : t[i] = IF i <= n THEN s[i] ELSE u[i - n]
    BY <1>1, ConcatProperties
  <1>3. DOMAIN t = 1 .. n + m
    BY <1>2
  <1> HIDE DEF t, n, m
  <1>4. \A i \in 1 .. n + m : (i \in 1 .. n /\ t[i] = s[i]) \/ (i \notin 1 .. n /\ i - n \in 1 .. m /\ t[i] = u[i - n])
    BY <1>1, <1>2
  <1>5. \A i \in 1 .. n, j \in 1 .. m : s[i] # u[j]
    BY <1>1 DEF Range
  <1>6. IsInjective(t)
    <2> SUFFICES ASSUME NEW i \in 1 .. n + m, NEW j \in 1 .. n + m, t[i] = t[j] PROVE i = j
      BY <1>3 DEF IsInjective
    <2>1. CASE i \in 1 .. n /\ j \in 1 .. n
      BY <1>1, <1>4, <2>1 DEF IsInjective
    <2>2. CASE i \notin 1 .. n /\ j \notin 1 .. n
      <3>1. u[i - n] = u[j - n] /\ i - n \in 1 .. m /\ j - n \in 1 .. m
        BY <1>4, <2>2
      <3>2. i - n = j - n
        BY <1>1, <3>1 DEF IsInjective
      <3> QED
        BY <1>1, <3>2
    <2> QED
      BY <1>4, <1>5, <2>1, <2>2
  <1>7. \A i \in 1 .. n : i \in 1 .. n + m /\ t[i] = s[i]
    BY <1>1, <1>2
  <1>8. \A j \in 1 .. m : n + j \in 1 .. n + m /\ t[n + j] = u[j]
    BY <1>1, <1>2
  <1>9. Range(t) = Range(s) \cup Range(u)
    <2>1. \A i \in DOMAIN t : t[i] \in Range(s) \cup Range(u)
      BY <1>1, <1>3, <1>4 DEF Range
    <2>2. \A i \in DOMAIN s : s[i] \in Range(t)
      BY <1>1, <1>3, <1>7 DEF Range
    <2>3. \A i \in DOMAIN u : u[i] \in Range(t)
      BY <1>1, <1>3, <1>8 DEF Range
    <2> QED
      BY <2>1, <2>2, <2>3 DEF Range
  <1> QED
    BY <1>2, <1>6, <1>9 DEF Once, t

(* A container holds each object of its type, and holds it once *)
LEMMA ContainerOnce ==
    ASSUME NEW type \in TypesOfBodies PROVE Once(SetToSeq(type)) /\ Range(SetToSeq(type)) = type
  <1> DEFINE n == Cardinality(type)
  <1>1. type \subseteq Bodies /\ IsFiniteSet(type)
    BY ScreenAssumption, FS_Subset
  <1>2. n \in Nat /\ ExistsBijection(1 .. n, type)
    BY <1>1, FS_CardinalityType
  <1>3. \E f \in [1 .. n -> type] : IsInjective(f)
    BY <1>2 DEF ExistsBijection, Bijection, Injection, IsInjective
  <1>4. SetToSeq(type) \in [1 .. n -> type] /\ IsInjective(SetToSeq(type))
    BY <1>3 DEF SetToSeq
  <1>5. Cardinality(1 .. n) = n
    BY <1>2, FS_Interval
  <1>6. SetToSeq(type) \in Surjection(1 .. n, type)
    <2>1. SetToSeq(type) \in Injection(1 .. n, type)
      BY <1>4 DEF Injection, IsInjective
    <2> QED
      BY <1>1, <1>5, <2>1, FS_Injection
  <1>7. Range(SetToSeq(type)) = type
    BY <1>4, <1>6 DEF Surjection, Range
  <1> QED
    BY <1>1, <1>2, <1>4, <1>7 DEF Once

(* The objects that threads have taken from the container and found in the rectangle *)
Tested == {m_pObjectsContainer[i] : i \in 1 .. m_nNextId - 1} \cap m_rectangle

ScreenTypeOK ==
    /\ fstage \in {"panel", "prephare", "filter"}
    /\ armed \in BOOLEAN
    /\ m_nNextId \in Nat \ {0} /\ quit \subseteq FilterThreads
    /\ Once(m_pObjectsContainer) /\ Once(m_filteredInstances)
    /\ DOMAIN buffer = FilterThreads /\ \A t \in FilterThreads : Once(buffer[t])

(* While threads filter, the result and their buffers share the objects found so far
   between them: none is lost and none is in two of them *)
FoundIsShared ==
    /\ \A t \in FilterThreads : Range(buffer[t]) \cap Range(m_filteredInstances) = {}
    /\ \A t, u \in FilterThreads : t # u => Range(buffer[t]) \cap Range(buffer[u]) = {}
    /\ Range(m_filteredInstances) \cup UNION {Range(buffer[t]) : t \in FilterThreads} = Tested
    /\ \A t \in quit : Range(buffer[t]) = {}
    /\ m_nNextId <= Len(m_pObjectsContainer) + 1
    /\ shown = {m_rectangle \cap Range(m_pObjectsContainer)}

(* The screen waits for the answer to what was asked last: before the filter has run for
   it, while it runs and afterwards *)
WishIsKept ==
    /\ armed => wish = <<m_nSessionId, Range(m_pObjectsContainer)>>
    /\ m_nSessionId # NoOperator => wish[1] = m_nSessionId
    /\ fstage # "filter" /\ ~armed /\ m_nSessionId # NoOperator => shown = {Range(m_filteredInstances)}

ScreenInv ==
    /\ ScreenTypeOK /\ WishIsKept
    /\ fstage = "filter" => FoundIsShared /\ ~armed /\ sent = Unsent
    /\ sent # Unsent => /\ fstage = "prephare" /\ ~armed /\ m_nSessionId = NoOperator
                       /\ sent[1] = wish[1] /\ Once(sent[2]) /\ shown = {Range(sent[2])}

(* When no object is left to take, all have been tested *)
LEMMA TestedAll ==
    ASSUME ScreenTypeOK, m_nNextId = Len(m_pObjectsContainer) + 1
    PROVE  Tested = m_rectangle \cap Range(m_pObjectsContainer)
  <1>1. m_nNextId - 1 = Len(m_pObjectsContainer) /\ DOMAIN m_pObjectsContainer = 1 .. Len(m_pObjectsContainer)
    BY DEF ScreenTypeOK, Once
  <1> QED
    BY <1>1 DEF Tested, Range

(* The next object has not been tested before *)
LEMMA TestedNext ==
    ASSUME ScreenTypeOK, m_nNextId <= Len(m_pObjectsContainer), m_nNextId' = m_nNextId + 1,
           UNCHANGED <<m_pObjectsContainer, m_rectangle>>
    PROVE  /\ Tested' = Tested \cup ({m_pObjectsContainer[m_nNextId]} \cap m_rectangle)
           /\ m_pObjectsContainer[m_nNextId] \notin Tested
           /\ m_pObjectsContainer[m_nNextId] \in Bodies
  <1> DEFINE c == m_pObjectsContainer
             n == m_nNextId
  <1>1. c \in Seq(Bodies) /\ IsInjective(c) /\ n \in Nat \ {0} /\ DOMAIN c = 1 .. Len(c) /\ n <= Len(c)
    BY DEF ScreenTypeOK, Once
  <1>2. \A i \in 1 .. n : i \in 1 .. Len(c)
    BY <1>1
  <1>3. 1 .. (n + 1) - 1 = (1 .. n - 1) \cup {n} /\ n \notin 1 .. n - 1 /\ \A i \in 1 .. n - 1 : i \in 1 .. n
    BY <1>1
  <1>4. \A i \in 1 .. n - 1 : c[i] # c[n]
    BY <1>1, <1>2, <1>3 DEF IsInjective
  <1>5. Tested' = {c[i] : i \in 1 .. (n + 1) - 1} \cap m_rectangle
    BY DEF Tested
  <1>6. c[n] \in Bodies
    BY <1>1
  <1> HIDE DEF c, n
  <1>7. {c[i] : i \in 1 .. (n + 1) - 1} = {c[i] : i \in 1 .. n - 1} \cup {c[n]}
    BY <1>3
  <1>8. Tested = {c[i] : i \in 1 .. n - 1} \cap m_rectangle
    BY DEF Tested, c, n
  <1>9. Tested' = Tested \cup ({c[n]} \cap m_rectangle) /\ c[n] \notin Tested
    BY <1>4, <1>5, <1>7, <1>8
  <1> QED
    BY <1>6, <1>9 DEF c, n

(* Commands of administrators, and a cycle without a filter *)
LEMMA CommandsInv ==
    ASSUME ScreenInv, \/ \E viewport \in Viewports : MoveScreen(viewport)
                      \/ \E s \in Operators, type \in TypesOfBodies : Show(s, type)
                      \/ SendScreen \/ SkipFilter
    PROVE  ScreenInv'
  <1>1. ASSUME NEW viewport \in Viewports, MoveScreen(viewport) PROVE ScreenInv'
    BY <1>1 DEF ScreenInv, WishIsKept, ScreenTypeOK, MoveScreen, filterVars, foundVars
  <1>2. ASSUME NEW s \in Operators, NEW type \in TypesOfBodies, Show(s, type) PROVE ScreenInv'
    <2>1. /\ fstage = "panel" /\ fstage' = "panel" /\ armed' = TRUE /\ m_nSessionId' = s /\ sent = Unsent /\ sent' = sent
          /\ m_pObjectsContainer' = SetToSeq(type) /\ wish' = <<s, type>>
      BY <1>2 DEF ScreenInv, Show
    <2>2. ScreenTypeOK'
      BY <1>2, ContainerOnce DEF ScreenInv, ScreenTypeOK, Show, foundVars
    <2>3. WishIsKept'
      BY <2>1, ContainerOnce DEF WishIsKept
    <2> QED
      BY <2>1, <2>2, <2>3 DEF ScreenInv
  <1>3. CASE SendScreen
    <2>1. ScreenTypeOK' /\ fstage = "panel" /\ fstage' = "prephare"
          /\ UNCHANGED <<armed, m_pObjectsContainer, m_filteredInstances, wish, shown>>
      BY <1>3 DEF ScreenInv, ScreenTypeOK, SendScreen, filterVars, foundVars
    <2>2. CASE HasAnswer
      <3>1. /\ sent' = <<m_nSessionId, m_filteredInstances>> /\ m_nSessionId' = NoOperator
            /\ ~armed /\ m_nSessionId # NoOperator
        BY <1>3, <2>2 DEF SendScreen, HasAnswer
      <3>2. sent'[1] = wish[1] /\ Once(sent'[2]) /\ shown = {Range(sent'[2])}
        BY <2>1, <3>1 DEF ScreenInv, WishIsKept, ScreenTypeOK
      <3>3. WishIsKept'
        BY <2>1, <3>1 DEF WishIsKept
      <3> QED
        BY <2>1, <3>1, <3>2, <3>3 DEF ScreenInv
    <2>3. CASE ~HasAnswer
      <3>1. UNCHANGED <<sent, m_nSessionId>> /\ sent = Unsent
        BY <1>3, <2>1, <2>3 DEF ScreenInv, SendScreen
      <3>2. WishIsKept'
        BY <2>1, <3>1 DEF ScreenInv, WishIsKept
      <3> QED
        BY <2>1, <3>1, <3>2 DEF ScreenInv
    <2> QED
      BY <2>2, <2>3
  <1>4. CASE SkipFilter
    <2>1. /\ fstage = "prephare" /\ fstage' = "panel" /\ sent' = Unsent /\ ~armed
          /\ UNCHANGED <<armed, m_pObjectsContainer, m_filteredInstances, m_nSessionId>>
          /\ sent = Unsent => UNCHANGED <<wish, shown>>
      BY <1>4 DEF SkipFilter, SentIsGone, AskedIsOver, foundVars
    <2>2. ScreenTypeOK'
      BY <1>4 DEF ScreenInv, ScreenTypeOK, SkipFilter, foundVars
    <2>3. WishIsKept'
      BY <2>1 DEF ScreenInv, WishIsKept
    <2> QED
      BY <2>1, <2>2, <2>3 DEF ScreenInv
  <1> QED
    BY <1>1, <1>2, <1>3, <1>4

(* A filter starts with nothing tested and nothing found *)
LEMMA PrephareFilterInv ==
    ASSUME ScreenInv, PrephareFilter PROVE ScreenInv'
  <1>1. ScreenTypeOK'
    <2>1. DOMAIN buffer' = FilterThreads /\ \A t \in FilterThreads : buffer'[t] = <<>>
      BY DEF PrephareFilter
    <2>2. Once(m_filteredInstances') /\ \A t \in FilterThreads : Once(buffer'[t])
      BY <2>1, EmptyOnce DEF PrephareFilter
    <2>3. /\ fstage' = "filter" /\ armed' = FALSE /\ m_nNextId' = 1 /\ quit' = {}
          /\ m_pObjectsContainer' = m_pObjectsContainer
      BY DEF PrephareFilter
    <2>4. m_nNextId' \in Nat \ {0}
      BY <2>3
    <2> QED
      BY <2>1, <2>2, <2>3, <2>4 DEF ScreenInv, ScreenTypeOK
  <1>2. Tested' = {}
    BY DEF PrephareFilter, Tested
  <1>3. \A t \in FilterThreads : Range(buffer'[t]) = {}
    BY EmptyOnce DEF PrephareFilter
  <1>4. FoundIsShared'
    <2>1. m_filteredInstances' = <<>> /\ Range(m_filteredInstances') = {} /\ quit' = {}
          /\ shown' = {m_rectangle' \cap Range(m_pObjectsContainer')}
      BY EmptyOnce DEF ScreenInv, WishIsKept, PrephareFilter
    <2>2. m_nNextId' <= Len(m_pObjectsContainer') + 1
      <3>1. Len(m_pObjectsContainer') \in Nat
        BY <1>1 DEF ScreenTypeOK, Once
      <3> QED
        BY <3>1 DEF PrephareFilter
    <2> QED
      BY <1>2, <1>3, <2>1, <2>2 DEF FoundIsShared
  <1>5. sent' = Unsent /\ fstage' = "filter" /\ armed' = FALSE
    BY DEF PrephareFilter, SentIsGone
  <1>6. WishIsKept'
    BY <1>5 DEF ScreenInv, WishIsKept, PrephareFilter
  <1> QED
    BY <1>1, <1>4, <1>5, <1>6 DEF ScreenInv

(* A thread takes an object: it is in its buffer or, if that was full, in the result *)
LEMMA FilterNextInv ==
    ASSUME ScreenInv, NEW t \in FilterThreads, FilterNext(t) PROVE ScreenInv'
  <1> DEFINE o == m_pObjectsContainer[m_nNextId]
             mine == IF o \in m_rectangle THEN Append(buffer[t], o) ELSE buffer[t]
             full == Len(mine) = BufferSize
             hit == {o} \cap m_rectangle
  <1>1. /\ fstage = "filter" /\ t \notin quit /\ m_nNextId <= Len(m_pObjectsContainer)
        /\ m_nNextId' = m_nNextId + 1
        /\ buffer' = [buffer EXCEPT ![t] = IF full THEN <<>> ELSE mine]
        /\ m_filteredInstances' = IF full THEN m_filteredInstances \o mine ELSE m_filteredInstances
        /\ UNCHANGED <<fstage, m_rectangle, m_pObjectsContainer, armed, quit, m_nSessionId, sent, wish, shown>>
    BY DEF FilterNext
  <1>2. ScreenTypeOK /\ FoundIsShared /\ ~armed /\ sent = Unsent
    BY <1>1 DEF ScreenInv
  <1>3. o \notin Tested /\ o \in Bodies /\ Tested' = Tested \cup hit
    BY <1>1, <1>2, TestedNext
  <1>4. o \notin Range(m_filteredInstances) /\ \A u \in FilterThreads : o \notin Range(buffer[u])
    BY <1>2, <1>3 DEF FoundIsShared
  <1>5. Once(mine) /\ Range(mine) = Range(buffer[t]) \cup hit
    BY <1>2, <1>3, <1>4, AppendOnce DEF ScreenTypeOK
  <1>6. m_nNextId' \in Nat \ {0} /\ m_nNextId' <= Len(m_pObjectsContainer) + 1
    BY <1>1, <1>2 DEF ScreenTypeOK, Once
  <1>7. \A u \in FilterThreads : u # t => buffer'[u] = buffer[u]
    BY <1>1, <1>2 DEF ScreenTypeOK
  <1>8. DOMAIN buffer' = FilterThreads
    BY <1>1, <1>2 DEF ScreenTypeOK
  <1>9. Once(m_filteredInstances) /\ Range(m_filteredInstances) \cap Range(mine) = {}
    BY <1>2, <1>4, <1>5 DEF ScreenTypeOK, FoundIsShared
  <1> HIDE DEF mine, hit
  <1>10. /\ Once(m_filteredInstances') /\ Once(buffer'[t])
         /\ Range(m_filteredInstances') \cup Range(buffer'[t]) = Range(m_filteredInstances) \cup Range(buffer[t]) \cup hit
         /\ Range(m_filteredInstances') \cap Range(buffer'[t]) = {}
    <2>1. CASE full
      <3>1. m_filteredInstances' = m_filteredInstances \o mine /\ buffer'[t] = <<>>
        BY <1>1, <1>2, <2>1 DEF ScreenTypeOK
      <3>2. Once(m_filteredInstances \o mine)
            /\ Range(m_filteredInstances \o mine) = Range(m_filteredInstances) \cup Range(mine)
        BY <1>5, <1>9, ConcatOnce
      <3> QED
        BY <1>5, <3>1, <3>2, EmptyOnce
    <2>2. CASE ~full
      <3>1. m_filteredInstances' = m_filteredInstances /\ buffer'[t] = mine
        BY <1>1, <1>2, <2>2 DEF ScreenTypeOK
      <3> QED
        BY <1>5, <1>9, <3>1
    <2> QED
      BY <2>1, <2>2
  <1>11. ScreenTypeOK'
    BY <1>1, <1>2, <1>6, <1>7, <1>8, <1>10 DEF ScreenTypeOK
  <1>12. hit \subseteq {o}
    BY DEF hit
  <1>13. FoundIsShared'
    <2>1. \A u \in FilterThreads : u # t => /\ Range(buffer[u]) \cap (Range(m_filteredInstances) \cup Range(buffer[t]) \cup hit) = {}
      BY <1>2, <1>4, <1>12 DEF FoundIsShared
    <2>2. \A u \in FilterThreads : u # t => /\ Range(buffer'[u]) \cap Range(m_filteredInstances') = {}
                                            /\ Range(buffer'[u]) \cap Range(buffer'[t]) = {}
      BY <1>7, <1>10, <2>1
    <2>3. \A u \in FilterThreads : Range(buffer'[u]) \cap Range(m_filteredInstances') = {}
      BY <1>10, <2>2
    <2>4. \A u, v \in FilterThreads : u # v => Range(buffer'[u]) \cap Range(buffer'[v]) = {}
      <3> SUFFICES ASSUME NEW u \in FilterThreads, NEW v \in FilterThreads, u # v
                   PROVE Range(buffer'[u]) \cap Range(buffer'[v]) = {}
        OBVIOUS
      <3>1. CASE u # t /\ v # t
        BY <1>2, <1>7, <3>1 DEF FoundIsShared
      <3> QED
        BY <2>2, <3>1
    <2>5. Range(m_filteredInstances') \cup UNION {Range(buffer'[u]) : u \in FilterThreads} = Tested'
      <3>1. Range(m_filteredInstances) \cup UNION {Range(buffer[u]) : u \in FilterThreads} = Tested
        BY <1>2 DEF FoundIsShared
      <3>2. UNION {Range(buffer[u]) : u \in FilterThreads}
              = Range(buffer[t]) \cup UNION {Range(buffer[u]) : u \in FilterThreads \ {t}}
        OBVIOUS
      <3>3. UNION {Range(buffer'[u]) : u \in FilterThreads}
              = Range(buffer'[t]) \cup UNION {Range(buffer'[u]) : u \in FilterThreads \ {t}}
        OBVIOUS
      <3>4. \A u \in FilterThreads \ {t} : Range(buffer'[u]) = Range(buffer[u])
        BY <1>7
      <3>5. UNION {Range(buffer'[u]) : u \in FilterThreads \ {t}} = UNION {Range(buffer[u]) : u \in FilterThreads \ {t}}
        BY <3>4
      <3> HIDE DEF o
      <3> QED
        BY <1>3, <1>10, <3>1, <3>2, <3>3, <3>5
    <2>6. \A u \in quit' : Range(buffer'[u]) = {}
      BY <1>1, <1>2, <1>7 DEF FoundIsShared, ScreenTypeOK
    <2>7. m_nNextId' <= Len(m_pObjectsContainer') + 1 /\ shown' = {m_rectangle' \cap Range(m_pObjectsContainer')}
      BY <1>1, <1>2, <1>6 DEF FoundIsShared
    <2> QED
      BY <2>3, <2>4, <2>5, <2>6, <2>7 DEF FoundIsShared
  <1>14. WishIsKept'
    BY <1>1 DEF ScreenInv, WishIsKept
  <1> QED
    BY <1>1, <1>2, <1>11, <1>13, <1>14 DEF ScreenInv

(* A thread ends: what is left in its buffer gets into the result, and after the last
   thread that is everything *)
LEMMA FilterEndsInv ==
    ASSUME ScreenInv, NEW t \in FilterThreads, FilterEnds(t) PROVE ScreenInv'
  <1>1. /\ fstage = "filter" /\ t \notin quit /\ m_nNextId > Len(m_pObjectsContainer)
        /\ m_filteredInstances' = m_filteredInstances \o buffer[t]
        /\ buffer' = [buffer EXCEPT ![t] = <<>>] /\ quit' = quit \cup {t}
        /\ fstage' = IF quit' = FilterThreads THEN "panel" ELSE fstage
        /\ UNCHANGED <<m_rectangle, m_pObjectsContainer, armed, m_nNextId, m_nSessionId, sent, wish, shown>>
    BY DEF FilterEnds, Flush
  <1>2. ScreenTypeOK /\ FoundIsShared /\ ~armed /\ sent = Unsent
    BY <1>1 DEF ScreenInv
  <1>3. \A u \in FilterThreads : u # t => buffer'[u] = buffer[u]
    BY <1>1, <1>2 DEF ScreenTypeOK
  <1>4. DOMAIN buffer' = FilterThreads /\ buffer'[t] = <<>> /\ Once(buffer'[t]) /\ Range(buffer'[t]) = {}
    BY <1>1, <1>2, EmptyOnce DEF ScreenTypeOK
  <1>5. Once(m_filteredInstances') /\ Range(m_filteredInstances') = Range(m_filteredInstances) \cup Range(buffer[t])
    BY <1>1, <1>2, ConcatOnce DEF ScreenTypeOK, FoundIsShared
  <1>6. ScreenTypeOK'
    BY <1>1, <1>2, <1>3, <1>4, <1>5 DEF ScreenTypeOK
  <1>7. Tested' = Tested
    BY <1>1 DEF Tested
  <1>8. FoundIsShared'
    <2>1. \A u \in FilterThreads : Range(buffer'[u]) \cap Range(m_filteredInstances') = {}
      BY <1>2, <1>3, <1>4, <1>5 DEF FoundIsShared
    <2>2. \A u, v \in FilterThreads : u # v => Range(buffer'[u]) \cap Range(buffer'[v]) = {}
      <3> SUFFICES ASSUME NEW u \in FilterThreads, NEW v \in FilterThreads, u # v
                   PROVE Range(buffer'[u]) \cap Range(buffer'[v]) = {}
        OBVIOUS
      <3>1. CASE u # t /\ v # t
        BY <1>2, <1>3, <3>1 DEF FoundIsShared
      <3> QED
        BY <1>4, <3>1
    <2>3. Range(m_filteredInstances') \cup UNION {Range(buffer'[u]) : u \in FilterThreads} = Tested'
      <3>1. Range(m_filteredInstances) \cup UNION {Range(buffer[u]) : u \in FilterThreads} = Tested
        BY <1>2 DEF FoundIsShared
      <3>2. UNION {Range(buffer[u]) : u \in FilterThreads}
              = Range(buffer[t]) \cup UNION {Range(buffer[u]) : u \in FilterThreads \ {t}}
        OBVIOUS
      <3>3. UNION {Range(buffer'[u]) : u \in FilterThreads}
              = Range(buffer'[t]) \cup UNION {Range(buffer'[u]) : u \in FilterThreads \ {t}}
        OBVIOUS
      <3>4. \A u \in FilterThreads \ {t} : Range(buffer'[u]) = Range(buffer[u])
        BY <1>3
      <3>5. UNION {Range(buffer'[u]) : u \in FilterThreads \ {t}} = UNION {Range(buffer[u]) : u \in FilterThreads \ {t}}
        BY <3>4
      <3> QED
        BY <1>4, <1>5, <1>7, <3>1, <3>2, <3>3, <3>5
    <2>4. \A u \in quit' : Range(buffer'[u]) = {}
      BY <1>1, <1>2, <1>3, <1>4 DEF FoundIsShared, ScreenTypeOK
    <2> QED
      BY <1>1, <1>2, <2>1, <2>2, <2>3, <2>4 DEF FoundIsShared
  <1>9. CASE quit' = FilterThreads
    <2>1. Range(m_filteredInstances') = Tested'
      <3>1. \A u \in FilterThreads : Range(buffer'[u]) = {}
        BY <1>8, <1>9 DEF FoundIsShared
      <3> QED
        BY <1>8, <3>1 DEF FoundIsShared
    <2>2. m_nNextId = Len(m_pObjectsContainer) + 1
      <3>1. m_nNextId \in Nat /\ Len(m_pObjectsContainer) \in Nat /\ m_nNextId <= Len(m_pObjectsContainer) + 1
        BY <1>2 DEF ScreenTypeOK, Once, FoundIsShared
      <3> QED
        BY <1>1, <3>1
    <2>3. Tested' = m_rectangle' \cap Range(m_pObjectsContainer')
      BY <1>1, <1>2, <1>7, <2>2, TestedAll
    <2>4. shown' = {Range(m_filteredInstances')}
      BY <1>8, <2>1, <2>3 DEF FoundIsShared
    <2>5. WishIsKept'
      BY <1>1, <1>2, <2>4 DEF ScreenInv, WishIsKept
    <2> QED
      BY <1>1, <1>2, <1>6, <1>9, <2>5 DEF ScreenInv
  <1>10. CASE quit' # FilterThreads
    <2>1. WishIsKept'
      BY <1>1, <1>2, <1>10 DEF ScreenInv, WishIsKept
    <2> QED
      BY <1>1, <1>2, <1>6, <1>8, <1>10, <2>1 DEF ScreenInv
  <1> QED
    BY <1>9, <1>10

(* The invariant of the screen is inductive *)
LEMMA ScreenStep ==
    ASSUME ScreenInv, [ScreenNext]_screenVars PROVE ScreenInv'
  <1>1. CASE UNCHANGED screenVars
    <2>1. UNCHANGED <<fstage, m_rectangle, m_pObjectsContainer, armed, m_nNextId, buffer, quit,
                      m_filteredInstances, m_nSessionId, sent, wish, shown>>
      BY <1>1 DEF screenVars
    <2>2. Tested' = Tested
      BY <2>1 DEF Tested
    <2>3. ScreenTypeOK'
      BY <2>1 DEF ScreenInv, ScreenTypeOK
    <2>4. FoundIsShared' = FoundIsShared
      BY <2>1, <2>2 DEF FoundIsShared
    <2>5. WishIsKept'
      BY <2>1 DEF ScreenInv, WishIsKept
    <2> QED
      BY <2>1, <2>3, <2>4, <2>5 DEF ScreenInv
  <1>2. CASE ScreenNext
    BY <1>2, CommandsInv, PrephareFilterInv, FilterNextInv, FilterEndsInv DEF ScreenNext
  <1> QED
    BY <1>1, <1>2

(* It holds at the start *)
LEMMA ScreenStart == ScreenInit => ScreenInv
  <1> SUFFICES ASSUME ScreenInit PROVE ScreenInv
    OBVIOUS
  <1>1. Once(m_filteredInstances) /\ Once(m_pObjectsContainer)
    BY EmptyOnce DEF ScreenInit
  <1>2. DOMAIN buffer = FilterThreads /\ \A t \in FilterThreads : buffer[t] = <<>>
    BY DEF ScreenInit
  <1>3. \A t \in FilterThreads : Once(buffer[t])
    BY <1>2, EmptyOnce
  <1>4. /\ fstage = "panel" /\ armed = FALSE /\ m_nNextId = 1 /\ quit = {} /\ m_nSessionId = NoOperator
        /\ sent = Unsent
    BY DEF ScreenInit
  <1>5. m_nNextId \in Nat \ {0}
    BY <1>4
  <1> QED
    BY <1>1, <1>2, <1>3, <1>4, <1>5 DEF ScreenInv, WishIsKept, ScreenTypeOK

(* Who asked last is answered, with what the filter has found for that request and not for
   an earlier one: each object of the type in the rectangle once, however many threads ran
   the filter together and in whatever order they took objects and inserted their buffers
   (Screen.cpp:26-60, ObjectsFilter.cpp:33, PhysicalObjectsFilters.h). *)
THEOREM ScreenStaysExact == ScreenSpec => []ScreenIsExact
  <1>1. ScreenInv => ScreenIsExact
    BY DEF ScreenInv, ScreenIsExact, Once
  <1> QED
    BY <1>1, ScreenStart, ScreenStep, PTL DEF ScreenSpec

-----------------------------------------------------------------------------
(* The passive scanner *)

(* The longest step of time and the longest delay of a report *)
LongestStep == Max(Steps)
LongestDelay == Max(Delays)

(* A set of natural numbers that is not empty has a least one *)
LEMMA LeastOne ==
    ASSUME NEW T, T \subseteq Nat, T # {} PROVE \E m \in T : \A j \in T : m <= j
  <1> DEFINE R == OpToRel(<, Nat)
  <1>1. \A x, y \in Nat : y < x => <<y, x>> \in R
    BY DEF OpToRel
  <1>2. IsWellFoundedOn(R, Nat)
    BY NatLessThanWellFounded
  <1> HIDE DEF R
  <1>3. PICK m \in T : \A j \in T : <<j, m>> \notin R
    BY <1>2, WFMin
  <1>4. \A j \in T : ~(j < m)
    BY <1>1, <1>3
  <1> QED
    BY <1>3, <1>4

(* Induction on the rounds of a loop: T is the set of the rounds a claim holds after *)
LEMMA RoundsInduction ==
    ASSUME NEW n \in Nat, NEW T, 0 \in T, \A k \in 0 .. (n - 1) : k \in T => k + 1 \in T
    PROVE  \A k \in 0 .. n : k \in T
  <1> SUFFICES ASSUME NEW k \in 0 .. n, k \notin T PROVE FALSE
    OBVIOUS
  <1> DEFINE B == {j \in Nat : j \in 0 .. n /\ j \notin T}
  <1>1. B \subseteq Nat /\ B # {}
    OBVIOUS
  <1>2. PICK m \in B : \A j \in B : m <= j
    <2> HIDE DEF B
    <2> QED
      BY <1>1, LeastOne
  <1>3. m # 0 /\ m \in 1 .. n /\ m \notin T
    OBVIOUS
  <1>4. m \in Nat /\ m - 1 \in 0 .. n /\ m - 1 \in 0 .. (n - 1) /\ m - 1 \in Nat /\ ~(m <= m - 1) /\ (m - 1) + 1 = m
    BY <1>3
  <1>5. m - 1 \in T
    BY <1>2, <1>4
  <1> QED
    BY <1>3, <1>4, <1>5

(* A finite set of numbers that is not empty has a greatest one *)
LEMMA GreatestOne ==
    ASSUME NEW T, IsFiniteSet(T), T \subseteq Nat, T # {}
    PROVE  Max(T) \in T /\ \A x \in T : x <= Max(T)
  <1> DEFINE Has(U) == \E m \in U : \A x \in U : m >= x
             K == {k \in Nat : \E U \in SUBSET T : U # {} /\ ~Has(U) /\ k = Cardinality(U)}
  <1>1. \A U \in SUBSET T : IsFiniteSet(U) /\ Cardinality(U) \in Nat
    BY FS_Subset, FS_CardinalityType
  <1>2. K = {}
    <2> SUFFICES ASSUME K # {} PROVE FALSE
      OBVIOUS
    <2>1. PICK k \in K : \A j \in K : k <= j
      <3>1. K \subseteq Nat
        OBVIOUS
      <3> HIDE DEF K
      <3> QED
        BY <3>1, LeastOne
    <2>2. PICK U \in SUBSET T : U # {} /\ ~Has(U) /\ k = Cardinality(U)
      BY <2>1
    <2>3. PICK x \in U : TRUE
      BY <2>2
    <2> DEFINE V == U \ {x}
    <2>4. V \in SUBSET T /\ Cardinality(V) = k - 1 /\ Cardinality(V) \in Nat /\ k \in Nat
      BY <1>1, <2>1, <2>2, <2>3, FS_RemoveElement
    <2>5. V # {}
      BY <2>2, <2>3
    <2>6. Has(V)
      <3>1. Cardinality(V) \notin K
        <4> HIDE DEF V, K, Has
        <4>1. ~(k <= Cardinality(V))
          BY <2>4
        <4> QED
          BY <2>1, <4>1
      <3> HIDE DEF V, Has
      <3> QED
        BY <2>4, <2>5, <3>1
    <2>7. PICK m \in V : \A y \in V : m >= y
      BY <2>6
    <2>8. x \in Nat /\ m \in Nat /\ m \in U /\ \A y \in U : y \in Nat /\ (y = x \/ y \in V)
      BY <2>2, <2>3
    <2> HIDE DEF V
    <2>9. CASE m >= x
      BY <2>2, <2>7, <2>8, <2>9
    <2>10. CASE ~(m >= x)
      BY <2>2, <2>7, <2>8, <2>10
    <2> QED
      BY <2>9, <2>10
  <1>3. Has(T)
    <2>1. Cardinality(T) \in Nat /\ T \in SUBSET T
      BY <1>1
    <2> HIDE DEF Has
    <2> QED
      BY <1>2, <2>1
  <1>4. Max(T) \in T /\ \A x \in T : Max(T) >= x
    BY <1>3 DEF Max
  <1> QED
    BY <1>4

(* What the bound on the silence is made of *)
LEMMA SilenceConstants ==
    /\ LongestStep \in Nat /\ LongestDelay \in Nat /\ EdgeTime \in Nat /\ UpdateLimit \in Nat \ {0}
    /\ \A dt \in Steps : dt \in Nat /\ 0 < dt /\ dt <= LongestStep
    /\ \A d \in Delays : d \in Nat /\ 0 < d /\ d <= LongestDelay
    /\ IsFiniteSet(Things) /\ Cardinality(Things) \in Nat
    /\ LongestSilence = EdgeTime + LongestDelay + (Cardinality(Things) + 1) * LongestStep
  <1>1. /\ LongestStep \in Steps /\ \A dt \in Steps : dt <= LongestStep
        /\ LongestDelay \in Delays /\ \A d \in Delays : d <= LongestDelay
    <2>1. Steps \subseteq Nat /\ Delays \subseteq Nat
      BY PassiveScannerAssumption
    <2> QED
      BY <2>1, GreatestOne, PassiveScannerAssumption DEF LongestStep, LongestDelay
  <1>2. \A k \in Steps \cup Delays : k \in Nat /\ 0 < k
    BY PassiveScannerAssumption
  <1>3. IsFiniteSet(Things) /\ Cardinality(Things) \in Nat
    BY PassiveScannerAssumption, FS_CardinalityType
  <1> QED
    BY <1>1, <1>2, <1>3, PassiveScannerAssumption DEF LongestSilence, LongestStep, LongestDelay

(* A list of detected objects: each of them once, by the times of their reports *)
Items == [id : Things, left : Int]

Ordered(v) ==
    /\ v \in Seq(Items)
    /\ \A i, j \in 1 .. Len(v) : i < j => v[i].id # v[j].id /\ v[i].left <= v[j].left

(* The list names object o, with `left` to its next report *)
Lists(v, o, left) == \E i \in 1 .. Len(v) : v[i].id = o /\ v[i].left = left

(* An item of a list is made of its parts. *)
LEMMA ItemIs ==
    ASSUME NEW o \in Things, NEW left \in Int
    PROVE  Item(o, left) \in Items /\ Item(o, left).id = o /\ Item(o, left).left = left
  BY DEF Item, Items

(* The items of a list *)
LEMMA OrderedFacts ==
    ASSUME NEW v, Ordered(v)
    PROVE  /\ Len(v) \in Nat /\ DOMAIN v = 1 .. Len(v)
           /\ \A i \in 1 .. Len(v) : v[i] \in Items /\ v[i].id \in Things /\ v[i].left \in Int
           /\ \A i, j \in 1 .. Len(v) : v[i].id = v[j].id => i = j
           /\ \A i, j \in 1 .. Len(v) : i <= j => v[i].left <= v[j].left
  <1>1. /\ Len(v) \in Nat /\ DOMAIN v = 1 .. Len(v)
        /\ \A i \in 1 .. Len(v) : v[i] \in Items
    BY DEF Ordered
  <1>2. \A i \in 1 .. Len(v) : v[i].id \in Things /\ v[i].left \in Int
    BY <1>1 DEF Items
  <1>3. \A i, j \in 1 .. Len(v) : i < j \/ j < i \/ i = j
    BY <1>1
  <1>4. \A i, j \in 1 .. Len(v) : i < j => v[i].id # v[j].id /\ v[i].left <= v[j].left
    BY DEF Ordered
  <1>5. ASSUME NEW i \in 1 .. Len(v), NEW j \in 1 .. Len(v), v[i].id = v[j].id PROVE i = j
    BY <1>3, <1>4, <1>5
  <1>6. ASSUME NEW i \in 1 .. Len(v), NEW j \in 1 .. Len(v), i <= j PROVE v[i].left <= v[j].left
    <2>1. i < j \/ i = j
      BY <1>1, <1>6
    <2>2. v[i].left \in Int
      BY <1>2
    <2> QED
      BY <1>4, <2>1, <2>2
  <1> QED
    BY <1>1, <1>2, <1>5, <1>6

(* An object is listed once *)
LEMMA ListedOnce ==
    ASSUME NEW v, Ordered(v), NEW o, NEW a, NEW b, Lists(v, o, a), Lists(v, o, b)
    PROVE  a = b /\ a \in Int /\ o \in Things
  BY OrderedFacts DEF Lists

(* InsertAt puts one item at its place and moves the later ones on *)
LEMMA InsertedAt ==
    ASSUME NEW Q, NEW v \in Seq(Q), NEW e \in Q, NEW p \in 1 .. (Len(v) + 1)
    PROVE  /\ InsertAt(v, p, e) \in Seq(Q) /\ Len(InsertAt(v, p, e)) = Len(v) + 1
           /\ InsertAt(v, p, e)[p] = e
           /\ \A j \in 1 .. (p - 1) : InsertAt(v, p, e)[j] = v[j]
           /\ \A j \in (p + 1) .. (Len(v) + 1) : InsertAt(v, p, e)[j] = v[j - 1]
  <1> DEFINE n == Len(v)
             a == SubSeq(v, 1, p - 1)
             b == SubSeq(v, p, n)
             c == a \o <<e>>
  <1>1. n \in Nat /\ p \in Nat /\ p - 1 \in Nat /\ n - p + 1 \in Nat
    OBVIOUS
  <1>2. a \in Seq(Q) /\ Len(a) = p - 1 /\ \A j \in 1 .. (p - 1) : a[j] = v[j]
    OBVIOUS
  <1>3. b \in Seq(Q) /\ Len(b) = n - p + 1 /\ \A j \in 1 .. (n - p + 1) : b[j] = v[p + j - 1]
    OBVIOUS
  <1> HIDE DEF a, b, n
  <1>4. c \in Seq(Q) /\ Len(c) = p /\ c[p] = e /\ \A j \in 1 .. (p - 1) : c[j] = a[j]
    BY <1>1, <1>2
  <1> HIDE DEF c
  <1>5. c \o b \in Seq(Q) /\ Len(c \o b) = n + 1
    <2>1. c \o b \in Seq(Q) /\ Len(c \o b) = Len(c) + Len(b)
      BY <1>3, <1>4, ConcatProperties
    <2>2. Len(c) + Len(b) = n + 1
      BY <1>1, <1>3, <1>4
    <2> QED
      BY <2>1, <2>2
  <1>6. \A j \in 1 .. (n + 1) : (c \o b)[j] = IF j <= p THEN c[j] ELSE b[j - p]
    BY <1>1, <1>3, <1>4
  <1>7. InsertAt(v, p, e) = c \o b
    BY DEF InsertAt, a, b, c, n
  <1>8. \A j \in 1 .. (p - 1) : (c \o b)[j] = v[j]
    BY <1>1, <1>2, <1>4, <1>6
  <1>9. \A j \in (p + 1) .. (n + 1) : (c \o b)[j] = v[j - 1]
    <2> TAKE j \in (p + 1) .. (n + 1)
    <2>1. j \in 1 .. (n + 1) /\ ~(j <= p) /\ j - p \in 1 .. (n - p + 1) /\ p + (j - p) - 1 = j - 1
      BY <1>1
    <2> QED
      BY <1>3, <1>6, <2>1
  <1>10. (c \o b)[p] = e
    BY <1>1, <1>4, <1>6
  <1> QED
    BY <1>5, <1>7, <1>8, <1>9, <1>10 DEF n

(* The place of an item: behind all that are not to be updated later *)
LEMMA PlaceIs ==
    ASSUME NEW v, Ordered(v), NEW e \in Items
    PROVE  \E p \in 1 .. (Len(v) + 1) :
              /\ Placed(v, e) = InsertAt(v, p, e)
              /\ \A i \in 1 .. (p - 1) : v[i].left <= e.left
              /\ \A i \in p .. Len(v) : e.left < v[i].left
  <1> DEFINE n == Len(v)
             T == {0} \cup {i \in DOMAIN v : v[i].left <= e.left}
             g == Max(T)
  <1>1. /\ n \in Nat /\ DOMAIN v = 1 .. n /\ e.left \in Int
        /\ \A i \in 1 .. n : v[i].left \in Int
        /\ \A i, j \in 1 .. n : i <= j => v[i].left <= v[j].left
    BY OrderedFacts DEF Items
  <1>2. T \subseteq 0 .. n /\ T # {} /\ T \subseteq Nat /\ IsFiniteSet(T)
    <2>1. T \subseteq 0 .. n
      BY <1>1
    <2>2. IsFiniteSet(0 .. n)
      BY <1>1, FS_Interval
    <2> QED
      BY <2>1, <2>2, FS_Subset
  <1>3. \A i \in 1 .. n : i \in T <=> v[i].left <= e.left
    BY <1>1
  <1> HIDE DEF T, n
  <1>4. g \in T /\ \A x \in T : x <= g
    BY <1>2, GreatestOne
  <1> HIDE DEF g
  <1>5. g \in 0 .. n /\ 1 + g \in 1 .. (n + 1) /\ (1 + g) - 1 = g
    BY <1>1, <1>2, <1>4
  <1>6. ASSUME NEW i \in 1 .. g PROVE v[i].left <= e.left
    <2>1. g \in 1 .. n /\ i \in 1 .. n /\ i <= g
      BY <1>1, <1>5
    <2>2. v[g].left <= e.left /\ v[i].left <= v[g].left
      BY <1>1, <1>3, <1>4, <2>1
    <2> QED
      BY <1>1, <2>1, <2>2
  <1>7. ASSUME NEW i \in (1 + g) .. n PROVE e.left < v[i].left
    <2>1. i \in 1 .. n /\ ~(i <= g)
      BY <1>1, <1>5
    <2>2. ~(v[i].left <= e.left)
      BY <1>3, <1>4, <2>1
    <2> QED
      BY <1>1, <2>1, <2>2
  <1>8. Placed(v, e) = InsertAt(v, 1 + g, e)
    BY DEF Placed, g, T
  <1> QED
    BY <1>5, <1>6, <1>7, <1>8 DEF n

(* A list that gets an item of an object that it does not name *)
LEMMA PlacedIsOrdered ==
    ASSUME NEW v, Ordered(v), NEW e \in Items, \A i \in 1 .. Len(v) : v[i].id # e.id
    PROVE  /\ Ordered(Placed(v, e)) /\ Len(Placed(v, e)) = Len(v) + 1
           /\ \A o, left : Lists(Placed(v, e), o, left)
                             <=> Lists(v, o, left) \/ (o = e.id /\ left = e.left)
           /\ \A k \in Nat, j \in 1 .. Len(Placed(v, e)) :
                 /\ \A i \in 1 .. Len(v) : k < i => 0 < v[i].left
                 /\ 0 < e.left /\ k < j
                 => 0 < Placed(v, e)[j].left
  <1> DEFINE n == Len(v)
             w == Placed(v, e)
  <1>1. PICK p \in 1 .. (n + 1) :
              /\ w = InsertAt(v, p, e)
              /\ \A i \in 1 .. (p - 1) : v[i].left <= e.left
              /\ \A i \in p .. n : e.left < v[i].left
    BY PlaceIs
  <1>2. /\ w \in Seq(Items) /\ Len(w) = n + 1 /\ w[p] = e
        /\ \A j \in 1 .. (p - 1) : w[j] = v[j]
        /\ \A j \in (p + 1) .. (n + 1) : w[j] = v[j - 1]
    <2>1. v \in Seq(Items) /\ e \in Items /\ p \in 1 .. (Len(v) + 1)
      BY <1>1 DEF Ordered
    <2> DEFINE x == InsertAt(v, p, e)
    <2>2. /\ x \in Seq(Items) /\ Len(x) = Len(v) + 1 /\ x[p] = e
          /\ \A j \in 1 .. (p - 1) : x[j] = v[j]
          /\ \A j \in (p + 1) .. (Len(v) + 1) : x[j] = v[j - 1]
      BY <2>1, InsertedAt
    <2>3. w = x
      BY <1>1
    <2> HIDE DEF w, x
    <2> QED
      BY <2>2, <2>3
  <1>3. /\ n \in Nat /\ e.left \in Int
        /\ \A i \in 1 .. n : v[i].left \in Int
        /\ \A i, j \in 1 .. n : i < j => v[i].id # v[j].id /\ v[i].left <= v[j].left
    BY OrderedFacts DEF Items, Ordered
  <1>4. \A i \in 1 .. n : v[i].id # e.id
    OBVIOUS
  <1> HIDE DEF n, w
  <1>5. \A j \in 1 .. (n + 1) : \/ j \in 1 .. (p - 1) /\ j \in 1 .. n /\ w[j] = v[j]
                                \/ j = p /\ w[j] = e
                                \/ j \in (p + 1) .. (n + 1) /\ j - 1 \in 1 .. n /\ j - 1 \in p .. n /\ w[j] = v[j - 1]
    BY <1>2, <1>3
  <1>6. ASSUME NEW i \in 1 .. (n + 1), NEW j \in 1 .. (n + 1), i < j
        PROVE  w[i].id # w[j].id /\ w[i].left <= w[j].left
    <2>1. CASE i = p
      <3>1. j \in (p + 1) .. (n + 1) /\ j - 1 \in 1 .. n /\ j - 1 \in p .. n /\ w[j] = v[j - 1]
        BY <1>2, <1>3, <1>6, <2>1
      <3>2. e.left < v[j - 1].left /\ v[j - 1].left \in Int /\ v[j - 1].id # e.id
        BY <1>1, <1>3, <1>4, <3>1
      <3> QED
        BY <1>2, <1>3, <2>1, <3>1, <3>2
    <2>2. CASE j = p
      <3>1. i \in 1 .. (p - 1) /\ i \in 1 .. n /\ w[i] = v[i]
        BY <1>2, <1>3, <1>6, <2>2
      <3> QED
        BY <1>1, <1>2, <1>4, <2>2, <3>1
    <2>3. CASE i # p /\ j # p
      <3>1. \E x, y \in 1 .. n : x < y /\ w[i] = v[x] /\ w[j] = v[y]
        <4>1. CASE i < p /\ j < p
          <5>1. i \in 1 .. n /\ j \in 1 .. n /\ w[i] = v[i] /\ w[j] = v[j]
            BY <1>5, <4>1
          <5> QED
            BY <1>6, <5>1
        <4>2. CASE i < p /\ ~(j < p)
          <5>1. i \in 1 .. n /\ j - 1 \in 1 .. n /\ w[i] = v[i] /\ w[j] = v[j - 1] /\ i < j - 1
            BY <1>5, <2>3, <4>2
          <5> QED
            BY <5>1
        <4>3. CASE ~(i < p)
          <5>1. i - 1 \in 1 .. n /\ j - 1 \in 1 .. n /\ w[i] = v[i - 1] /\ w[j] = v[j - 1] /\ i - 1 < j - 1
            BY <1>5, <1>6, <2>3, <4>3
          <5> QED
            BY <5>1
        <4> QED
          BY <4>1, <4>2, <4>3
      <3> QED
        BY <1>3, <3>1
    <2> QED
      BY <2>1, <2>2, <2>3
  <1>7. Ordered(w)
    BY <1>2, <1>6 DEF Ordered
  <1>8. ASSUME NEW o, NEW left
        PROVE  Lists(w, o, left) <=> Lists(v, o, left) \/ (o = e.id /\ left = e.left)
    <2>1. ASSUME Lists(w, o, left) PROVE Lists(v, o, left) \/ (o = e.id /\ left = e.left)
      <3>1. PICK j \in 1 .. (n + 1) : w[j].id = o /\ w[j].left = left
        BY <1>2, <2>1 DEF Lists
      <3>2. w[j] = e \/ \E i \in 1 .. n : w[j] = v[i]
        BY <1>5
      <3> QED
        BY <3>1, <3>2 DEF Lists, n
    <2>2. ASSUME Lists(v, o, left) PROVE Lists(w, o, left)
      <3>1. PICK i \in 1 .. n : v[i].id = o /\ v[i].left = left
        BY <2>2 DEF Lists, n
      <3>2. CASE i < p
        <4>1. i \in 1 .. (n + 1) /\ w[i] = v[i]
          BY <1>2, <1>3, <3>2
        <4> QED
          BY <1>2, <3>1, <4>1 DEF Lists
      <3>3. CASE ~(i < p)
        <4>1. i + 1 \in 1 .. (n + 1) /\ i + 1 \in (p + 1) .. (n + 1) /\ (i + 1) - 1 = i
          BY <1>3, <3>3
        <4>2. w[i + 1] = v[i]
          BY <1>2, <4>1
        <4> QED
          BY <1>2, <3>1, <4>1, <4>2 DEF Lists
      <3> QED
        BY <3>2, <3>3
    <2>3. Lists(w, e.id, e.left)
      BY <1>2 DEF Lists
    <2> QED
      BY <2>1, <2>2, <2>3
  <1>9. ASSUME NEW k \in Nat, NEW j \in 1 .. (n + 1),
               \A i \in 1 .. n : k < i => 0 < v[i].left, 0 < e.left, k < j
        PROVE  0 < w[j].left
    <2>1. CASE j \in 1 .. n /\ w[j] = v[j]
      BY <1>9, <2>1
    <2>2. CASE w[j] = e
      BY <1>9, <2>2
    <2>3. CASE j - 1 \in p .. n /\ j - 1 \in 1 .. n /\ w[j] = v[j - 1]
      <3>1. e.left < v[j - 1].left
        BY <1>1, <2>3
      <3> QED
        BY <1>3, <1>9, <2>3, <3>1
    <2> QED
      BY <1>5, <2>1, <2>2, <2>3
  <1> QED
    BY <1>2, <1>7, <1>8, <1>9 DEF w, n

(* A list without its first item *)
LEMMA RestIsOrdered ==
    ASSUME NEW v, Ordered(v), v # <<>>
    PROVE  /\ Ordered(Tail(v)) /\ Len(Tail(v)) = Len(v) - 1 /\ Len(v) \in Nat \ {0}
           /\ Head(v) = v[1] /\ 1 \in 1 .. Len(v)
           /\ \A i \in 1 .. Len(Tail(v)) : Tail(v)[i] = v[i + 1] /\ i + 1 \in 1 .. Len(v)
           /\ \A o, left : Lists(Tail(v), o, left) <=> Lists(v, o, left) /\ o # Head(v).id
  <1> DEFINE n == Len(v)
             t == Tail(v)
  <1>1. /\ n \in Nat \ {0} /\ t \in Seq(Items) /\ Len(t) = n - 1 /\ Head(v) = v[1]
        /\ \A i \in 1 .. (n - 1) : t[i] = v[i + 1]
    BY DEF Ordered
  <1>2. \A i, j \in 1 .. n : i < j => v[i].id # v[j].id /\ v[i].left <= v[j].left
    BY DEF Ordered
  <1> HIDE DEF n, t
  <1>3. \A i \in 1 .. (n - 1) : i + 1 \in 1 .. n /\ 1 < i + 1
    BY <1>1
  <1>4. \A i, j \in 1 .. (n - 1) : i < j => i + 1 < j + 1
    BY <1>1
  <1>5. Ordered(t)
    <2>1. ASSUME NEW i \in 1 .. Len(t), NEW j \in 1 .. Len(t), i < j
          PROVE  t[i].id # t[j].id /\ t[i].left <= t[j].left
      <3>1. i \in 1 .. (n - 1) /\ j \in 1 .. (n - 1)
        BY <1>1
      <3>2. t[i] = v[i + 1] /\ t[j] = v[j + 1] /\ i + 1 \in 1 .. n /\ j + 1 \in 1 .. n /\ i + 1 < j + 1
        BY <1>1, <1>3, <1>4, <2>1, <3>1
      <3> QED
        BY <1>2, <3>2
    <2> QED
      BY <1>1, <2>1 DEF Ordered
  <1>6. 1 \in 1 .. n /\ \A i \in 1 .. n : i = 1 \/ (i - 1 \in 1 .. (n - 1) /\ (i - 1) + 1 = i)
    BY <1>1
  <1>7. ASSUME NEW o, NEW left PROVE Lists(t, o, left) <=> Lists(v, o, left) /\ o # v[1].id
    <2>1. ASSUME Lists(t, o, left) PROVE Lists(v, o, left) /\ o # v[1].id
      <3>1. PICK i \in 1 .. (n - 1) : t[i].id = o /\ t[i].left = left
        BY <1>1, <2>1 DEF Lists
      <3>2. v[i + 1].id = o /\ v[i + 1].left = left /\ v[1].id # v[i + 1].id
        BY <1>1, <1>2, <1>3, <1>6, <3>1
      <3> QED
        BY <1>3, <3>2 DEF Lists, n
    <2>2. ASSUME Lists(v, o, left), o # v[1].id PROVE Lists(t, o, left)
      <3>1. PICK i \in 1 .. n : v[i].id = o /\ v[i].left = left
        BY <2>2 DEF Lists, n
      <3>2. i - 1 \in 1 .. (n - 1) /\ t[i - 1] = v[i]
        BY <1>1, <1>6, <2>2, <3>1
      <3> QED
        BY <1>1, <3>1, <3>2 DEF Lists
    <2> QED
      BY <2>1, <2>2
  <1> QED
    BY <1>1, <1>3, <1>5, <1>6, <1>7 DEF n, t

(* The states of the loop of proceed(), f[i] after i of its rounds *)
Rounds(items, delay, n, f) ==
    f = [i \in 0 .. n |-> IF i = 0 THEN [list |-> items, reported |-> {}]
                          ELSE UpdateFront(f[i - 1], delay)]

(* The rounds of an update are a sequence. *)
LEMMA RoundsExist ==
    ASSUME NEW items, NEW delay, NEW n \in Nat PROVE \E f : Rounds(items, delay, n, f)
  <1> DEFINE first == [list |-> items, reported |-> {}]
             N == {m \in Nat : \E f : Rounds(items, delay, m, f)}
  <1>1. 0 \in N
    <2> DEFINE f == [i \in 0 .. 0 |-> first]
    <2>1. f = [i \in 0 .. 0 |-> IF i = 0 THEN first ELSE UpdateFront(f[i - 1], delay)]
      OBVIOUS
    <2>2. Rounds(items, delay, 0, f)
      BY <2>1 DEF Rounds
    <2> QED
      BY <2>2
  <1>2. ASSUME NEW m \in 0 .. (n - 1), m \in N PROVE m + 1 \in N
    <2>1. PICK f : Rounds(items, delay, m, f)
      BY <1>2
    <2> DEFINE g == [i \in 0 .. (m + 1) |-> IF i = 0 THEN first ELSE UpdateFront(f[i - 1], delay)]
    <2>2. \A i \in 0 .. m : g[i] = f[i]
      <3>1. f = [i \in 0 .. m |-> IF i = 0 THEN first ELSE UpdateFront(f[i - 1], delay)]
        BY <2>1 DEF Rounds
      <3> HIDE DEF first
      <3>2. \A i \in 0 .. m : f[i] = IF i = 0 THEN first ELSE UpdateFront(f[i - 1], delay)
        BY <3>1
      <3>3. \A i \in 0 .. m : i \in 0 .. (m + 1)
        OBVIOUS
      <3> QED
        BY <3>2, <3>3
    <2>3. \A i \in 0 .. (m + 1) : i # 0 => i - 1 \in 0 .. m
      OBVIOUS
    <2>4. \A i \in 0 .. (m + 1) : g[i] = IF i = 0 THEN first ELSE UpdateFront(g[i - 1], delay)
      <3> TAKE i \in 0 .. (m + 1)
      <3>1. g[i] = IF i = 0 THEN first ELSE UpdateFront(f[i - 1], delay)
        OBVIOUS
      <3>2. i # 0 => g[i - 1] = f[i - 1]
        BY <2>2, <2>3
      <3> HIDE DEF g, first
      <3> QED
        BY <3>1, <3>2
    <2>5. g = [i \in 0 .. (m + 1) |-> g[i]]
      OBVIOUS
    <2> HIDE DEF g
    <2>6. Rounds(items, delay, m + 1, g)
      BY <2>4, <2>5 DEF Rounds
    <2>7. m + 1 \in Nat
      OBVIOUS
    <2> QED
      BY <2>6, <2>7
  <1>3. n \in N
    <2> HIDE DEF N
    <2>1. n \in 0 .. n
      OBVIOUS
    <2> QED
      BY <1>1, <1>2, <2>1, RoundsInduction
  <1> QED
    BY <1>3

(* What the loop comes to, round by round *)
LEMMA UpdatesAreRounds ==
    ASSUME NEW items, NEW delay, Len(items) \in Nat
    PROVE  \E f : /\ Updates(items, delay) = f[Len(items)]
                  /\ f[0] = [list |-> items, reported |-> {}]
                  /\ \A i \in 1 .. Len(items) : f[i] = UpdateFront(f[i - 1], delay)
  <1> DEFINE n == Len(items)
             Up(g) == g = [i \in 0 .. n |-> IF i = 0 THEN [list |-> items, reported |-> {}]
                                            ELSE UpdateFront(g[i - 1], delay)]
             f == CHOOSE g : Up(g)
  <1>1. n \in Nat
    OBVIOUS
  <1>2. \E g : Up(g)
    <2>1. PICK g : Rounds(items, delay, n, g)
      BY <1>1, RoundsExist
    <2>2. Up(g)
      BY <2>1 DEF Rounds
    <2> HIDE DEF Up
    <2> QED
      BY <2>2
  <1>3. Up(f)
    BY <1>2, Zenon
  <1>4. Updates(items, delay) = f[n]
    BY DEF Updates
  <1>5. f[0] = [list |-> items, reported |-> {}] /\ \A i \in 1 .. n : f[i] = UpdateFront(f[i - 1], delay)
    <2> HIDE DEF f
    <2>1. 0 \in 0 .. n /\ \A i \in 1 .. n : i \in 0 .. n /\ i # 0
      BY <1>1
    <2>2. ASSUME NEW i \in 0 .. n
          PROVE  f[i] = IF i = 0 THEN [list |-> items, reported |-> {}] ELSE UpdateFront(f[i - 1], delay)
      BY <1>3
    <2> HIDE DEF n, Up
    <2>3. f[0] = [list |-> items, reported |-> {}]
      BY <2>1, <2>2
    <2>4. ASSUME NEW i \in 1 .. n PROVE f[i] = UpdateFront(f[i - 1], delay)
      BY <2>1, <2>2
    <2> QED
      BY <2>3, <2>4
  <1> HIDE DEF f
  <1> QED
    BY <1>4, <1>5

(* All items of the list but the first k are not due yet *)
Settled(s, k) == \A i \in 1 .. Len(s.list) : k < i => 0 < s.list[i].left

(* The object o in front, due for h, has waited longest; it goes behind the
   others that are due, or out of the list *)
FrontUpdated(s, delay, o, h, w) ==
    /\ h \in Int /\ h <= 0 /\ Lists(s.list, o, h)
    /\ \A x, left : Lists(s.list, x, left) => left \in Int /\ h <= left
    /\ Ordered(w.list)
    /\ o \in inRange =>
         /\ w.reported = s.reported \cup {o}
         /\ \A x, left : Lists(w.list, x, left)
                           <=> \/ Lists(s.list, x, left) /\ x # o
                               \/ x = o /\ left = delay[o]
    /\ o \notin inRange =>
         /\ w.reported = s.reported
         /\ \A x, left : Lists(w.list, x, left) <=> Lists(s.list, x, left) /\ x # o
    /\ \A k \in Nat : Settled(s, k) => k - 1 \in Nat /\ Settled(w, k - 1)

(* A round takes the first item that is due and puts it back by its delay. *)
LEMMA FrontIsUpdated ==
    ASSUME NEW s, Ordered(s.list), IsDue(s), NEW delay \in [Things -> Delays],
           NEW o, o = Head(s.list).id, NEW h, h = Head(s.list).left,
           NEW w, w = UpdateFront(s, delay)
    PROVE  FrontUpdated(s, delay, o, h, w)
  <1> DEFINE v == s.list
             t == Tail(v)
             e == Item(o, delay[o])
             p == Placed(t, e)
  <1>1. v # <<>> /\ h <= 0 /\ w = IF o \in inRange
                                    THEN [list |-> p, reported |-> s.reported \cup {o}]
                                    ELSE [list |-> t, reported |-> s.reported]
    BY DEF IsDue, UpdateFront
  <1>2. /\ Ordered(t) /\ Len(t) = Len(v) - 1 /\ Len(v) \in Nat \ {0}
        /\ Head(v) = v[1] /\ 1 \in 1 .. Len(v)
        /\ \A i \in 1 .. Len(t) : t[i] = v[i + 1] /\ i + 1 \in 1 .. Len(v)
        /\ \A x, left : Lists(t, x, left) <=> Lists(v, x, left) /\ x # o
    BY <1>1, RestIsOrdered
  <1>3. /\ \A i \in 1 .. Len(v) : v[i].id \in Things /\ v[i].left \in Int
        /\ \A i, j \in 1 .. Len(v) : i <= j => v[i].left <= v[j].left
    BY OrderedFacts
  <1> HIDE DEF t, e, p
  <1>4. o \in Things /\ h \in Int /\ Lists(v, o, h)
    BY <1>2, <1>3 DEF Lists
  <1>5. ASSUME NEW x, NEW left, Lists(v, x, left) PROVE left \in Int /\ h <= left
    <2>1. PICK i \in 1 .. Len(v) : v[i].left = left
      BY <1>5 DEF Lists
    <2>2. 1 <= i /\ h = v[1].left
      BY <1>2
    <2> QED
      BY <1>2, <1>3, <2>1, <2>2
  <1>6. delay[o] \in Nat /\ 0 < delay[o] /\ e \in Items /\ e.id = o /\ e.left = delay[o]
    <2>1. delay[o] \in Delays
      BY <1>4
    <2>2. delay[o] \in Nat /\ 0 < delay[o]
      BY <2>1, SilenceConstants
    <2>3. delay[o] \in Int
      BY <2>2
    <2> QED
      BY <1>4, <2>2, <2>3, ItemIs DEF e
  <1>7. \A i \in 1 .. Len(t) : t[i].id # e.id
    <2> SUFFICES ASSUME NEW i \in 1 .. Len(t) PROVE t[i].id # o
      BY <1>6
    <2>1. Lists(t, t[i].id, t[i].left)
      BY DEF Lists
    <2> QED
      BY <1>2, <2>1
  <1>8. ASSUME NEW k \in Nat, Settled(s, k)
        PROVE  k - 1 \in Nat /\ \A i \in 1 .. Len(t) : k - 1 < i => 0 < t[i].left
    <2>1. \A i \in 1 .. Len(v) : k < i => 0 < v[i].left
      BY <1>8 DEF Settled
    <2>2. ~(k < 1)
      BY <1>1, <1>2, <1>4, <2>1
    <2>3. ASSUME NEW i \in 1 .. Len(t), k - 1 < i PROVE 0 < t[i].left
      <3>1. t[i] = v[i + 1] /\ i + 1 \in 1 .. Len(v)
        BY <1>2
      <3>2. k < i + 1
        BY <1>2, <2>3
      <3> QED
        BY <2>1, <3>1, <3>2
    <2> QED
      BY <2>2, <2>3
  <1>9. CASE o \in inRange
    <2>1. w.list = p /\ w.reported = s.reported \cup {o}
      BY <1>1, <1>9
    <2>2. /\ Ordered(p)
          /\ \A x, left : Lists(p, x, left) <=> Lists(t, x, left) \/ (x = e.id /\ left = e.left)
          /\ \A k \in Nat, j \in 1 .. Len(p) :
                /\ \A i \in 1 .. Len(t) : k < i => 0 < t[i].left
                /\ 0 < e.left /\ k < j
                => 0 < p[j].left
      BY <1>2, <1>6, <1>7, PlacedIsOrdered DEF p
    <2>3. \A x, left : Lists(p, x, left) <=> (Lists(v, x, left) /\ x # o) \/ (x = o /\ left = delay[o])
      BY <1>2, <1>6, <2>2
    <2>4. ASSUME NEW k \in Nat, Settled(s, k) PROVE k - 1 \in Nat /\ Settled(w, k - 1)
      <3>1. k - 1 \in Nat /\ \A i \in 1 .. Len(t) : k - 1 < i => 0 < t[i].left
        BY <1>8, <2>4
      <3>2. \A j \in 1 .. Len(p) : k - 1 < j => 0 < p[j].left
        BY <1>6, <2>2, <3>1
      <3> QED
        BY <2>1, <3>1, <3>2 DEF Settled
    <2> QED
      BY <1>1, <1>4, <1>5, <1>9, <2>1, <2>2, <2>3, <2>4 DEF FrontUpdated
  <1>10. CASE o \notin inRange
    <2>1. w.list = t /\ w.reported = s.reported
      BY <1>1, <1>10
    <2>2. ASSUME NEW k \in Nat, Settled(s, k) PROVE k - 1 \in Nat /\ Settled(w, k - 1)
      BY <1>8, <2>1, <2>2 DEF Settled
    <2> QED
      BY <1>1, <1>2, <1>4, <1>5, <1>10, <2>1, <2>2 DEF FrontUpdated
  <1> QED
    BY <1>9, <1>10

(* What the loop has done to the list `items` so far: whoever was reported was
   not behind anyone who still waits *)
LoopSoFar(items, s) ==
    /\ Ordered(s.list) /\ s.reported \subseteq inRange
    /\ \A o, left : Lists(s.list, o, left)
                      => IF o \in s.reported THEN left \in 1 .. LongestDelay ELSE Lists(items, o, left)
    /\ \A o, left : Lists(items, o, left) /\ o \in inRange => o \in s.reported \/ Lists(s.list, o, left)
    /\ \A x, o, left : x \in s.reported /\ o \notin s.reported /\ Lists(s.list, o, left)
                         => \E m \in Int : m <= left /\ Lists(items, x, m)

(* A round keeps what holds of the rounds so far. *)
LEMMA LoopGoesOn ==
    ASSUME NEW items, NEW s, LoopSoFar(items, s), NEW delay \in [Things -> Delays]
    PROVE  LoopSoFar(items, UpdateFront(s, delay))
  <1> DEFINE w == UpdateFront(s, delay)
             o == Head(s.list).id
             h == Head(s.list).left
  <1>1. CASE ~IsDue(s)
    BY <1>1 DEF UpdateFront
  <1>2. CASE IsDue(s)
    <2>1. /\ Ordered(s.list) /\ s.reported \subseteq inRange /\ delay \in [Things -> Delays]
          /\ o = Head(s.list).id /\ h = Head(s.list).left /\ w = UpdateFront(s, delay)
      BY DEF LoopSoFar
    <2> HIDE DEF w, o, h
    <2>2. FrontUpdated(s, delay, o, h, w)
      BY <1>2, <2>1, FrontIsUpdated
    <2>3. o \notin s.reported /\ Lists(items, o, h)
      <3>1. h \notin 1 .. LongestDelay
        BY <2>2, SilenceConstants DEF FrontUpdated
      <3> QED
        BY <2>2, <3>1 DEF LoopSoFar, FrontUpdated
    <2>4. delay[o] \in 1 .. LongestDelay
      <3>1. o \in Things
        BY <2>1, <2>2, ListedOnce DEF FrontUpdated
      <3>2. delay[o] \in Delays
        BY <3>1
      <3> QED
        BY <3>2, SilenceConstants
    <2>5. w.reported \subseteq inRange
      BY <2>1, <2>2 DEF FrontUpdated
    <2>6. ASSUME NEW x, NEW left, Lists(w.list, x, left)
          PROVE  IF x \in w.reported THEN left \in 1 .. LongestDelay ELSE Lists(items, x, left)
      BY <2>2, <2>4, <2>6 DEF LoopSoFar, FrontUpdated
    <2>7. ASSUME NEW x, NEW left, Lists(items, x, left), x \in inRange
          PROVE  x \in w.reported \/ Lists(w.list, x, left)
      BY <2>2, <2>7 DEF LoopSoFar, FrontUpdated
    <2>8. ASSUME NEW x, NEW y, NEW left, x \in w.reported, y \notin w.reported, Lists(w.list, y, left)
          PROVE  \E m \in Int : m <= left /\ Lists(items, x, m)
      <3>1. y \notin s.reported /\ Lists(s.list, y, left) /\ left \in Int /\ h <= left
        BY <2>2, <2>8 DEF FrontUpdated
      <3>2. CASE x \in s.reported
        BY <3>1, <3>2 DEF LoopSoFar
      <3>3. CASE x = o
        BY <2>2, <2>3, <3>1, <3>3 DEF FrontUpdated
      <3> QED
        BY <2>2, <2>8, <3>2, <3>3 DEF FrontUpdated
    <2> QED
      BY <2>2, <2>5, <2>6, <2>7, <2>8 DEF LoopSoFar, w, FrontUpdated
  <1> QED
    BY <1>1, <1>2

(* What the loop comes to: nothing was due any more, or the limit was reached *)
LEMMA LoopResult ==
    ASSUME NEW items, Ordered(items), NEW delay \in [Things -> Delays]
    PROVE  LoopSoFar(items, Updates(items, delay)) /\ ~IsDue(Updates(items, delay))
  <1> DEFINE n == Len(items)
             first == [list |-> items, reported |-> {}]
  <1>1. n \in Nat /\ n \in 0 .. n
    BY OrderedFacts
  <1>2. PICK f : /\ Updates(items, delay) = f[n]
                 /\ f[0] = first
                 /\ \A i \in 1 .. n : f[i] = UpdateFront(f[i - 1], delay)
    BY <1>1, UpdatesAreRounds
  <1> DEFINE Good(i) == /\ LoopSoFar(items, f[i])
                        /\ ~IsDue(f[i]) \/ Settled(f[i], n - i)
             N == {i \in 0 .. n : Good(i)}
  <1> HIDE DEF n
  <1>3. Good(0)
    <2>1. first.list = items /\ first.reported = {}
      OBVIOUS
    <2> HIDE DEF first
    <2>2. LoopSoFar(items, first)
      BY <2>1 DEF LoopSoFar
    <2>3. Settled(first, n - 0)
      <3>1. \A i \in 1 .. n : ~(n - 0 < i)
        BY <1>1
      <3> QED
        BY <2>1, <3>1 DEF Settled, n
    <2> QED
      BY <1>2, <2>2, <2>3
  <1>4. ASSUME NEW k \in 0 .. (n - 1), Good(k) PROVE Good(k + 1)
    <2>1. k + 1 \in 1 .. n /\ (k + 1) - 1 = k /\ n - k \in Nat /\ n - (k + 1) = (n - k) - 1
      BY <1>1
    <2>2. f[k + 1] = UpdateFront(f[k], delay)
      BY <1>2, <2>1
    <2> DEFINE s == f[k]
               w == f[k + 1]
    <2>3. LoopSoFar(items, s) /\ (~IsDue(s) \/ Settled(s, n - k))
      BY <1>4
    <2> HIDE DEF s, w
    <2>4. w = UpdateFront(s, delay)
      BY <2>2 DEF s, w
    <2>5. LoopSoFar(items, w)
      BY <2>3, <2>4, LoopGoesOn
    <2>6. ~IsDue(w) \/ Settled(w, n - (k + 1))
      <3>1. CASE ~IsDue(s)
        BY <2>4, <3>1 DEF UpdateFront
      <3>2. CASE IsDue(s)
        <4>1. Ordered(s.list)
          BY <2>3 DEF LoopSoFar
        <4>2. \A j \in Nat : Settled(s, j) => Settled(w, j - 1)
          BY <2>4, <3>2, <4>1, FrontIsUpdated DEF FrontUpdated
        <4> QED
          BY <2>1, <2>3, <3>2, <4>2
      <3> QED
        BY <3>1, <3>2
    <2> QED
      BY <2>5, <2>6 DEF w
  <1> HIDE DEF Good
  <1>5. \A k \in 0 .. n : k \in N
    <2>1. 0 \in N
      BY <1>1, <1>3
    <2>2. \A k \in 0 .. (n - 1) : k \in 0 .. n /\ k + 1 \in 0 .. n
      BY <1>1
    <2>3. \A k \in 0 .. (n - 1) : k \in N => k + 1 \in N
      BY <1>4, <2>2
    <2> HIDE DEF N
    <2> QED
      BY <1>1, <2>1, <2>3, RoundsInduction
  <1>6. Good(n)
    BY <1>1, <1>5
  <1>7. n - n = 0
    BY <1>1
  <1>8. LoopSoFar(items, f[n]) /\ (~IsDue(f[n]) \/ Settled(f[n], 0))
    BY <1>6, <1>7 DEF Good
  <1>9. ~IsDue(f[n])
    <2> SUFFICES ASSUME IsDue(f[n]), Settled(f[n], 0) PROVE FALSE
      BY <1>8
    <2>1. Ordered(f[n].list)
      BY <1>8 DEF LoopSoFar
    <2>2. 0 \in Nat /\ ~(0 - 1 \in Nat)
      OBVIOUS
    <2>3. \A j \in Nat : Settled(f[n], j) => j - 1 \in Nat
      BY <2>1, FrontIsUpdated DEF FrontUpdated
    <2> QED
      BY <2>2, <2>3
  <1> QED
    BY <1>2, <1>8, <1>9

(* Who is listed as due after the loop, and was not reported, had to let
   someone else go first *)
LEMMA SomeoneWentFirst ==
    ASSUME NEW items, NEW s, LoopSoFar(items, s), ~IsDue(s),
           NEW o, NEW left, Lists(s.list, o, left), left <= 0
    PROVE  \E x \in s.reported, m \in Int : x # o /\ m <= left /\ Lists(items, x, m)
  <1>1. Ordered(s.list)
    BY DEF LoopSoFar
  <1>2. left \in Int
    BY <1>1, ListedOnce
  <1>3. o \notin s.reported
    <2>1. left \notin 1 .. LongestDelay
      BY <1>2, SilenceConstants
    <2> QED
      BY <2>1 DEF LoopSoFar
  <1>4. s.list # <<>> /\ Head(s.list).left <= 0
    <2>1. PICK i \in 1 .. Len(s.list) : s.list[i].left = left
      BY DEF Lists
    <2>2. Len(s.list) \in Nat /\ Len(s.list) # 0
      BY <1>1, <2>1, OrderedFacts
    <2>3. s.list # <<>>
      BY <2>2
    <2>4. Head(s.list) = s.list[1] /\ 1 \in 1 .. Len(s.list)
      BY <1>1, <2>3, RestIsOrdered
    <2>5. 1 <= i
      BY <2>2
    <2>6. s.list[1].left \in Int /\ s.list[i].left \in Int /\ s.list[1].left <= s.list[i].left
      BY <1>1, <2>4, <2>5, OrderedFacts
    <2> QED
      BY <1>2, <2>1, <2>3, <2>4, <2>6
  <1>5. s.reported # {}
    <2>1. ~(Cardinality(s.reported) < UpdateLimit)
      BY <1>4 DEF IsDue
    <2> SUFFICES ASSUME s.reported = {} PROVE FALSE
      OBVIOUS
    <2>2. Cardinality(s.reported) = 0
      BY FS_EmptySet
    <2> QED
      BY <2>1, <2>2, SilenceConstants
  <1>6. PICK x \in s.reported : TRUE
    BY <1>5
  <1>7. PICK m \in Int : m <= left /\ Lists(items, x, m)
    BY <1>3, <1>6 DEF LoopSoFar
  <1> QED
    BY <1>3, <1>6, <1>7

(* A known object keeps the time of its next report, a new one gets it *)
LEMMA KnownLeftIs ==
    ASSUME Ordered(m_detectedObjects), NEW o, NEW d
    PROVE  /\ \A left : Lists(m_detectedObjects, o, left) => KnownLeft(o, d) = left
           /\ (\A left : ~Lists(m_detectedObjects, o, left)) => KnownLeft(o, d) = d
  <1> DEFINE v == m_detectedObjects
             old == {i \in DOMAIN v : v[i].id = o}
  <1>1. /\ Len(v) \in Nat /\ DOMAIN v = 1 .. Len(v)
        /\ \A i, j \in 1 .. Len(v) : v[i].id = v[j].id => i = j
    BY OrderedFacts
  <1>2. KnownLeft(o, d) = IF old = {} THEN d ELSE v[Min(old)].left
    BY DEF KnownLeft
  <1>3. ASSUME NEW left, Lists(v, o, left) PROVE KnownLeft(o, d) = left
    <2>1. PICK i \in 1 .. Len(v) : v[i].id = o /\ v[i].left = left
      BY <1>3 DEF Lists
    <2>2. old = {i} /\ i \in Nat
      BY <1>1, <2>1
    <2> HIDE DEF old
    <2>3. \A m \in old : (\A j \in old : m <= j) <=> m = i
      BY <2>2
    <2>4. Min(old) = i
      BY <2>2, <2>3 DEF Min
    <2>5. old # {}
      BY <2>2
    <2> QED
      BY <1>2, <2>1, <2>4, <2>5
  <1>4. ASSUME \A left : ~Lists(v, o, left) PROVE KnownLeft(o, d) = d
    <2>1. \A i \in 1 .. Len(v) : v[i].id # o
      BY <1>4 DEF Lists
    <2>2. old = {}
      BY <1>1, <2>1
    <2> HIDE DEF old
    <2> QED
      BY <1>2, <2>2
  <1> QED
    BY <1>3, <1>4

(* The global scan lists the objects in range, and no others *)
LEMMA GlobalScanIsExact ==
    ASSUME inRange \subseteq Things, Ordered(m_detectedObjects),
           NEW delay \in [Things -> Delays], NEW items, items \in Scanned(delay)
    PROVE  /\ Ordered(items)
           /\ \A o, left : Lists(items, o, left) <=> o \in inRange /\ left = KnownLeft(o, delay[o])
  <1> DEFINE L(o) == KnownLeft(o, delay[o])
             I == {Item(o, L(o)) : o \in inRange}
             n == Cardinality(I)
  <1>1. ASSUME NEW o \in inRange PROVE L(o) \in Int
    <2>1. delay[o] \in Int
      <3>1. delay[o] \in Delays
        OBVIOUS
      <3> QED
        BY <3>1, SilenceConstants
    <2>2. CASE \E left : Lists(m_detectedObjects, o, left)
      <3>1. PICK left : Lists(m_detectedObjects, o, left)
        BY <2>2
      <3>2. left \in Int
        BY <3>1, ListedOnce
      <3> QED
        BY <3>1, <3>2, KnownLeftIs
    <2>3. CASE \A left : ~Lists(m_detectedObjects, o, left)
      <3>1. L(o) = delay[o]
        BY <2>3, KnownLeftIs
      <3> QED
        BY <2>1, <3>1
    <2> QED
      BY <2>2, <2>3
  <1> HIDE DEF L
  <1>2. ASSUME NEW o \in inRange
        PROVE  Item(o, L(o)) \in Items /\ Item(o, L(o)).id = o /\ Item(o, L(o)).left = L(o)
    BY <1>1, ItemIs
  <1>3. /\ I \subseteq Items
        /\ \A r \in I : r.id \in inRange /\ r.left = L(r.id) /\ r = Item(r.id, L(r.id)) /\ r.left \in Int
    BY <1>1, <1>2
  <1>4. IsFiniteSet(I) /\ n \in Nat
    <2>1. IsFiniteSet(inRange)
      BY SilenceConstants, FS_Subset
    <2> DEFINE f == [o \in inRange |-> Item(o, L(o))]
    <2>2. f \in Surjection(inRange, I)
      BY DEF Surjection
    <2> HIDE DEF I, f
    <2>3. IsFiniteSet(I)
      BY <2>1, <2>2, FS_Surjection
    <2> QED
      BY <2>3, FS_CardinalityType
  <1>5. /\ items \in [1 .. n -> I] /\ ToSet(items) = I
        /\ \A i, j \in DOMAIN items : i < j => items[i] # items[j] /\ items[i].left <= items[j].left
    BY DEF Scanned, Orders, L
  <1> HIDE DEF n, I
  <1>6. items \in Seq(Items) /\ Len(items) = n /\ DOMAIN items = 1 .. n /\ \A i \in 1 .. n : items[i] \in I
    <2>1. items \in [1 .. n -> Items]
      BY <1>3, <1>5
    <2>2. items \in Seq(Items)
      BY <1>4, <2>1
    <2> QED
      BY <1>4, <1>5, <2>2
  <1>7. ASSUME NEW i \in 1 .. Len(items), NEW j \in 1 .. Len(items), i < j
        PROVE  items[i].id # items[j].id /\ items[i].left <= items[j].left
    <2>1. items[i] # items[j] /\ items[i].left <= items[j].left /\ items[i] \in I /\ items[j] \in I
      BY <1>5, <1>6, <1>7
    <2> QED
      BY <1>3, <2>1
  <1>8. Ordered(items)
    BY <1>6, <1>7 DEF Ordered
  <1>9. ASSUME NEW o, NEW left, Lists(items, o, left) PROVE o \in inRange /\ left = L(o)
    <2>1. PICK i \in 1 .. n : items[i].id = o /\ items[i].left = left
      BY <1>6, <1>9 DEF Lists
    <2> QED
      BY <1>3, <1>6, <2>1
  <1>10. ASSUME NEW o \in inRange PROVE Lists(items, o, L(o))
    <2>1. Item(o, L(o)) \in ToSet(items)
      BY <1>5 DEF I
    <2>2. PICK i \in 1 .. n : items[i] = Item(o, L(o))
      BY <1>6, <2>1 DEF ToSet
    <2> QED
      BY <1>2, <1>6, <2>2 DEF Lists
  <1> QED
    BY <1>8, <1>9, <1>10 DEF L

(* What the scan makes of the list: whoever stays keeps his time *)
LEMMA ScanKeeps ==
    ASSUME inRange \subseteq Things, Ordered(m_detectedObjects), NEW delay \in [Things -> Delays],
           NEW items, items \in IF scanAge > EdgeTime THEN Scanned(delay) ELSE {m_detectedObjects}
    PROVE  /\ Ordered(items)
           /\ \A o, left : Lists(items, o, left)
                => \/ Lists(m_detectedObjects, o, left)
                   \/ left \in 1 .. LongestDelay /\ \A m : ~Lists(m_detectedObjects, o, m)
           /\ \A o, left : o \in inRange /\ Lists(m_detectedObjects, o, left) => Lists(items, o, left)
           /\ scanAge > EdgeTime => \A o \in inRange : \E left : Lists(items, o, left)
           /\ ~(scanAge > EdgeTime) => items = m_detectedObjects
  <1>1. CASE scanAge > EdgeTime
    <2>1. items \in Scanned(delay)
      BY <1>1
    <2>2. /\ Ordered(items)
          /\ \A o, left : Lists(items, o, left) <=> o \in inRange /\ left = KnownLeft(o, delay[o])
      BY <2>1, GlobalScanIsExact
    <2>3. ASSUME NEW o, NEW left, Lists(items, o, left)
          PROVE  \/ Lists(m_detectedObjects, o, left)
                 \/ left \in 1 .. LongestDelay /\ \A m : ~Lists(m_detectedObjects, o, m)
      <3>1. o \in inRange /\ left = KnownLeft(o, delay[o])
        BY <2>2, <2>3
      <3>2. delay[o] \in 1 .. LongestDelay
        <4>1. delay[o] \in Delays
          BY <3>1
        <4> QED
          BY <4>1, SilenceConstants
      <3> QED
        BY <3>1, <3>2, KnownLeftIs
    <2>4. ASSUME NEW o, NEW left, o \in inRange, Lists(m_detectedObjects, o, left) PROVE Lists(items, o, left)
      BY <2>2, <2>4, KnownLeftIs
    <2> QED
      BY <1>1, <2>2, <2>3, <2>4
  <1>2. CASE ~(scanAge > EdgeTime)
    BY <1>2
  <1> QED
    BY <1>1, <1>2

(***************************************************************************)
(* Nobody is overlooked.  An object that is not known yet waits for the    *)
(* next global scan, one that is not due yet for its time, and one that is *)
(* due for its rivals: those on the list that are due no later, or were    *)
(* when the object began to wait.  Each cycle in which it is not reported  *)
(* it loses one of them, and never gets a new one.                         *)
(***************************************************************************)
Midway == pphase \in {"handle", "proceed"}
Unlisted(v, o) == \A left : ~Lists(v, o, left)
Rivals(v, o, left, waited) ==
    {x \in Things \ {o} : \E l : Lists(v, x, l) /\ (l <= left \/ l <= -waited)}
FirstWait == EdgeTime + LongestStep + LongestDelay
Others(v, o, left, waited) == Cardinality(Things) - Cardinality(Rivals(v, o, left, waited))

PassiveTypes ==
    /\ pphase \in {"receive", "handle", "proceed", "crashed"}
    /\ inRange \subseteq Things /\ scanAge \in 0 .. (EdgeTime + 1)
    /\ unseen \in [Things -> Nat]
    /\ Ordered(m_detectedObjects)
    /\ \A o, left : Lists(m_detectedObjects, o, left) => left <= LongestDelay

(* Nobody waits for an idle scanner, or out of its range *)
NobodyWaitsIdly ==
    /\ Midway /\ ~busy => \A o \in Things : unseen[o] = 0
    /\ \A o \in Things : o \notin inRange => unseen[o] = 0

WaitsForScan ==
    \A o \in Things : Unlisted(m_detectedObjects, o) =>
        /\ unseen[o] <= EdgeTime + (IF Midway THEN LongestStep ELSE 0)
        /\ scanAge <= EdgeTime => unseen[o] <= scanAge

WaitsForTime ==
    \A o \in Things, left \in Int : Lists(m_detectedObjects, o, left) /\ 0 < left =>
        unseen[o] + left <= FirstWait

WaitsForRivals ==
    \A o \in Things, left \in Int : Lists(m_detectedObjects, o, left) /\ left <= 0 =>
        unseen[o] <= FirstWait + LongestStep *
                        (Others(m_detectedObjects, o, left, unseen[o]) - (IF Midway THEN 0 ELSE 1))

PassiveInv == PassiveTypes /\ NobodyWaitsIdly /\ WaitsForScan /\ WaitsForTime /\ WaitsForRivals

(* An object has at most all the others as its rivals *)
LEMMA RivalsAreFew ==
    ASSUME NEW v, NEW o \in Things, NEW left, NEW u
    PROVE  /\ IsFiniteSet(Rivals(v, o, left, u)) /\ Cardinality(Rivals(v, o, left, u)) \in Nat
           /\ Others(v, o, left, u) \in 1 .. Cardinality(Things)
  <1> DEFINE R == Rivals(v, o, left, u)
             t == Cardinality(Things)
  <1>1. R \subseteq Things /\ o \notin R
    BY DEF Rivals
  <1>2. Others(v, o, left, u) = t - Cardinality(R)
    BY DEF Others
  <1> HIDE DEF R, t
  <1>3. IsFiniteSet(Things) /\ t \in Nat
    BY SilenceConstants DEF t
  <1>4. IsFiniteSet(R) /\ Cardinality(R) \in Nat
    BY <1>1, <1>3, FS_Subset, FS_CardinalityType
  <1>5. Cardinality(R) <= t /\ Cardinality(R) # t
    BY <1>1, <1>3, FS_Subset DEF t
  <1>6. t - Cardinality(R) \in 1 .. t
    BY <1>3, <1>4, <1>5
  <1> QED
    BY <1>2, <1>4, <1>6 DEF R, t

(* Fewer rivals *)
LEMMA RivalsLost ==
    ASSUME NEW v, NEW o \in Things, NEW left, NEW u, NEW v2, NEW left2, NEW u2,
           Rivals(v2, o, left2, u2) \subseteq Rivals(v, o, left, u)
    PROVE  /\ Others(v, o, left, u) <= Others(v2, o, left2, u2)
           /\ \A x \in Rivals(v, o, left, u) : x \notin Rivals(v2, o, left2, u2)
                => Others(v, o, left, u) <= Others(v2, o, left2, u2) - 1
  <1> DEFINE R == Rivals(v, o, left, u)
             Q == Rivals(v2, o, left2, u2)
             t == Cardinality(Things)
  <1>1. /\ Others(v, o, left, u) = t - Cardinality(R)
        /\ Others(v2, o, left2, u2) = t - Cardinality(Q)
    BY DEF Others
  <1>2. /\ IsFiniteSet(R) /\ Cardinality(R) \in Nat /\ Cardinality(Q) \in Nat
        /\ Q \subseteq R
    BY RivalsAreFew
  <1>3. t \in Nat
    BY SilenceConstants
  <1> HIDE DEF R, Q, t
  <1>4. Cardinality(Q) <= Cardinality(R) /\ (Cardinality(Q) = Cardinality(R) => Q = R)
    BY <1>2, FS_Subset
  <1>5. t - Cardinality(R) <= t - Cardinality(Q)
    BY <1>2, <1>3, <1>4
  <1>6. ASSUME NEW x \in R, x \notin Q PROVE t - Cardinality(R) <= t - Cardinality(Q) - 1
    <2>1. Cardinality(Q) # Cardinality(R)
      BY <1>4, <1>6
    <2> QED
      BY <1>2, <1>3, <1>4, <2>1
  <1> QED
    BY <1>1, <1>5, <1>6 DEF R, Q

(* A step takes the longest one at most *)
LEMMA Turns ==
    ASSUME NEW s \in Nat, NEW a \in Nat, NEW b \in Nat, a <= b
    PROVE  s * a <= s * b /\ s * (a + 1) = s * a + s /\ s * a \in Nat
  <1>1. PICK d \in Nat : b = a + d
    <2>1. b - a \in Nat /\ b = a + (b - a)
      OBVIOUS
    <2> QED
      BY <2>1
  <1>2. s * d \in Nat /\ s * a \in Nat
    OBVIOUS
  <1>3. s * b = s * a + s * d /\ s * (a + 1) = s * a + s
    BY <1>1
  <1> QED
    BY <1>2, <1>3

(* The bound on the silence is what an object without rivals may wait *)
LEMMA WaitConstants ==
    /\ FirstWait \in Nat /\ LongestStep \in Nat /\ LongestDelay \in Nat /\ EdgeTime \in Nat
    /\ Cardinality(Things) \in Nat
    /\ EdgeTime + LongestStep <= FirstWait /\ LongestDelay <= FirstWait
    /\ EdgeTime + LongestStep + LongestDelay = FirstWait
    /\ LongestSilence = FirstWait + LongestStep * Cardinality(Things)
    /\ LongestSilence \in Nat /\ FirstWait <= LongestSilence
  <1> DEFINE t == Cardinality(Things)
  <1>1. /\ LongestStep \in Nat /\ LongestDelay \in Nat /\ EdgeTime \in Nat /\ t \in Nat
        /\ LongestSilence = EdgeTime + LongestDelay + (t + 1) * LongestStep
    BY SilenceConstants
  <1>2. FirstWait = EdgeTime + LongestStep + LongestDelay
    BY DEF FirstWait
  <1> HIDE DEF t
  <1>3. (t + 1) * LongestStep = LongestStep * t + LongestStep /\ LongestStep * t \in Nat
    BY <1>1
  <1> QED
    BY <1>1, <1>2, <1>3 DEF t

(* What an object waits at most by the invariant *)
LEMMA RivalsDoNotStop ==
    ASSUME PassiveInv, NEW o \in Things, NEW left, Lists(m_detectedObjects, o, left), left <= 0
    PROVE  unseen[o] <= FirstWait
                          + LongestStep * (Others(m_detectedObjects, o, left, unseen[o])
                                             - (IF Midway THEN 0 ELSE 1))
  <1>1. left \in Int
    BY ListedOnce DEF PassiveInv, PassiveTypes
  <1> QED
    BY <1>1 DEF PassiveInv, WaitsForRivals

(* An object that is in range is listed and due in time, or about to be listed: its silence is
   bounded (proceed() of PassiveScanner). *)
THEOREM PassiveInvSuffices == PassiveInv => NobodyIsOverlooked
  <1> SUFFICES ASSUME PassiveInv, NEW o \in Things PROVE unseen[o] <= LongestSilence
    BY DEF NobodyIsOverlooked
  <1>1. unseen[o] \in Nat /\ Ordered(m_detectedObjects)
    BY DEF PassiveInv, PassiveTypes
  <1>2. CASE Unlisted(m_detectedObjects, o)
    <2>1. unseen[o] <= EdgeTime + (IF Midway THEN LongestStep ELSE 0)
      BY <1>2 DEF PassiveInv, WaitsForScan
    <2> QED
      BY <1>1, <2>1, WaitConstants
  <1>3. ASSUME NEW left, Lists(m_detectedObjects, o, left) PROVE unseen[o] <= LongestSilence
    <2>1. left \in Int
      BY <1>1, <1>3, ListedOnce
    <2>2. CASE 0 < left
      <3>1. unseen[o] + left <= FirstWait
        BY <1>3, <2>1, <2>2 DEF PassiveInv, WaitsForTime
      <3> QED
        BY <1>1, <2>1, <2>2, <3>1, WaitConstants
    <2>3. CASE left <= 0
      <3> DEFINE k == Others(m_detectedObjects, o, left, unseen[o])
                 j == k - (IF Midway THEN 0 ELSE 1)
                 t == Cardinality(Things)
      <3>1. unseen[o] <= FirstWait + LongestStep * j
        BY <1>3, <2>3, RivalsDoNotStop
      <3>2. k \in 1 .. t
        BY RivalsAreFew
      <3> HIDE DEF k, t
      <3>3. t \in Nat /\ FirstWait \in Nat /\ LongestStep \in Nat /\ LongestSilence = FirstWait + LongestStep * t
        BY WaitConstants DEF t
      <3>4. j \in Nat /\ j <= t
        BY <3>2, <3>3
      <3> HIDE DEF j
      <3>5. LongestStep * j <= LongestStep * t /\ LongestStep * j \in Nat /\ LongestStep * t \in Nat
        BY <3>3, <3>4, Turns
      <3> QED
        BY <1>1, <3>1, <3>3, <3>5
    <2> QED
      BY <2>1, <2>2, <2>3
  <1> QED
    BY <1>2, <1>3 DEF Unlisted

(* The smaller and the greater of two *)
LEMMA OfTwo ==
    ASSUME NEW a \in Int, NEW b \in Int
    PROVE  /\ Max({a, b}) = IF b <= a THEN a ELSE b
           /\ Min({a, b}) = IF a <= b THEN a ELSE b
  <1>1. \A c \in {a, b} : (\A d \in {a, b} : c >= d) <=> c = IF b <= a THEN a ELSE b
    OBVIOUS
  <1>2. \A c \in {a, b} : (\A d \in {a, b} : c <= d) <=> c = IF a <= b THEN a ELSE b
    OBVIOUS
  <1>3. Max({a, b}) = IF b <= a THEN a ELSE b
    BY <1>1 DEF Max
  <1>4. Min({a, b}) = IF a <= b THEN a ELSE b
    BY <1>2 DEF Min
  <1> QED
    BY <1>3, <1>4

(* The time to a report dt later *)
Later(left, dt) == IF left - dt >= -OverdueBound THEN left - dt ELSE -OverdueBound

(* The list dt later *)
Older(v, dt) == [i \in DOMAIN v |-> [v[i] EXCEPT !.left = Max({@ - dt, -OverdueBound})]]

(* Time passes for all items of a list, and their order stays. *)
LEMMA ListGetsOlder ==
    ASSUME NEW v, Ordered(v), NEW dt \in Nat
    PROVE  /\ Ordered(Older(v, dt))
           /\ \A o, left : Lists(v, o, left) => Lists(Older(v, dt), o, Later(left, dt))
           /\ \A o, left : Lists(Older(v, dt), o, left) =>
                \E l \in Int : Lists(v, o, l) /\ left = Later(l, dt)
  <1> DEFINE w == Older(v, dt)
  <1>1. OverdueBound \in Nat
    BY WaitConstants DEF OverdueBound
  <1>2. /\ Len(v) \in Nat /\ DOMAIN v = 1 .. Len(v)
        /\ \A i \in 1 .. Len(v) : v[i] \in Items /\ v[i].id \in Things /\ v[i].left \in Int
        /\ \A i, j \in 1 .. Len(v) : v[i].id = v[j].id => i = j
        /\ \A i, j \in 1 .. Len(v) : i <= j => v[i].left <= v[j].left
    BY OrderedFacts
  <1>3. ASSUME NEW l \in Int PROVE Max({l - dt, -OverdueBound}) = Later(l, dt) /\ Later(l, dt) \in Int
    <2>1. l - dt \in Int /\ -OverdueBound \in Int
      BY <1>1
    <2> QED
      BY <2>1, OfTwo DEF Later
  <1>4. ASSUME NEW a \in Int, NEW b \in Int, a <= b PROVE Later(a, dt) <= Later(b, dt)
    BY <1>1, <1>4 DEF Later
  <1>5. /\ DOMAIN w = 1 .. Len(v) /\ w = [i \in 1 .. Len(v) |-> w[i]]
        /\ \A i \in 1 .. Len(v) : w[i] = [v[i] EXCEPT !.left = Max({v[i].left - dt, -OverdueBound})]
    BY <1>2 DEF Older
  <1> HIDE DEF w
  <1>6. ASSUME NEW i \in 1 .. Len(v)
        PROVE  w[i] \in Items /\ w[i].id = v[i].id /\ w[i].left = Later(v[i].left, dt)
    <2>1. w[i] = [v[i] EXCEPT !.left = Max({v[i].left - dt, -OverdueBound})]
      BY <1>5
    <2> DEFINE n == Max({v[i].left - dt, -OverdueBound})
    <2>2. n = Later(v[i].left, dt) /\ n \in Int
      BY <1>2, <1>3
    <2> HIDE DEF n
    <2>3. w[i] = [v[i] EXCEPT !.left = n] /\ v[i] \in [id : Things, left : Int]
      BY <1>2, <2>1 DEF n, Items
    <2>4. w[i] \in Items /\ w[i].id = v[i].id /\ w[i].left = n
      BY <2>2, <2>3 DEF Items
    <2> QED
      BY <2>2, <2>4
  <1>7. w \in Seq(Items) /\ Len(w) = Len(v)
    <2>1. \A i \in 1 .. Len(v) : w[i] \in Items
      BY <1>6
    <2>2. w \in [1 .. Len(v) -> Items]
      BY <1>5, <2>1
    <2>3. Len(v) \in Nat
      BY <1>2
    <2>4. w \in Seq(Items)
      BY <2>2, <2>3
    <2>5. Len(w) = Len(v)
      BY <1>5, <2>3, <2>4
    <2> QED
      BY <2>4, <2>5
  <1>8. Ordered(w)
    <2>1. ASSUME NEW i \in 1 .. Len(w), NEW j \in 1 .. Len(w), i < j
          PROVE  w[i].id # w[j].id /\ w[i].left <= w[j].left
      <3>1. /\ i \in 1 .. Len(v) /\ j \in 1 .. Len(v) /\ i # j /\ i <= j
            /\ v[i].left \in Int /\ v[j].left \in Int
        BY <1>2, <1>7, <2>1
      <3>2. v[i].left <= v[j].left /\ v[i].id # v[j].id
        BY <1>2, <3>1
      <3> QED
        BY <1>4, <1>6, <3>1, <3>2
    <2> QED
      BY <1>7, <2>1 DEF Ordered
  <1>9. ASSUME NEW o, NEW left, Lists(v, o, left) PROVE Lists(w, o, Later(left, dt))
    BY <1>6, <1>7, <1>9 DEF Lists
  <1>10. ASSUME NEW o, NEW left, Lists(w, o, left)
         PROVE  \E l \in Int : Lists(v, o, l) /\ left = Later(l, dt)
    <2>1. PICK i \in 1 .. Len(v) : w[i].id = o /\ w[i].left = left
      BY <1>7, <1>10 DEF Lists
    <2>2. Lists(v, o, v[i].left) /\ left = Later(v[i].left, dt) /\ v[i].left \in Int
      BY <1>2, <1>6, <2>1 DEF Lists
    <2> QED
      BY <2>2
  <1> QED
    BY <1>8, <1>9, <1>10 DEF w

(* While an object waits for its rivals and time goes on, it gets no new ones *)
LEMMA NoNewRivals ==
    ASSUME NEW v, Ordered(v), NEW dt \in Nat, NEW o, NEW left \in Int, NEW u \in Nat, u + dt <= OverdueBound
    PROVE  Rivals(Older(v, dt), o, Later(left, dt), u + dt) \subseteq Rivals(v, o, left, u)
  <1> SUFFICES ASSUME NEW x \in Rivals(Older(v, dt), o, Later(left, dt), u + dt) PROVE x \in Rivals(v, o, left, u)
    OBVIOUS
  <1>1. OverdueBound \in Nat
    BY WaitConstants DEF OverdueBound
  <1>2. PICK m : Lists(Older(v, dt), x, m) /\ (m <= Later(left, dt) \/ m <= -(u + dt))
    BY DEF Rivals
  <1>3. PICK l \in Int : Lists(v, x, l) /\ m = Later(l, dt)
    BY <1>2, ListGetsOlder
  <1>4. l - dt <= m
    BY <1>1, <1>3 DEF Later
  <1>5. m <= Later(left, dt) => l <= left \/ l <= -u
    <2>1. CASE left - dt >= -OverdueBound
      BY <1>1, <1>3, <1>4, <2>1 DEF Later
    <2>2. CASE ~(left - dt >= -OverdueBound)
      BY <1>1, <1>3, <1>4, <2>2 DEF Later
    <2> QED
      BY <2>1, <2>2
  <1>6. m <= -(u + dt) => l <= -u
    BY <1>1, <1>3, <1>4 DEF Later
  <1>7. x \in Things \ {o}
    BY DEF Rivals
  <1> QED
    BY <1>2, <1>3, <1>5, <1>6, <1>7 DEF Rivals

(* A cycle begins *)
LEMMA BeginPassiveKeeps ==
    ASSUME PassiveInv, NEW dt \in Steps, BeginPassive(dt) PROVE PassiveInv'
  <1> DEFINE v == m_detectedObjects
             w == Older(v, dt)
             t == Cardinality(Things)
  <1>1. dt \in Nat /\ dt <= LongestStep
    BY SilenceConstants
  <1>2. /\ inRange \subseteq Things /\ scanAge \in 0 .. (EdgeTime + 1)
        /\ unseen \in [Things -> Nat] /\ Ordered(v)
        /\ \A o, left : Lists(v, o, left) => left <= LongestDelay
    BY DEF PassiveInv, PassiveTypes
  <1>3. /\ pphase = "receive" /\ pphase' = "handle" /\ inRange' \subseteq Things
        /\ scanAge' = Min({scanAge + dt, EdgeTime + 1})
        /\ m_detectedObjects' = w /\ busy' = busy
        /\ unseen' = [o \in Things |->
               IF busy /\ o \in inRange \cap inRange' THEN Min({unseen[o] + dt, LongestSilence + 1}) ELSE 0]
    BY DEF BeginPassive, Older
  <1>4. ~Midway /\ Midway'
    BY <1>3 DEF Midway
  <1>5. /\ Ordered(w)
        /\ \A o, left : Lists(v, o, left) => Lists(w, o, Later(left, dt))
        /\ \A o, left : Lists(w, o, left) => \E l \in Int : Lists(v, o, l) /\ left = Later(l, dt)
    BY <1>1, <1>2, ListGetsOlder
  <1>6. /\ FirstWait \in Nat /\ LongestStep \in Nat /\ LongestDelay \in Nat /\ EdgeTime \in Nat /\ t \in Nat
        /\ EdgeTime + LongestStep <= FirstWait /\ LongestDelay <= FirstWait
        /\ LongestSilence = FirstWait + LongestStep * t /\ LongestSilence \in Nat
        /\ OverdueBound = LongestSilence
    BY WaitConstants DEF OverdueBound
  <1> HIDE DEF w, v, t
  <1>7. /\ scanAge' \in 0 .. (EdgeTime + 1)
        /\ scanAge' <= EdgeTime => scanAge <= EdgeTime /\ scanAge' = scanAge + dt
    <2>1. scanAge' = IF scanAge + dt <= EdgeTime + 1 THEN scanAge + dt ELSE EdgeTime + 1
      <3>1. scanAge + dt \in Int /\ EdgeTime + 1 \in Int
        BY <1>1, <1>2, <1>6
      <3> QED
        BY <1>3, <3>1, OfTwo
    <2> QED
      BY <1>1, <1>2, <1>6, <2>1
  <1>8. ASSUME NEW o \in Things
        PROVE  /\ unseen[o] \in Nat /\ unseen'[o] \in Nat
               /\ unseen'[o] = 0 \/ unseen'[o] = unseen[o] + dt
                  \/ (unseen[o] + dt > LongestSilence /\ unseen'[o] <= unseen[o] + dt)
               /\ unseen'[o] <= unseen[o] + dt
               /\ (~busy \/ o \notin inRange') => unseen'[o] = 0
    <2>1. unseen[o] \in Nat
      BY <1>2
    <2>2. unseen'[o] = IF busy /\ o \in inRange \cap inRange' THEN Min({unseen[o] + dt, LongestSilence + 1}) ELSE 0
      BY <1>3
    <2>3. Min({unseen[o] + dt, LongestSilence + 1})
             = IF unseen[o] + dt <= LongestSilence + 1 THEN unseen[o] + dt ELSE LongestSilence + 1
      <3>1. unseen[o] + dt \in Int /\ LongestSilence + 1 \in Int
        BY <1>1, <1>6, <2>1
      <3> QED
        BY <3>1, OfTwo
    <2> QED
      BY <1>1, <1>6, <2>1, <2>2, <2>3
  <1>9. ASSUME NEW o, NEW left, Lists(w, o, left)
        PROVE  left <= LongestDelay
    <2>1. PICK l \in Int : Lists(v, o, l) /\ left = Later(l, dt)
      BY <1>5, <1>9
    <2>2. l <= LongestDelay
      BY <1>2, <2>1
    <2> QED
      BY <1>1, <1>6, <2>1, <2>2 DEF Later
  <1>10. unseen' \in [Things -> Nat]
    <2>1. \A o \in Things : unseen'[o] \in Nat
      BY <1>8
    <2> QED
      BY <1>3, <2>1
  <1>11. PassiveTypes'
    BY <1>3, <1>5, <1>7, <1>9, <1>10 DEF PassiveTypes
  <1>12. NobodyWaitsIdly'
    BY <1>3, <1>8 DEF NobodyWaitsIdly
  <1>13. WaitsForScan'
    <2> SUFFICES ASSUME NEW o \in Things, Unlisted(w, o)
                 PROVE  /\ unseen'[o] <= EdgeTime + LongestStep
                        /\ scanAge' <= EdgeTime => unseen'[o] <= scanAge'
      BY <1>3, <1>4 DEF WaitsForScan
    <2>1. Unlisted(v, o)
      BY <1>5 DEF Unlisted
    <2>2. unseen[o] <= EdgeTime /\ (scanAge <= EdgeTime => unseen[o] <= scanAge)
      BY <1>4, <1>6, <2>1 DEF PassiveInv, WaitsForScan, v
    <2>3. unseen'[o] <= EdgeTime + LongestStep
      BY <1>1, <1>6, <1>8, <2>2
    <2>4. scanAge' <= EdgeTime => unseen'[o] <= scanAge'
      BY <1>1, <1>2, <1>7, <1>8, <2>2
    <2> QED
      BY <2>3, <2>4
  <1>14. WaitsForTime'
    <2> SUFFICES ASSUME NEW o \in Things, NEW left \in Int, Lists(w, o, left), 0 < left
                 PROVE  unseen'[o] + left <= FirstWait
      BY <1>3 DEF WaitsForTime
    <2>1. PICK l \in Int : Lists(v, o, l) /\ left = Later(l, dt)
      BY <1>5
    <2>2. left = l - dt /\ 0 < l
      BY <1>1, <1>6, <2>1 DEF Later
    <2>3. unseen[o] + l <= FirstWait
      BY <2>1, <2>2 DEF PassiveInv, WaitsForTime, v
    <2> QED
      BY <1>1, <1>6, <1>8, <2>2, <2>3
  <1>15. WaitsForRivals'
    <2> SUFFICES ASSUME NEW o \in Things, NEW left \in Int, Lists(w, o, left), left <= 0
                 PROVE  unseen'[o] <= FirstWait + LongestStep * Others(w, o, left, unseen'[o])
      <3>1. \A o \in Things, left \in Int : Others(w, o, left, unseen'[o]) \in 1 .. t
        BY RivalsAreFew DEF t
      <3>2. \A o \in Things, left \in Int : Others(w, o, left, unseen'[o]) - 0 = Others(w, o, left, unseen'[o])
        BY <3>1, <1>6
      <3> QED
        BY <1>3, <1>4, <3>2 DEF WaitsForRivals
    <2> DEFINE k == Others(w, o, left, unseen'[o])
               u == unseen[o]
    <2>1. k \in 1 .. t
      BY RivalsAreFew DEF t
    <2>2. PICK l \in Int : Lists(v, o, l) /\ left = Later(l, dt)
      BY <1>5
    <2>3. u \in Nat /\ unseen'[o] \in Nat /\ unseen'[o] <= u + dt
      BY <1>8
    <2>4. LongestStep <= LongestStep * k /\ LongestStep * k \in Nat
      <3> HIDE DEF k
      <3>1. 1 \in Nat /\ k \in Nat /\ 1 <= k /\ LongestStep * 1 = LongestStep
        BY <1>6, <2>1
      <3>2. LongestStep * 1 <= LongestStep * k
        BY <1>6, <3>1, Turns
      <3> QED
        BY <1>6, <3>1, <3>2
    <2>5. CASE 0 < l
      <3>1. u + l <= FirstWait
        BY <2>2, <2>5 DEF PassiveInv, WaitsForTime, v
      <3> HIDE DEF k, u
      <3> QED
        BY <1>1, <1>6, <2>3, <2>4, <2>5, <3>1 DEF k
    <2>6. CASE l <= 0
      <3> DEFINE j == Others(v, o, l, u)
      <3>1. j \in 1 .. t
        BY RivalsAreFew DEF t
      <3>2. u <= FirstWait + LongestStep * (j - 1)
        BY <1>4, <2>2, <2>6 DEF PassiveInv, WaitsForRivals, v
      <3>3. j - 1 \in Nat /\ j \in Nat /\ (j - 1) + 1 = j /\ j <= t
        <4> HIDE DEF j
        <4> QED
          BY <1>6, <3>1
      <3> HIDE DEF j, u
      <3>4. LongestStep * j = LongestStep * (j - 1) + LongestStep /\ LongestStep * (j - 1) \in Nat
        <4> DEFINE i == j - 1
        <4>1. i \in Nat /\ i + 1 = j
          BY <3>3
        <4> HIDE DEF i
        <4>2. LongestStep * (i + 1) = LongestStep * i + LongestStep /\ LongestStep * i \in Nat
          BY <1>6, <4>1, Turns
        <4> QED
          BY <4>1, <4>2 DEF i
      <3>5. u + dt <= FirstWait + LongestStep * j
        BY <1>1, <1>6, <2>3, <3>2, <3>4
      <3>6. LongestStep * j <= LongestStep * t /\ LongestStep * j \in Nat /\ LongestStep * t \in Nat
        BY <1>6, <3>3, Turns
      <3>7. u + dt <= LongestSilence
        BY <1>1, <1>6, <2>3, <3>5, <3>6
      <3>8. unseen'[o] = 0 \/ unseen'[o] = u + dt
        BY <1>1, <1>6, <1>8, <2>3, <3>7 DEF u
      <3>9. CASE unseen'[o] = 0
        <4> HIDE DEF k
        <4> QED
          BY <1>6, <2>4, <3>9 DEF k
      <3>10. CASE unseen'[o] = u + dt
        <4>1. Rivals(w, o, left, unseen'[o]) \subseteq Rivals(v, o, l, u)
          BY <1>1, <1>2, <1>6, <2>2, <2>3, <3>7, <3>10, NoNewRivals DEF w
        <4>2. j <= k
          BY <4>1, RivalsLost DEF j
        <4> HIDE DEF k
        <4>3. k \in Nat
          BY <1>6, <2>1
        <4>4. LongestStep * j <= LongestStep * k
          BY <1>6, <3>3, <4>2, <4>3, Turns
        <4> QED
          BY <1>1, <1>6, <2>3, <2>4, <3>5, <3>6, <3>10, <4>4 DEF k
      <3> QED
        BY <3>8, <3>9, <3>10
    <2> QED
      BY <2>5, <2>6
  <1> QED
    BY <1>11, <1>12, <1>13, <1>14, <1>15 DEF PassiveInv

(* The scanner works, or the cycle passes it by *)
LEMMA ProceedScannerKeeps ==
    ASSUME PassiveInv, NEW delay \in [Things -> Delays], ProceedScanner(delay) PROVE PassiveInv'
  <1> DEFINE v == m_detectedObjects
             t == Cardinality(Things)
  <1>1. PICK items \in IF scanAge > EdgeTime THEN Scanned(delay) ELSE {v} :
              /\ pphase = "proceed" /\ busy
              /\ m_detectedObjects' = Updates(items, delay).list
              /\ scanAge' = IF scanAge > EdgeTime THEN 0 ELSE scanAge
              /\ unseen' = [o \in Things |-> IF o \in Updates(items, delay).reported THEN 0 ELSE unseen[o]]
              /\ pphase' \in {"receive", "crashed"} /\ inRange' = inRange
    BY DEF ProceedScanner
  <1>2. /\ inRange \subseteq Things /\ scanAge \in 0 .. (EdgeTime + 1)
        /\ unseen \in [Things -> Nat] /\ Ordered(v)
        /\ \A o, left : Lists(v, o, left) => left <= LongestDelay
    BY DEF PassiveInv, PassiveTypes
  <1>3. Midway /\ ~Midway'
    BY <1>1 DEF Midway
  <1>4. /\ Ordered(items)
        /\ \A o, left : Lists(items, o, left)
             => \/ Lists(v, o, left)
                \/ left \in 1 .. LongestDelay /\ \A m : ~Lists(v, o, m)
        /\ scanAge > EdgeTime => \A o \in inRange : \E left : Lists(items, o, left)
        /\ ~(scanAge > EdgeTime) => items = v
    BY <1>1, <1>2, ScanKeeps
  <1> DEFINE s == Updates(items, delay)
             w == s.list
             R == s.reported
  <1>5. LoopSoFar(items, s) /\ ~IsDue(s)
    BY <1>4, LoopResult
  <1>6. /\ FirstWait \in Nat /\ LongestStep \in Nat /\ LongestDelay \in Nat /\ EdgeTime \in Nat /\ t \in Nat
        /\ EdgeTime + LongestStep + LongestDelay = FirstWait
        /\ EdgeTime + LongestStep <= FirstWait /\ LongestDelay <= FirstWait
    BY WaitConstants
  <1>7. /\ pphase' \in {"receive", "crashed"} /\ inRange' = inRange /\ m_detectedObjects' = w
        /\ scanAge' = IF scanAge > EdgeTime THEN 0 ELSE scanAge
        /\ unseen' = [o \in Things |-> IF o \in R THEN 0 ELSE unseen[o]]
    BY <1>1
  <1> HIDE DEF s, v, t
  <1>8. /\ Ordered(w) /\ R \subseteq inRange
        /\ \A o, left : Lists(w, o, left) => IF o \in R THEN left \in 1 .. LongestDelay ELSE Lists(items, o, left)
        /\ \A o, left : Lists(items, o, left) /\ o \in inRange => o \in R \/ Lists(w, o, left)
    BY <1>5 DEF LoopSoFar
  <1>9. \A o, left : Lists(w, o, left) /\ left <= 0
          => \E x \in R, m \in Int : x # o /\ m <= left /\ Lists(items, x, m)
    BY <1>5, SomeoneWentFirst
  <1> HIDE DEF w, R
  <1>10. ASSUME NEW o \in Things
         PROVE  /\ unseen[o] \in Nat /\ unseen'[o] \in Nat
                /\ o \in R => unseen'[o] = 0
                /\ o \notin R => unseen'[o] = unseen[o]
    BY <1>2, <1>7
  <1>11. scanAge' \in 0 .. (EdgeTime + 1)
    BY <1>2, <1>6, <1>7
  (* who is listed now was listed before, or is reported or new *)
  <1>12. ASSUME NEW o, NEW left \in Int, Lists(w, o, left)
         PROVE  \/ left \in 1 .. LongestDelay /\ (o \in R \/ Unlisted(v, o))
                \/ o \notin R /\ Lists(v, o, left)
    <2>1. CASE o \in R
      BY <1>8, <1>12, <2>1
    <2>2. CASE o \notin R
      BY <1>4, <1>8, <1>12, <2>2 DEF Unlisted
    <2> QED
      BY <2>1, <2>2
  <1>13. \A o, left : Lists(w, o, left) => left \in Int /\ left <= LongestDelay
    <2> SUFFICES ASSUME NEW o, NEW left, Lists(w, o, left) PROVE left \in Int /\ left <= LongestDelay
      OBVIOUS
    <2>1. left \in Int
      BY <1>8, ListedOnce
    <2> QED
      BY <1>2, <1>6, <1>12, <2>1
  <1>14. PassiveTypes'
    <2>1. unseen' \in [Things -> Nat]
      <3>1. \A o \in Things : unseen'[o] \in Nat
        BY <1>10
      <3> QED
        BY <1>7, <3>1
    <2> QED
      BY <1>2, <1>7, <1>8, <1>11, <1>13, <2>1 DEF PassiveTypes
  <1>15. NobodyWaitsIdly'
    <2>1. ASSUME NEW o \in Things, o \notin inRange PROVE unseen'[o] = 0
      <3>1. unseen[o] = 0
        BY <2>1 DEF PassiveInv, NobodyWaitsIdly
      <3> QED
        BY <1>10, <3>1
    <2> QED
      BY <1>3, <1>7, <2>1 DEF NobodyWaitsIdly
  <1>16. WaitsForScan'
    <2> SUFFICES ASSUME NEW o \in Things, Unlisted(w, o)
                 PROVE  unseen'[o] <= EdgeTime /\ (scanAge' <= EdgeTime => unseen'[o] <= scanAge')
      <3>1. \A o \in Things : unseen'[o] <= EdgeTime => unseen'[o] <= EdgeTime + 0
        BY <1>6, <1>10
      <3> QED
        BY <1>3, <1>7, <3>1 DEF WaitsForScan
    <2>1. CASE unseen'[o] = 0
      BY <1>6, <1>11, <2>1
    <2>2. CASE unseen'[o] # 0
      <3>1. o \notin R /\ unseen'[o] = unseen[o]
        BY <1>10, <2>2
      <3>2. o \in inRange
        BY <2>2, <3>1 DEF PassiveInv, NobodyWaitsIdly
      <3>3. \A left : ~Lists(items, o, left)
        BY <1>8, <3>1, <3>2 DEF Unlisted
      <3>4. ~(scanAge > EdgeTime) /\ items = v
        BY <1>4, <3>2, <3>3
      <3>5. Unlisted(v, o) /\ scanAge <= EdgeTime /\ scanAge' = scanAge
        BY <1>2, <1>6, <1>7, <3>3, <3>4 DEF Unlisted
      <3>6. unseen[o] <= scanAge
        BY <3>5 DEF PassiveInv, WaitsForScan, v
      <3> QED
        BY <1>2, <1>6, <1>10, <3>1, <3>5, <3>6
    <2> QED
      BY <2>1, <2>2
  <1>17. WaitsForTime'
    <2> SUFFICES ASSUME NEW o \in Things, NEW left \in Int, Lists(w, o, left), 0 < left
                 PROVE  unseen'[o] + left <= FirstWait
      BY <1>7 DEF WaitsForTime
    <2>1. left <= LongestDelay
      BY <1>13
    <2>2. CASE o \in R
      BY <1>6, <1>10, <2>1, <2>2
    <2>3. CASE o \notin R
      <3>1. CASE Lists(v, o, left)
        <4>1. unseen[o] + left <= FirstWait
          BY <3>1 DEF PassiveInv, WaitsForTime, v
        <4> QED
          BY <1>10, <2>3, <4>1
      <3>2. CASE Unlisted(v, o)
        <4>1. unseen[o] <= EdgeTime + LongestStep
          BY <1>3, <3>2 DEF PassiveInv, WaitsForScan, v
        <4> QED
          BY <1>6, <1>10, <2>1, <2>3, <4>1
      <3> QED
        BY <1>12, <2>3, <3>1, <3>2
    <2> QED
      BY <2>2, <2>3
  <1>18. WaitsForRivals'
    <2> SUFFICES ASSUME NEW o \in Things, NEW left \in Int, Lists(w, o, left), left <= 0
                 PROVE  unseen'[o] <= FirstWait + LongestStep * (Others(w, o, left, unseen'[o]) - 1)
      BY <1>3, <1>7 DEF WaitsForRivals
    <2>1. left \notin 1 .. LongestDelay
      BY <1>6
    <2>2. o \notin R /\ Lists(v, o, left)
      BY <1>12, <2>1
    <2>3. unseen'[o] = unseen[o]
      BY <1>10, <2>2
    <2> DEFINE u == unseen[o]
               j == Others(v, o, left, u)
               k == Others(w, o, left, u)
    <2>4. PICK x \in R, m \in Int : x # o /\ m <= left /\ Lists(items, x, m)
      BY <1>9
    <2>5. m \notin 1 .. LongestDelay
      BY <1>6, <2>4
    <2>6. x \in Rivals(v, o, left, u)
      <3>1. x \in Things
        BY <1>2, <1>8, <2>4
      <3>2. Lists(v, x, m)
        BY <1>4, <2>4, <2>5
      <3> QED
        BY <2>4, <3>1, <3>2 DEF Rivals
    <2>7. ASSUME NEW y \in Rivals(w, o, left, u) PROVE y \in Rivals(v, o, left, u) /\ y # x
      <3>1. PICK l : Lists(w, y, l) /\ (l <= left \/ l <= -u)
        BY DEF Rivals
      <3>2. l \in Int /\ u \in Nat
        BY <1>10, <1>13, <3>1
      <3>3. l \notin 1 .. LongestDelay
        BY <1>6, <3>1, <3>2
      <3>4. y \notin R /\ Lists(v, y, l)
        BY <1>12, <3>1, <3>2, <3>3
      <3>5. y \in Things \ {o}
        BY DEF Rivals
      <3> QED
        BY <2>4, <3>1, <3>4, <3>5 DEF Rivals
    <2>8. j <= k - 1
      <3>1. Rivals(w, o, left, u) \subseteq Rivals(v, o, left, u) /\ x \notin Rivals(w, o, left, u)
        BY <2>7
      <3> HIDE DEF u
      <3> QED
        BY <2>6, <3>1, RivalsLost
    <2>9. u <= FirstWait + LongestStep * j
      <3>1. j - 0 = j
        <4>1. j \in 1 .. t
          BY RivalsAreFew DEF t
        <4> HIDE DEF j
        <4> QED
          BY <4>1, <1>6
      <3>2. u <= FirstWait + LongestStep * (j - 0)
        BY <1>3, <2>2 DEF PassiveInv, WaitsForRivals, v
      <3> QED
        BY <3>1, <3>2
    <2>10. j \in 1 .. t /\ k \in 1 .. t /\ u \in Nat
      BY <1>10, RivalsAreFew DEF t
    <2> HIDE DEF u, j, k
    <2>11. j \in Nat /\ k - 1 \in Nat
      BY <1>6, <2>10
    <2>12. LongestStep * j <= LongestStep * (k - 1) /\ LongestStep * j \in Nat
      BY <1>6, <2>8, <2>11, Turns
    <2> DEFINE a == LongestStep * j
               b == LongestStep * (k - 1)
    <2>13. b \in Nat
      BY <1>6, <2>11, Turns
    <2>14. u <= FirstWait + b
      <3>1. a \in Nat /\ a <= b /\ u <= FirstWait + a
        BY <2>9, <2>12
      <3> HIDE DEF a, b
      <3> QED
        BY <1>6, <2>10, <2>13, <3>1
    <2> QED
      BY <2>3, <2>14 DEF u, k
  <1> QED
    BY <1>14, <1>15, <1>16, <1>17, <1>18 DEF PassiveInv

(* A scanner that is not due is skipped by the commutator. *)
LEMMA SkipScannerKeeps ==
    ASSUME PassiveInv, SkipScanner PROVE PassiveInv'
  <1>1. /\ pphase = "proceed" /\ ~busy /\ pphase' = "receive"
        /\ UNCHANGED <<inRange, busy, scanAge, m_detectedObjects, unseen>>
    BY DEF SkipScanner
  <1>2. Midway /\ ~Midway'
    BY <1>1 DEF Midway
  <1>3. \A o \in Things : unseen[o] = 0 /\ unseen'[o] = 0
    BY <1>1, <1>2 DEF PassiveInv, NobodyWaitsIdly
  <1>4. PassiveTypes' /\ NobodyWaitsIdly'
    BY <1>1, <1>2, <1>3 DEF PassiveInv, PassiveTypes, NobodyWaitsIdly
  <1>5. /\ FirstWait \in Nat /\ LongestStep \in Nat /\ EdgeTime \in Nat /\ Cardinality(Things) \in Nat
        /\ scanAge \in 0 .. (EdgeTime + 1)
    BY WaitConstants DEF PassiveInv, PassiveTypes
  <1>6. WaitsForScan'
    <2>1. 0 <= EdgeTime + 0 /\ 0 <= scanAge
      BY <1>5
    <2> QED
      BY <1>1, <1>2, <1>3, <2>1 DEF WaitsForScan
  <1>7. WaitsForTime'
    BY <1>1 DEF PassiveInv, WaitsForTime
  <1>8. WaitsForRivals'
    <2> SUFFICES ASSUME NEW o \in Things, NEW left \in Int
                 PROVE  0 <= FirstWait + LongestStep * (Others(m_detectedObjects, o, left, 0) - 1)
      BY <1>1, <1>2, <1>3 DEF WaitsForRivals
    <2> DEFINE j == Others(m_detectedObjects, o, left, 0) - 1
               b == LongestStep * j
    <2>1. j \in Nat
      <3>1. Others(m_detectedObjects, o, left, 0) \in 1 .. Cardinality(Things)
        BY RivalsAreFew
      <3> QED
        BY <1>5, <3>1
    <2> HIDE DEF j
    <2>2. b \in Nat
      BY <1>5, <2>1, Turns
    <2> HIDE DEF b
    <2>3. 0 <= FirstWait + b
      BY <1>5, <2>2
    <2> QED
      BY <2>3 DEF b, j
  <1> QED
    BY <1>4, <1>6, <1>7, <1>8 DEF PassiveInv

(* Nothing the invariant speaks of changes *)
LEMMA WatchUnchanged ==
    ASSUME PassiveInv, pphase' \in {"receive", "handle", "proceed", "crashed"}, Midway' = Midway,
           busy => busy', UNCHANGED <<inRange, scanAge, m_detectedObjects, unseen>>
    PROVE  PassiveInv'
  <1>1. PassiveTypes' /\ NobodyWaitsIdly'
    BY DEF PassiveInv, PassiveTypes, NobodyWaitsIdly
  <1>2. WaitsForScan' /\ WaitsForTime'
    BY DEF PassiveInv, WaitsForScan, WaitsForTime
  <1>3. WaitsForRivals'
    BY DEF PassiveInv, WaitsForRivals
  <1> QED
    BY <1>1, <1>2, <1>3 DEF PassiveInv

(* Every step of the scanner keeps the invariant. *)
LEMMA PassiveStep ==
    ASSUME PassiveInv, [PassiveNext]_passiveVars PROVE PassiveInv'
  <1>1. pphase \in {"receive", "handle", "proceed", "crashed"}
    BY DEF PassiveInv, PassiveTypes
  <1>2. ASSUME NEW s \in Viewers, RequestUpdates(s) PROVE PassiveInv'
    <2>1. Midway' = Midway
      BY <1>2 DEF RequestUpdates, Midway
    <2> QED
      BY <1>1, <1>2, <2>1, WatchUnchanged DEF RequestUpdates
  <1>3. ASSUME NEW s \in Viewers, CloseViewer(s) PROVE PassiveInv'
    <2>1. Midway' = Midway
      BY <1>3 DEF CloseViewer, Midway
    <2> QED
      BY <1>1, <1>3, <2>1, WatchUnchanged DEF CloseViewer
  <1>4. ASSUME NEW s \in Viewers, HandleMonitorReq(s) PROVE PassiveInv'
    <2>1. Midway' = Midway
      BY <1>4 DEF HandleMonitorReq, Midway
    <2> QED
      BY <1>1, <1>4, <2>1, WatchUnchanged DEF HandleMonitorReq
  <1>5. ASSUME EndHandling PROVE PassiveInv'
    <2>1. Midway' = Midway /\ pphase' = "proceed"
      BY <1>5 DEF EndHandling, Midway
    <2> QED
      BY <1>5, <2>1, WatchUnchanged DEF EndHandling
  <1>6. ASSUME UNCHANGED passiveVars PROVE PassiveInv'
    <2>1. Midway' = Midway
      BY <1>6 DEF passiveVars, Midway
    <2> QED
      BY <1>1, <1>6, <2>1, WatchUnchanged DEF passiveVars
  <1> QED
    BY <1>2, <1>3, <1>4, <1>5, <1>6, BeginPassiveKeeps, ProceedScannerKeeps, SkipScannerKeeps DEF PassiveNext

(* At the start nothing is listed or overlooked. *)
LEMMA PassiveInitHolds == PassiveInit => PassiveInv
  <1> SUFFICES ASSUME PassiveInit PROVE PassiveInv
    OBVIOUS
  <1>1. /\ pphase = "receive" /\ inRange \subseteq Things /\ scanAge = EdgeTime + 1
        /\ m_detectedObjects = <<>> /\ unseen = [o \in Things |-> 0]
    BY DEF PassiveInit
  <1>2. FirstWait \in Nat /\ EdgeTime \in Nat
    BY WaitConstants
  <1>3. Ordered(<<>>) /\ \A o, left : ~Lists(<<>>, o, left)
    BY DEF Ordered, Lists
  <1>4. ~Midway
    BY <1>1 DEF Midway
  <1>5. PassiveTypes
    BY <1>1, <1>2, <1>3 DEF PassiveTypes
  <1>6. NobodyWaitsIdly
    BY <1>1 DEF NobodyWaitsIdly
  <1>7. WaitsForScan
    <2>1. 0 <= EdgeTime + 0 /\ ~(scanAge <= EdgeTime)
      BY <1>1, <1>2
    <2> QED
      BY <1>1, <1>4, <2>1 DEF WaitsForScan
  <1>8. WaitsForTime /\ WaitsForRivals
    BY <1>1, <1>3 DEF WaitsForTime, WaitsForRivals
  <1> QED
    BY <1>5, <1>6, <1>7, <1>8 DEF PassiveInv

(***************************************************************************)
(* However many objects come and go, however often the list is rebuilt and *)
(* however few of the objects are reported in a cycle (proceed() of        *)
(* PassiveScanner): an object that stays in range of a scanner at work is  *)
(* reported at least every LongestSilence.                                 *)
(***************************************************************************)
THEOREM NobodyIsEverOverlooked == PassiveSpec => []NobodyIsOverlooked
  <1>1. PassiveInv /\ [PassiveNext]_passiveVars => PassiveInv'
    BY PassiveStep
  <1> QED
    BY <1>1, PassiveInitHolds, PassiveInvSuffices, PTL DEF PassiveSpec

-----------------------------------------------------------------------------
(* Conversations: what a call has heard and what it is still owed *)

(* A script that reads n messages, one for each of its states, and then is `end` *)
Follows(script, messages, n, end) ==
    \E st : /\ st[0] = script /\ st[n] = end
            /\ \A i \in 1 .. n : /\ st[i - 1] # <<>>
                                 /\ st[i] = AfterHearing(st[i - 1], messages[i].kind)

(* What a call waits for while an activity that it is owed goes on *)
Rest == [CelestialScanner   |-> CelestialScannerCalls.scan,
         AsteroidScanner    |-> Tail(AsteroidScannerCalls.scan),
         ResourceContainer  |-> Tail(ResourceContainerCalls.transfer),
         Shipyard           |-> Tail(ShipyardCalls.build),
         Messanger          |-> Tail(MessangerCalls.request),
         AdministratorPanel |-> AdministratorPanelCalls.proceed]

IsQueue(s) == s \in Seq(ToSet(s))

TasksOf(p) == {t \in tasks : t.peer = p}
NoRequest(p) == \A i \in 1 .. Len(inbox) : inbox[i].peer # p
OnlyRequest(p, name) ==
    \E i \in 1 .. Len(inbox) :
        /\ inbox[i].peer = p /\ inbox[i].id = call[p].id /\ inbox[i].name = name
        /\ \A j \in 1 .. Len(inbox) : inbox[j].peer = p => j = i

(* Nothing can come that the session has not asked for *)
Quiet(p) == TasksOf(p) = {} /\ p \notin watchers

(* All of the messages of a list are those of a call *)
AllOf(messages, id) == \A i \in 1 .. Len(messages) : messages[i].id = id

ListsModules(p) == call[p].name = "getAttachedModulesList"

(* The request has not been handled yet. *)
Asked(p) ==
    /\ pipe[p] = <<>> /\ Quiet(p)
    /\ \/ /\ call[p].script = Calls[device][call[p].name]
          /\ OnlyRequest(p, RequestOf(call[p].name))
       \/ /\ ListsModules(p) /\ call[p].script = ExpectInfos(Len(slots))
          /\ OnlyRequest(p, "allModulesInfo")

(* The number of slots is told, which makes the call ask for the modules. *)
Counted(p) ==
    /\ ListsModules(p) /\ Quiet(p) /\ NoRequest(p)
    /\ Len(pipe[p]) = 1 /\ pipe[p][1].id = call[p].id
    /\ pipe[p][1].kind = "total_slots" /\ pipe[p][1].total = Len(slots)

(* The call is owed an activity that goes on; so far it understands all messages. *)
Served(p) ==
    /\ device \in DOMAIN Rest /\ ~ListsModules(p)
    /\ device = "AdministratorPanel" => call[p].name = "proceed"
    /\ NoRequest(p) /\ p \notin watchers
    /\ \E t : TasksOf(p) = {t} /\ t.id = call[p].id
    /\ AllOf(pipe[p], call[p].id)
    /\ Follows(call[p].script, pipe[p], Len(pipe[p]), Rest[device])

(* The first messages are those of the call and end it, the other ones are not. *)
Ends(script, messages, id) ==
    \E n \in 1 .. Len(messages) :
        /\ Follows(script, messages, n, <<>>)
        /\ \A i \in 1 .. Len(messages) : i <= n <=> messages[i].id = id

(* A call that lists modules and knows their number hears of modules only. *)
OnlyInfos(p) ==
    ListsModules(p) => \A i \in 1 .. Len(pipe[p]) :
                           pipe[p][i].id = call[p].id => pipe[p][i].kind = "module_info"

(* All is told. *)
Told(p) ==
    /\ NoRequest(p) /\ \A t \in TasksOf(p) : t.id # call[p].id
    /\ Ends(call[p].script, pipe[p], call[p].id)
    /\ OnlyInfos(p)

(* Nothing more comes although the call goes on to wait. *)
InVain(p) ==
    /\ MayWaitInVain(p) /\ NoRequest(p) /\ Quiet(p)
    /\ AllOf(pipe[p], call[p].id)
    /\ \E end : end # <<>> /\ Follows(call[p].script, pipe[p], Len(pipe[p]), end)
    /\ OnlyInfos(p)

StageOf(p) == Asked(p) \/ Counted(p) \/ Served(p) \/ Told(p) \/ InVain(p)

(* What a call leaves when it has ended *)
NothingLeft(p) ==
    /\ \A i \in 1 .. Len(pipe[p]) : pipe[p][i].id # call[p].id
    /\ \A i \in 1 .. Len(inbox) : inbox[i].id # call[p].id
    /\ \A t \in tasks : t.id # call[p].id

(* The numbers of calls tell whose request or activity it is. *)
OwnNumber(p) ==
    /\ call[p].id \in 1 .. calls
    /\ \A q \in Peers : call[q].id = call[p].id => q = p
    /\ \A i \in 1 .. Len(inbox) : inbox[i].id = call[p].id => inbox[i].peer = p
    /\ \A t \in tasks : t.id = call[p].id => t.peer = p

CallRecord(c) ==
    /\ c = [name |-> c.name, id |-> c.id, script |-> c.script,
            clean |-> c.clean, mixed |-> c.mixed, late |-> c.late]
    /\ c.clean \in BOOLEAN /\ c.mixed \in BOOLEAN /\ c.late \in BOOLEAN

(* Who waits has made a call. *)
PeersWait == \A p \in Peers : Waiting(p) => p \in peers /\ call[p].id # 0

ConversationTypes ==
    /\ device \in DOMAIN Calls /\ peers \subseteq Peers /\ calls \in Nat
    /\ IsQueue(inbox) /\ IsQueue(slots) /\ Len(slots) > 0
    /\ \A i \in 1 .. Len(slots) : slots[i] \in BOOLEAN
    /\ \A i \in 1 .. Len(inbox) : inbox[i].peer \in peers /\ inbox[i].id \in 1 .. calls
    /\ tasks \subseteq [peer : peers, id : 0 .. calls, over : BOOLEAN]
    /\ device = "AdministratorPanel" => \A t, u \in tasks : t = u
    /\ watchers \subseteq peers
    /\ pipe = [p \in Peers |-> pipe[p]] /\ call = [p \in Peers |-> call[p]]
    /\ \A p \in Peers : IsQueue(pipe[p]) /\ CallRecord(call[p]) /\ call[p].id \in 0 .. calls
    /\ PeersWait

(* A call that found its session clean *)
CleanCall(p) ==
    /\ p \in peers /\ call[p].name \in DOMAIN Calls[device] /\ ~call[p].mixed
    /\ device = "Shipyard" => peers = {p}
    /\ OwnNumber(p)
    /\ Waiting(p) => Calls[device][call[p].name] # <<>> /\ StageOf(p)
    /\ ~Waiting(p) /\ ~call[p].late /\ Calls[device][call[p].name] # <<>> => NothingLeft(p)

ConversationsInv == ConversationTypes /\ \A p \in Peers : call[p].clean => CleanCall(p)

(* The kinds of messages that take a call from one script to another *)
Understands(script, kinds, end) ==
    \E st : /\ st[0] = script /\ st[Len(kinds)] = end
            /\ \A i \in 1 .. Len(kinds) : st[i - 1] # <<>> /\ st[i] = AfterHearing(st[i - 1], kinds[i])

(* A call that has heard nothing is where it was *)
LEMMA FollowsNothing ==
    ASSUME NEW script, NEW messages PROVE Follows(script, messages, 0, script)
  <1> DEFINE st == [i \in {0} |-> script]
  <1>1. st[0] = script /\ \A i \in 1 .. 0 : FALSE
    OBVIOUS
  <1> QED
    BY <1>1 DEF Follows

(* Only the kinds of the messages matter *)
LEMMA FollowsSame ==
    ASSUME NEW script, NEW old, NEW new, NEW n \in Nat, NEW end, Follows(script, old, n, end),
           \A i \in 1 .. n : new[i].kind = old[i].kind
    PROVE  Follows(script, new, n, end)
  BY DEF Follows

(* A call goes on with what it understands *)
LEMMA FollowsOn ==
    ASSUME NEW script, NEW old, NEW new, NEW n \in Nat, NEW mid, NEW end, NEW kinds, NEW m \in Nat,
           Follows(script, old, n, mid), Understands(mid, kinds, end), m = Len(kinds),
           \A i \in 1 .. n : new[i].kind = old[i].kind,
           \A i \in 1 .. m : new[n + i].kind = kinds[i]
    PROVE  Follows(script, new, n + m, end)
  <1>1. PICK s : /\ s[0] = script /\ s[n] = mid
                 /\ \A i \in 1 .. n : s[i - 1] # <<>> /\ s[i] = AfterHearing(s[i - 1], old[i].kind)
    BY DEF Follows
  <1>2. PICK t : /\ t[0] = mid /\ t[m] = end
                 /\ \A i \in 1 .. m : t[i - 1] # <<>> /\ t[i] = AfterHearing(t[i - 1], kinds[i])
    BY DEF Understands
  <1> DEFINE st == [i \in 0 .. n + m |-> IF i <= n THEN s[i] ELSE t[i - n]]
  <1>3. /\ \A i \in 0 .. n : st[i] = s[i]
        /\ \A i \in 0 .. m : st[n + i] = t[i]
    <2>1. \A i \in 0 .. n : st[i] = s[i]
      OBVIOUS
    <2>2. ASSUME NEW i \in 0 .. m PROVE st[n + i] = t[i]
      <3>1. CASE i = 0
        <4>1. n + i = n /\ n \in 0 .. n
          BY <3>1
        <4> QED
          BY <1>1, <1>2, <2>1, <3>1, <4>1
      <3>2. CASE i # 0
        <4>1. n + i \in 0 .. n + m /\ ~(n + i <= n) /\ (n + i) - n = i
          BY <3>2
        <4> QED
          BY <4>1
      <3> QED
        BY <3>1, <3>2
    <2> QED
      BY <2>1, <2>2
  <1> HIDE DEF st
  <1>4. st[0] = script /\ st[n + m] = end
    <2>1. 0 \in 0 .. n /\ m \in 0 .. m
      OBVIOUS
    <2> QED
      BY <1>1, <1>2, <1>3, <2>1
  <1>5. ASSUME NEW i \in 1 .. n + m
        PROVE  st[i - 1] # <<>> /\ st[i] = AfterHearing(st[i - 1], new[i].kind)
    <2>1. CASE i <= n
      <3>1. i \in 1 .. n /\ i \in 0 .. n /\ i - 1 \in 0 .. n
        BY <2>1
      <3> QED
        BY <1>1, <1>3, <3>1
    <2>2. CASE ~(i <= n)
      <3>1. PICK k \in 1 .. m : i = n + k
        <4>1. i - n \in 1 .. m /\ i = n + (i - n)
          BY <2>2
        <4> QED
          BY <4>1
      <3>2. k \in 0 .. m /\ k - 1 \in 0 .. m /\ i - 1 = n + (k - 1)
        BY <3>1
      <3>3. st[i] = t[k] /\ st[i - 1] = t[k - 1] /\ new[i].kind = kinds[k]
        BY <1>3, <3>1, <3>2
      <3> QED
        BY <1>2, <3>3
    <2> QED
      BY <2>1, <2>2
  <1> QED
    BY <1>4, <1>5 DEF Follows

(* After the first message a call follows the other ones *)
GoesOnWith(next, messages, n, end) ==
    Follows(next, messages, n - 1, end) /\ (n = 1 => next = end) /\ (n > 1 => next # <<>>)

(* A script that has heard a message follows the other ones. *)
LEMMA FollowsRest ==
    ASSUME NEW script, NEW old, NEW new, NEW n \in Nat, n > 0, NEW end, Follows(script, old, n, end),
           \A i \in 1 .. n - 1 : new[i].kind = old[i + 1].kind,
           NEW kind, kind = old[1].kind, NEW next, next = AfterHearing(script, kind)
    PROVE  GoesOnWith(next, new, n, end)
  <1>1. PICK s : /\ s[0] = script /\ s[n] = end
                 /\ \A i \in 1 .. n : s[i - 1] # <<>> /\ s[i] = AfterHearing(s[i - 1], old[i].kind)
    BY DEF Follows
  <1>2. 1 \in 1 .. n /\ 1 - 1 = 0
    OBVIOUS
  <1>3. s[1] = next
    BY <1>1, <1>2
  <1> DEFINE st == [i \in 0 .. n - 1 |-> s[i + 1]]
  <1>4. \A i \in 0 .. n - 1 : st[i] = s[i + 1]
    OBVIOUS
  <1> HIDE DEF st
  <1>5. st[0] = next /\ st[n - 1] = end
    <2>1. 0 \in 0 .. n - 1 /\ 0 + 1 = 1 /\ n - 1 \in 0 .. n - 1 /\ (n - 1) + 1 = n
      OBVIOUS
    <2> QED
      BY <1>1, <1>3, <1>4, <2>1
  <1>6. ASSUME NEW i \in 1 .. n - 1
        PROVE  st[i - 1] # <<>> /\ st[i] = AfterHearing(st[i - 1], new[i].kind)
    <2>1. i \in 0 .. n - 1 /\ i - 1 \in 0 .. n - 1 /\ i + 1 \in 1 .. n /\ (i - 1) + 1 = i /\ (i + 1) - 1 = i
      OBVIOUS
    <2>2. st[i] = s[i + 1] /\ st[i - 1] = s[i]
      BY <1>4, <2>1
    <2>3. s[i] # <<>> /\ s[i + 1] = AfterHearing(s[i], old[i + 1].kind)
      BY <1>1, <2>1
    <2> QED
      BY <2>2, <2>3
  <1>7. Follows(next, new, n - 1, end)
    BY <1>5, <1>6 DEF Follows
  <1>8. n = 1 => next = end
    BY <1>1, <1>3
  <1>9. n > 1 => next # <<>>
    <2>1. n > 1 => 2 \in 1 .. n /\ 2 - 1 = 1
      OBVIOUS
    <2> QED
      BY <1>1, <1>3, <2>1
  <1> QED
    BY <1>7, <1>8, <1>9 DEF GoesOnWith

(* Queues *)
LEMMA QueueFacts ==
    ASSUME NEW s, IsQueue(s) PROVE Len(s) \in Nat /\ DOMAIN s = 1 .. Len(s)
  BY DEF IsQueue

(* A function on 1 .. n is a queue. *)
LEMMA IsAQueue ==
    ASSUME NEW n \in Nat, NEW s, s = [i \in 1 .. n |-> s[i]] PROVE IsQueue(s) /\ Len(s) = n
  <1>1. \A i \in 1 .. n : s[i] \in ToSet(s)
    <2>1. DOMAIN s = 1 .. n
      OBVIOUS
    <2> QED
      BY <2>1 DEF ToSet
  <1>2. s \in Seq(ToSet(s)) /\ Len(s) = n
    BY <1>1
  <1> QED
    BY <1>2 DEF IsQueue

(* The empty queue *)
LEMMA EmptyQueue == IsQueue(<<>>) /\ Len(<<>>) = 0
  BY DEF IsQueue

(* One queue after another *)
LEMMA QueuesJoin ==
    ASSUME NEW s, IsQueue(s), NEW r, IsQueue(r)
    PROVE  /\ IsQueue(s \o r) /\ Len(s \o r) = Len(s) + Len(r)
           /\ \A i \in 1 .. Len(s) : (s \o r)[i] = s[i]
           /\ \A i \in 1 .. Len(r) : (s \o r)[Len(s) + i] = r[i]
  <1> DEFINE S == ToSet(s) \cup ToSet(r)
             t == s \o r
  <1>1. s \in Seq(S) /\ r \in Seq(S)
    BY DEF IsQueue
  <1> HIDE DEF S
  <1>2. /\ t \in Seq(S) /\ Len(t) = Len(s) + Len(r)
        /\ \A i \in 1 .. Len(s) : t[i] = s[i]
        /\ \A i \in Len(s) + 1 .. Len(s) + Len(r) : t[i] = r[i - Len(s)]
    BY <1>1
  <1>3. ASSUME NEW i \in 1 .. Len(r) PROVE t[Len(s) + i] = r[i]
    <2>1. Len(s) \in Nat /\ Len(r) \in Nat
      BY QueueFacts
    <2>2. Len(s) + i \in Len(s) + 1 .. Len(s) + Len(r) /\ (Len(s) + i) - Len(s) = i
      BY <2>1
    <2> QED
      BY <1>2, <2>2
  <1> HIDE DEF t
  <1>4. t = [i \in 1 .. Len(t) |-> t[i]] /\ Len(t) \in Nat
    BY <1>2
  <1>5. IsQueue(t)
    BY <1>4, IsAQueue
  <1> QED
    BY <1>2, <1>3, <1>5 DEF t

(* A queue with one more element *)
LEMMA QueueTakes ==
    ASSUME NEW s, IsQueue(s), NEW e
    PROVE  /\ IsQueue(Append(s, e)) /\ Len(Append(s, e)) = Len(s) + 1
           /\ \A i \in 1 .. Len(s) : Append(s, e)[i] = s[i]
           /\ Append(s, e)[Len(s) + 1] = e
  <1> DEFINE S == ToSet(s) \cup {e}
             t == Append(s, e)
  <1>1. s \in Seq(S) /\ e \in S
    BY DEF IsQueue
  <1> HIDE DEF S
  <1>2. t \in Seq(S) /\ Len(t) = Len(s) + 1 /\ (\A i \in 1 .. Len(s) : t[i] = s[i]) /\ t[Len(s) + 1] = e
    BY <1>1
  <1> HIDE DEF t
  <1>3. t = [i \in 1 .. Len(t) |-> t[i]] /\ Len(t) \in Nat
    BY <1>2
  <1>4. IsQueue(t)
    BY <1>3, IsAQueue
  <1> QED
    BY <1>2, <1>4 DEF t

(* A queue without its first element *)
LEMMA QueueGives ==
    ASSUME NEW s, IsQueue(s), s # <<>>
    PROVE  /\ Len(s) > 0 /\ Head(s) = s[1]
           /\ IsQueue(Tail(s)) /\ Len(Tail(s)) = Len(s) - 1
           /\ \A i \in 1 .. Len(s) - 1 : Tail(s)[i] = s[i + 1]
  <1> DEFINE S == ToSet(s)
             t == Tail(s)
  <1>1. s \in Seq(S)
    BY DEF IsQueue
  <1> HIDE DEF S
  <1>2. /\ Len(s) \in Nat /\ Len(s) > 0 /\ Head(s) = s[1]
        /\ t \in Seq(S) /\ Len(t) = Len(s) - 1 /\ \A i \in 1 .. Len(s) - 1 : t[i] = s[i + 1]
    BY <1>1
  <1> HIDE DEF t
  <1>3. t = [i \in 1 .. Len(t) |-> t[i]] /\ Len(t) \in Nat
    BY <1>2
  <1>4. IsQueue(t)
    BY <1>3, IsAQueue
  <1> QED
    BY <1>2, <1>4 DEF t

(* Messages of the kinds on behalf of a call *)
Tells(messages, kinds, id) ==
    /\ Len(messages) = Len(kinds)
    /\ \A i \in 1 .. Len(kinds) : messages[i].kind = kinds[i] /\ messages[i].id = id

(* What is sent to a session on behalf of a call *)
LEMMA TaggedFacts ==
    ASSUME NEW kinds, IsQueue(kinds), NEW id
    PROVE  /\ IsQueue(Tagged(kinds, id)) /\ Tells(Tagged(kinds, id), kinds, id)
           /\ \A i \in 1 .. Len(kinds) : Tagged(kinds, id)[i].total = Len(slots)
  <1>1. Tagged(kinds, id) = [i \in 1 .. Len(kinds) |-> [kind |-> kinds[i], id |-> id, total |-> Len(slots)]]
    BY Zenon DEF Tagged
  <1>2. PICK t : t = Tagged(kinds, id)
    OBVIOUS
  <1>3. t = [i \in 1 .. Len(kinds) |-> [kind |-> kinds[i], id |-> id, total |-> Len(slots)]]
    BY <1>1, <1>2
  <1>4. Len(kinds) \in Nat
    BY QueueFacts
  <1>5. t = [i \in 1 .. Len(kinds) |-> t[i]]
    BY <1>3
  <1>6. IsQueue(t) /\ Len(t) = Len(kinds)
    BY <1>4, <1>5, IsAQueue
  <1>7. ASSUME NEW i \in 1 .. Len(kinds)
        PROVE  t[i].kind = kinds[i] /\ t[i].id = id /\ t[i].total = Len(slots)
    <2>1. t[i] = [kind |-> kinds[i], id |-> id, total |-> Len(slots)]
      BY <1>3
    <2> QED
      BY <2>1
  <1> QED
    BY <1>2, <1>6, <1>7 DEF Tells

(* A list of a call's messages takes more of them that it understands *)
LEMMA UnderstoodIsTaken ==
    ASSUME NEW script, NEW old, IsQueue(old), NEW id, NEW mid, NEW end, NEW kinds, IsQueue(kinds),
           AllOf(old, id), Follows(script, old, Len(old), mid), Understands(mid, kinds, end),
           NEW m, IsQueue(m), Tells(m, kinds, id),
           NEW new, new = old \o m
    PROVE  /\ IsQueue(new) /\ Len(new) = Len(old) + Len(kinds)
           /\ AllOf(new, id) /\ Follows(script, new, Len(new), end)
  <1>1. /\ IsQueue(new) /\ Len(new) = Len(old) + Len(m)
        /\ \A i \in 1 .. Len(old) : new[i] = old[i]
        /\ \A i \in 1 .. Len(m) : new[Len(old) + i] = m[i]
    BY QueuesJoin
  <1>2. Len(m) = Len(kinds) /\ \A i \in 1 .. Len(kinds) : m[i].kind = kinds[i] /\ m[i].id = id
    BY DEF Tells
  <1>3. Len(old) \in Nat /\ Len(kinds) \in Nat
    BY QueueFacts
  <1>4. \A i \in 1 .. Len(kinds) : new[Len(old) + i].kind = kinds[i] /\ new[Len(old) + i].id = id
    BY <1>1, <1>2
  <1>5. Follows(script, new, Len(old) + Len(kinds), end)
    <2>1. \A i \in 1 .. Len(old) : new[i].kind = old[i].kind
      BY <1>1
    <2>2. \A i \in 1 .. Len(kinds) : new[Len(old) + i].kind = kinds[i]
      BY <1>4
    <2> QED
      BY <1>3, <2>1, <2>2, FollowsOn
  <1>6. ASSUME NEW i \in 1 .. Len(new) PROVE new[i].id = id
    <2>1. CASE i <= Len(old)
      <3>1. i \in 1 .. Len(old)
        BY <1>3, <2>1
      <3> QED
        BY <1>1, <3>1 DEF AllOf
    <2>2. CASE ~(i <= Len(old))
      <3>1. PICK k \in 1 .. Len(kinds) : i = Len(old) + k
        <4>1. i - Len(old) \in 1 .. Len(kinds) /\ i = Len(old) + (i - Len(old))
          BY <1>1, <1>2, <1>3, <2>2
        <4> QED
          BY <4>1
      <3> QED
        BY <1>4, <3>1
    <2> QED
      BY <2>1, <2>2
  <1> QED
    BY <1>1, <1>2, <1>5, <1>6 DEF AllOf

(* A call has heard nothing but messages of its own *)
SoFar(script, messages, id, mid) ==
    /\ IsQueue(messages) /\ AllOf(messages, id)
    /\ Follows(script, messages, Len(messages), mid)

(* A call goes on with more of its own messages. *)
LEMMA SoFarGoesOn ==
    ASSUME NEW script, NEW old, NEW id, NEW mid, SoFar(script, old, id, mid),
           NEW kinds, IsQueue(kinds), NEW end, Understands(mid, kinds, end)
    PROVE  SoFar(script, old \o Tagged(kinds, id), id, end)
  <1>1. PICK m : m = Tagged(kinds, id)
    OBVIOUS
  <1>2. IsQueue(m) /\ Tells(m, kinds, id)
    BY <1>1, TaggedFacts
  <1>3. PICK new : new = old \o m
    OBVIOUS
  <1>4. IsQueue(old) /\ AllOf(old, id) /\ Follows(script, old, Len(old), mid)
    BY DEF SoFar
  <1>5. IsQueue(new) /\ AllOf(new, id) /\ Follows(script, new, Len(new), end)
    BY <1>2, <1>3, <1>4, UnderstoodIsTaken
  <1> QED
    BY <1>1, <1>3, <1>5 DEF SoFar

(* A list becomes a longer one with messages of some numbers *)
Adds(old, new, ids) ==
    /\ IsQueue(new) /\ Len(old) <= Len(new)
    /\ \A i \in 1 .. Len(new) : IF i <= Len(old) THEN new[i] = old[i] ELSE new[i].id \in ids

(* Nothing is added. *)
LEMMA AddsNothing ==
    ASSUME NEW old, IsQueue(old), NEW ids PROVE Adds(old, old, ids)
  BY QueueFacts DEF Adds

(* Something is added, and something else. *)
LEMMA AddsTwice ==
    ASSUME NEW old, IsQueue(old), NEW mid, NEW new, NEW ids, Adds(old, mid, ids), Adds(mid, new, ids)
    PROVE  Adds(old, new, ids)
  <1>1. IsQueue(mid) /\ IsQueue(new) /\ Len(old) <= Len(mid) /\ Len(mid) <= Len(new)
    BY DEF Adds
  <1>2. Len(old) \in Nat /\ Len(mid) \in Nat /\ Len(new) \in Nat
    BY <1>1, QueueFacts
  <1>3. ASSUME NEW i \in 1 .. Len(new)
        PROVE  IF i <= Len(old) THEN new[i] = old[i] ELSE new[i].id \in ids
    <2>1. CASE i <= Len(mid)
      <3>1. i \in 1 .. Len(mid)
        BY <1>2, <2>1
      <3> QED
        BY <2>1, <3>1 DEF Adds
    <2>2. CASE ~(i <= Len(mid))
      <3>1. ~(i <= Len(old))
        BY <1>1, <1>2, <2>2
      <3> QED
        BY <2>2, <3>1 DEF Adds
    <2> QED
      BY <2>1, <2>2
  <1> QED
    BY <1>1, <1>2, <1>3 DEF Adds

(* A list of messages of known calls is added. *)
LEMMA AddsQueue ==
    ASSUME NEW old, IsQueue(old), NEW ids, NEW m, IsQueue(m), \A i \in 1 .. Len(m) : m[i].id \in ids
    PROVE  Adds(old, old \o m, ids)
  <1>1. PICK new : new = old \o m
    OBVIOUS
  <1>2. /\ IsQueue(new) /\ Len(new) = Len(old) + Len(m)
        /\ \A i \in 1 .. Len(old) : new[i] = old[i]
        /\ \A i \in 1 .. Len(m) : new[Len(old) + i] = m[i]
    BY <1>1, QueuesJoin
  <1>3. Len(old) \in Nat /\ Len(m) \in Nat
    BY QueueFacts
  <1>4. ASSUME NEW i \in 1 .. Len(new)
        PROVE  IF i <= Len(old) THEN new[i] = old[i] ELSE new[i].id \in ids
    <2>1. CASE i <= Len(old)
      <3>1. i \in 1 .. Len(old)
        BY <1>3, <2>1
      <3> QED
        BY <1>2, <2>1, <3>1
    <2>2. CASE ~(i <= Len(old))
      <3>1. PICK k \in 1 .. Len(m) : i = Len(old) + k
        <4>1. i - Len(old) \in 1 .. Len(m) /\ i = Len(old) + (i - Len(old))
          BY <1>2, <1>3, <2>2
        <4> QED
          BY <4>1
      <3>2. new[i] = m[k] /\ m[k].id \in ids
        BY <1>2, <3>1
      <3> QED
        BY <2>2, <3>2
    <2> QED
      BY <2>1, <2>2
  <1>5. Len(old) <= Len(new)
    BY <1>2, <1>3
  <1> QED
    BY <1>1, <1>2, <1>4, <1>5 DEF Adds

(* What is told on behalf of a known call is added. *)
LEMMA AddsTold ==
    ASSUME NEW old, IsQueue(old), NEW kinds, IsQueue(kinds), NEW id, NEW ids, id \in ids,
           NEW m, IsQueue(m), Tells(m, kinds, id)
    PROVE  Adds(old, old \o m, ids)
  <1>1. \A i \in 1 .. Len(m) : m[i].id \in ids
    BY DEF Tells
  <1> QED
    BY <1>1, AddsQueue

(* Two lists of messages are added. *)
LEMMA AddsBoth ==
    ASSUME NEW old, IsQueue(old), NEW ids,
           NEW m, IsQueue(m), \A i \in 1 .. Len(m) : m[i].id \in ids,
           NEW n, IsQueue(n), \A i \in 1 .. Len(n) : n[i].id \in ids,
           NEW new, new = (old \o m) \o n
    PROVE  /\ Adds(old, new, ids)
           /\ m = <<>> => new = old \o n
           /\ n = <<>> => new = old \o m
  <1>1. PICK mid : mid = old \o m
    OBVIOUS
  <1>2. Adds(old, mid, ids) /\ IsQueue(mid)
    BY <1>1, AddsQueue DEF Adds
  <1>3. PICK end : end = mid \o n
    OBVIOUS
  <1>4. Adds(mid, end, ids)
    BY <1>2, <1>3, AddsQueue
  <1>5. end = new
    BY <1>1, <1>3, Zenon
  <1>6. Adds(old, new, ids)
    BY <1>2, <1>4, <1>5, AddsTwice
  <1>7. \A s : IsQueue(s) => s \o <<>> = s
    BY DEF IsQueue
  <1>8. m = <<>> => new = old \o n
    BY <1>7, Zenon
  <1>9. n = <<>> => new = old \o m
    BY <1>1, <1>2, <1>7, Zenon
  <1> QED
    BY <1>6, <1>8, <1>9

(* The messages of a call were in the list before. *)
OldOnes(old, new, id) ==
    \A i \in 1 .. Len(new) : new[i].id = id => i \in 1 .. Len(old) /\ new[i] = old[i]

(* A list that ends a call takes messages of others *)
LEMMA OthersAreTaken ==
    ASSUME NEW script, NEW old, IsQueue(old), NEW id, Ends(script, old, id),
           NEW new, NEW ids, Adds(old, new, ids), id \notin ids
    PROVE  Ends(script, new, id) /\ OldOnes(old, new, id)
  <1>1. PICK n \in 1 .. Len(old) : /\ Follows(script, old, n, <<>>)
                                   /\ \A i \in 1 .. Len(old) : i <= n <=> old[i].id = id
    BY DEF Ends
  <1>2. IsQueue(new) /\ Len(old) <= Len(new)
    BY DEF Adds
  <1>3. Len(old) \in Nat /\ Len(new) \in Nat
    BY <1>2, QueueFacts
  <1>4. n \in Nat /\ n \in 1 .. Len(new) /\ \A i \in 1 .. n : i \in 1 .. Len(old) /\ i \in 1 .. Len(new) /\ i <= Len(old)
    BY <1>2, <1>3
  <1>5. Follows(script, new, n, <<>>)
    <2>1. \A i \in 1 .. n : new[i].kind = old[i].kind
      BY <1>4 DEF Adds
    <2> QED
      BY <1>1, <1>4, <2>1, FollowsSame
  <1>6. ASSUME NEW i \in 1 .. Len(new)
        PROVE  /\ i <= n <=> new[i].id = id
               /\ new[i].id = id => i \in 1 .. Len(old) /\ new[i] = old[i]
    <2>1. CASE i <= Len(old)
      <3>1. i \in 1 .. Len(old) /\ new[i] = old[i]
        BY <1>3, <2>1 DEF Adds
      <3> QED
        BY <1>1, <3>1
    <2>2. CASE ~(i <= Len(old))
      <3>1. new[i].id # id
        BY <2>2 DEF Adds
      <3>2. ~(i <= n)
        BY <1>3, <2>2
      <3> QED
        BY <3>1, <3>2
    <2> QED
      BY <2>1, <2>2
  <1> QED
    BY <1>4, <1>5, <1>6 DEF Ends, OldOnes

(* A list of nothing but the call's messages that takes the call to its end *)
LEMMA AllOfEnds ==
    ASSUME NEW script, NEW messages, IsQueue(messages), NEW id, AllOf(messages, id),
           Len(messages) > 0, Follows(script, messages, Len(messages), <<>>)
    PROVE  Ends(script, messages, id)
  <1>1. Len(messages) \in Nat
    BY QueueFacts
  <1>2. Len(messages) \in 1 .. Len(messages)
    BY <1>1
  <1>3. \A i \in 1 .. Len(messages) : i <= Len(messages) <=> messages[i].id = id
    BY <1>1 DEF AllOf
  <1> QED
    BY <1>2, <1>3 DEF Ends

(* The first request is taken from the inbox *)
LEMMA RequestIsTaken ==
    ASSUME IsQueue(inbox), inbox # <<>>, inbox' = Tail(inbox), NEW p, call'[p] = call[p]
    PROVE  /\ IsQueue(inbox') /\ 1 \in 1 .. Len(inbox) /\ Head(inbox) = inbox[1]
           /\ \A i \in 1 .. Len(inbox') : i + 1 \in 1 .. Len(inbox) /\ inbox'[i] = inbox[i + 1]
           /\ NoRequest(p) => Head(inbox).peer # p /\ NoRequest(p)'
           /\ Head(inbox).peer # p => \A name : OnlyRequest(p, name) => OnlyRequest(p, name)'
           /\ Head(inbox).peer = p =>
                  \A name : OnlyRequest(p, name) =>
                      Head(inbox).name = name /\ Head(inbox).id = call[p].id /\ NoRequest(p)'
  <1>1. /\ IsQueue(inbox') /\ Len(inbox) > 0 /\ Head(inbox) = inbox[1]
        /\ Len(inbox') = Len(inbox) - 1 /\ Len(inbox) \in Nat
        /\ \A i \in 1 .. Len(inbox) - 1 : inbox'[i] = inbox[i + 1]
    BY QueueGives, QueueFacts
  <1>2. 1 \in 1 .. Len(inbox)
    BY <1>1
  <1>3. \A i \in 1 .. Len(inbox') : i + 1 \in 1 .. Len(inbox) /\ inbox'[i] = inbox[i + 1]
    BY <1>1
  <1>4. NoRequest(p) => Head(inbox).peer # p /\ NoRequest(p)'
    BY <1>1, <1>2, <1>3 DEF NoRequest
  <1>5. ASSUME NEW name, OnlyRequest(p, name)
        PROVE  /\ Head(inbox).peer # p => OnlyRequest(p, name)'
               /\ Head(inbox).peer = p =>
                      Head(inbox).name = name /\ Head(inbox).id = call[p].id /\ NoRequest(p)'
    <2>1. PICK k \in 1 .. Len(inbox) :
              /\ inbox[k].peer = p /\ inbox[k].id = call[p].id /\ inbox[k].name = name
              /\ \A j \in 1 .. Len(inbox) : inbox[j].peer = p => j = k
      BY <1>5 DEF OnlyRequest
    <2>2. ASSUME Head(inbox).peer = p
          PROVE  Head(inbox).name = name /\ Head(inbox).id = call[p].id /\ NoRequest(p)'
      <3>1. k = 1
        BY <1>1, <1>2, <2>1, <2>2
      <3>2. ASSUME NEW i \in 1 .. Len(inbox') PROVE inbox'[i].peer # p
        <4>1. i + 1 # 1
          OBVIOUS
        <4> QED
          BY <1>3, <2>1, <3>1, <4>1
      <3> QED
        BY <1>1, <2>1, <3>1, <3>2 DEF NoRequest
    <2>3. ASSUME Head(inbox).peer # p PROVE OnlyRequest(p, name)'
      <3>1. k # 1
        BY <1>1, <2>1, <2>3
      <3>2. k - 1 \in 1 .. Len(inbox') /\ (k - 1) + 1 = k
        BY <1>1, <3>1
      <3>3. inbox'[k - 1] = inbox[k]
        BY <1>3, <3>2
      <3>4. ASSUME NEW j \in 1 .. Len(inbox'), inbox'[j].peer = p PROVE j = k - 1
        <4>1. j + 1 = k
          BY <1>3, <2>1, <3>4
        <4> QED
          BY <4>1
      <3> QED
        BY <2>1, <3>2, <3>3, <3>4 DEF OnlyRequest
    <2> QED
      BY <2>2, <2>3
  <1> QED
    BY <1>1, <1>2, <1>3, <1>4, <1>5

(* A request comes into the inbox *)
LEMMA RequestIsMade ==
    ASSUME IsQueue(inbox), NEW r, inbox' = Append(inbox, r), NEW p
    PROVE  /\ IsQueue(inbox')
           /\ \A i \in 1 .. Len(inbox') : (i \in 1 .. Len(inbox) /\ inbox'[i] = inbox[i]) \/ inbox'[i] = r
           /\ r.peer # p /\ NoRequest(p) => NoRequest(p)'
           /\ r.peer # p /\ call'[p] = call[p] =>
                  \A name : OnlyRequest(p, name) => OnlyRequest(p, name)'
           /\ r.peer = p /\ NoRequest(p) /\ call'[p].id = r.id => OnlyRequest(p, r.name)'
  <1>1. /\ IsQueue(inbox') /\ Len(inbox') = Len(inbox) + 1 /\ Len(inbox) \in Nat
        /\ \A i \in 1 .. Len(inbox) : inbox'[i] = inbox[i]
        /\ inbox'[Len(inbox) + 1] = r
    BY QueueTakes, QueueFacts
  <1>2. \A i \in 1 .. Len(inbox') : i \in 1 .. Len(inbox) \/ i = Len(inbox) + 1
    BY <1>1
  <1>3. \A i \in 1 .. Len(inbox) : i \in 1 .. Len(inbox')
    BY <1>1
  <1>4. Len(inbox) + 1 \in 1 .. Len(inbox')
    BY <1>1
  <1>5. r.peer # p /\ NoRequest(p) => NoRequest(p)'
    BY <1>1, <1>2 DEF NoRequest
  <1>6. ASSUME r.peer # p, call'[p] = call[p], NEW name, OnlyRequest(p, name)
        PROVE  OnlyRequest(p, name)'
    <2>1. PICK k \in 1 .. Len(inbox) :
              /\ inbox[k].peer = p /\ inbox[k].id = call[p].id /\ inbox[k].name = name
              /\ \A j \in 1 .. Len(inbox) : inbox[j].peer = p => j = k
      BY <1>6 DEF OnlyRequest
    <2>2. k \in 1 .. Len(inbox') /\ inbox'[k] = inbox[k]
      BY <1>1, <1>3
    <2>3. \A j \in 1 .. Len(inbox') : inbox'[j].peer = p => j = k
      BY <1>1, <1>2, <1>6, <2>1
    <2> QED
      BY <1>6, <2>1, <2>2, <2>3 DEF OnlyRequest
  <1>7. ASSUME r.peer = p, NoRequest(p), call'[p].id = r.id PROVE OnlyRequest(p, r.name)'
    <2>1. \A j \in 1 .. Len(inbox') : inbox'[j].peer = p => j = Len(inbox) + 1
      BY <1>1, <1>2, <1>7 DEF NoRequest
    <2> QED
      BY <1>1, <1>4, <1>7, <2>1 DEF OnlyRequest
  <1> QED
    BY <1>1, <1>2, <1>5, <1>6, <1>7

(* Scripts and what they understand *)
LEMMA SomeKinds ==
    ASSUME NEW a, NEW b
    PROVE  /\ IsQueue(<<a>>) /\ Len(<<a>>) = 1 /\ <<a>> # <<>>
           /\ IsQueue(<<a, b>>) /\ Len(<<a, b>>) = 2 /\ <<a, b>> # <<>>
  <1>1. <<a>> = [i \in 1 .. 1 |-> a] /\ <<a>>[1] = a
    OBVIOUS
  <1>2. <<a>> \in Seq({a}) /\ ToSet(<<a>>) = {a}
    BY <1>1 DEF ToSet
  <1>3. <<a, b>> \in Seq({a, b}) /\ ToSet(<<a, b>>) = {a, b}
    BY DEF ToSet
  <1> QED
    BY <1>2, <1>3 DEF IsQueue

(* Nothing is heard. *)
LEMMA HearsNothing ==
    ASSUME NEW script PROVE Understands(script, <<>>, script)
  <1> DEFINE st == [i \in {0} |-> script]
  <1>1. st[0] = script /\ Len(<<>>) = 0 /\ \A i \in 1 .. 0 : FALSE
    OBVIOUS
  <1> QED
    BY <1>1 DEF Understands

(* One message is heard. *)
LEMMA HearsOne ==
    ASSUME NEW script, script # <<>>, NEW kind, NEW end, end = AfterHearing(script, kind)
    PROVE  Understands(script, <<kind>>, end)
  <1> DEFINE st == [i \in 0 .. 1 |-> IF i = 0 THEN script ELSE end]
  <1>1. st[0] = script /\ st[1] = end /\ Len(<<kind>>) = 1 /\ <<kind>>[1] = kind
    OBVIOUS
  <1> HIDE DEF st
  <1>2. \A i \in 1 .. 1 : st[i - 1] # <<>> /\ st[i] = AfterHearing(st[i - 1], <<kind>>[i])
    <2>1. \A i \in 1 .. 1 : i = 1 /\ i - 1 = 0
      OBVIOUS
    <2> QED
      BY <1>1, <2>1
  <1> QED
    BY <1>1, <1>2 DEF Understands

(* Two messages are heard. *)
LEMMA HearsTwo ==
    ASSUME NEW script, script # <<>>, NEW first, NEW mid, mid = AfterHearing(script, first), mid # <<>>,
           NEW second, NEW end, end = AfterHearing(mid, second)
    PROVE  Understands(script, <<first, second>>, end)
  <1> DEFINE st == [i \in 0 .. 2 |-> IF i = 0 THEN script ELSE IF i = 1 THEN mid ELSE end]
             w  == <<first, second>>
  <1>1. st[0] = script /\ st[1] = mid /\ st[2] = end /\ Len(w) = 2 /\ w[1] = first /\ w[2] = second
    OBVIOUS
  <1> HIDE DEF st, w
  <1>2. ASSUME NEW i \in 1 .. 2 PROVE st[i - 1] # <<>> /\ st[i] = AfterHearing(st[i - 1], w[i])
    <2>1. (i = 1 /\ i - 1 = 0) \/ (i = 2 /\ i - 1 = 1)
      OBVIOUS
    <2> QED
      BY <1>1, <2>1
  <1>3. Understands(script, w, end)
    BY <1>1, <1>2 DEF Understands
  <1> QED
    BY <1>3 DEF w

(* A sequence of kinds that a call needs to return *)
Fits(script, kinds) == kinds # <<>> /\ IsQueue(kinds) /\ Understands(script, kinds, <<>>)

(* An answer of any kind ends a call that expects one message. *)
LEMMA ExpectedFits ==
    ASSUME NEW wanted, NEW kind PROVE Expect(wanted) # <<>> /\ Fits(Expect(wanted), <<kind>>)
  <1>1. Expect(wanted) # <<>> /\ AfterHearing(Expect(wanted), kind) = <<>>
    BY DEF Expect, Wait, AfterHearing
  <1> QED
    BY <1>1, HearsOne, SomeKinds DEF Fits

(* An answer in parts ends a call that expects parts. *)
LEMMA PartsFit ==
    ASSUME NEW one, NEW last, one # last, NEW kinds \in Parts(one, last)
    PROVE  ExpectParts(one, last) # <<>> /\ Fits(ExpectParts(one, last), kinds)
  <1> DEFINE s == ExpectParts(one, last)
  <1>1. s # <<>> /\ AfterHearing(s, last) = <<>> /\ AfterHearing(s, one) = s
    <2> DEFINE w == Wait({}, {one}, {last})
    <2>1. w.goes = {} /\ w.again = {one}
      BY DEF Wait
    <2>2. s = <<w>>
      BY DEF ExpectParts
    <2> HIDE DEF w, s
    <2>3. s # <<>> /\ Head(s) = w
      BY <2>2
    <2> QED
      BY <2>1, <2>3 DEF AfterHearing
  <1> HIDE DEF s
  <1>2. Understands(s, <<last>>, <<>>) /\ Understands(s, <<one, last>>, <<>>)
    BY <1>1, HearsOne, HearsTwo
  <1>3. Fits(s, <<last>>) /\ Fits(s, <<one, last>>)
    BY <1>2, SomeKinds DEF Fits
  <1>4. kinds = <<last>> \/ kinds = <<one, last>>
    BY DEF Parts
  <1> QED
    BY <1>1, <1>3, <1>4 DEF s

(* What the devices answer ends the calls *)
LEMMA EngineAnswersFit ==
    \A name \in DOMAIN EngineAnswers : \A kinds \in EngineAnswers[name] :
        IF name = "setThrust" THEN kinds = <<>> /\ EngineCalls[name] = <<>>
                              ELSE Fits(EngineCalls[name], kinds)
  BY ExpectedFits DEF EngineAnswers, EngineCalls

(* Ship *)
LEMMA ShipAnswersFit ==
    \A name \in DOMAIN ShipAnswers : \A kinds \in ShipAnswers[name] : Fits(ShipCalls[name], kinds)
  BY ExpectedFits DEF ShipAnswers, ShipCalls

(* CelestialScanner, AsteroidScanner and PassiveScanner: their specification *)
LEMMA ScannerAnswersFit ==
    \A name \in DOMAIN ScannerAnswers : \A kinds \in ScannerAnswers[name] :
        /\ Fits(CelestialScannerCalls[name], kinds)
        /\ Fits(AsteroidScannerCalls[name], kinds)
        /\ Fits(PassiveScannerCalls[name], kinds)
  BY ExpectedFits DEF ScannerAnswers, CelestialScannerCalls, AsteroidScannerCalls, PassiveScannerCalls

(* ResourceContainer *)
LEMMA ResourceContainerAnswersFit ==
    \A name \in DOMAIN ResourceContainerAnswers : \A kinds \in ResourceContainerAnswers[name] :
        Fits(ResourceContainerCalls[name], kinds)
  BY ExpectedFits DEF ResourceContainerAnswers, ResourceContainerCalls

(* AsteroidMiner *)
LEMMA AsteroidMinerAnswersFit ==
    \A name \in DOMAIN AsteroidMinerAnswers : \A kinds \in AsteroidMinerAnswers[name] :
        Fits(AsteroidMinerCalls[name], kinds)
  BY ExpectedFits DEF AsteroidMinerAnswers, AsteroidMinerCalls

(* Shipyard: nobody waits for an answer to a cancellation. *)
LEMMA ShipyardAnswersFit ==
    \A name \in DOMAIN ShipyardAnswers : \A kinds \in ShipyardAnswers[name] :
        IF name = "cancelBuild" THEN kinds = <<>> ELSE Fits(ShipyardCalls[name], kinds)
  BY ExpectedFits DEF ShipyardAnswers, ShipyardCalls

(* BlueprintsStorage: a blueprint or a list of them, in parts *)
LEMMA BlueprintsStorageAnswersFit ==
    \A name \in DOMAIN BlueprintsStorageAnswers : \A kinds \in BlueprintsStorageAnswers[name] :
        Fits(BlueprintsStorageCalls[name], kinds)
  BY ExpectedFits, PartsFit DEF BlueprintsStorageAnswers, BlueprintsStorageCalls

(* Messanger: a list of services, in parts *)
LEMMA MessangerAnswersFit ==
    \A name \in DOMAIN MessangerAnswers : \A kinds \in MessangerAnswers[name] :
        Fits(MessangerCalls[name], kinds)
  BY PartsFit DEF MessangerAnswers, MessangerCalls

(* Commutator: the number of slots is told by a message of its own. *)
LEMMA CommutatorAnswersFit ==
    \A name \in DOMAIN CommutatorAnswers : \A kinds \in CommutatorAnswers[name] :
        /\ Fits(CommutatorCalls[name], kinds)
        /\ name = "getTotalSlots" => kinds = <<"total_slots">>
  BY ExpectedFits DEF CommutatorAnswers, CommutatorCalls

(* AdministratorPanel: only the switch of the mode waits for more than its status. *)
LEMMA ClockControlAnswersFit ==
    \A name \in DOMAIN ClockControlAnswers : \A kinds \in ClockControlAnswers[name] :
        IF name = "switchMode"
        THEN kinds = <<"status">>
        ELSE Fits(AdministratorPanelCalls[name], kinds)
  BY ExpectedFits DEF ClockControlAnswers, AdministratorPanelCalls

(* What a request that a device handles at once is answered *)
LEMMA AnswersFit ==
    ASSUME NEW d \in DOMAIN Calls, NEW name \in DOMAIN Answers[d], NEW kinds \in Answers[d][name]
    PROVE  /\ IsQueue(kinds)
           /\ name = "getTotalSlots" => kinds = <<"total_slots">>
           /\ CASE name = "cancelBuild" -> kinds = <<>>
                [] name = "switchMode"  -> kinds = <<"status">> /\ d = "AdministratorPanel"
                [] name = "setThrust"   -> kinds = <<>> /\ Calls[d][name] = <<>>
                [] OTHER                -> Fits(Calls[d][name], kinds)
  <1>1. d \in {"Engine", "Ship", "CelestialScanner", "AsteroidScanner", "PassiveScanner",
               "ResourceContainer", "AsteroidMiner", "Shipyard", "BlueprintsStorage", "Messanger",
               "Commutator", "AdministratorPanel"}
    BY DEF Calls
  <1>2. IsQueue(<<>>) /\ IsQueue(<<"status">>)
    BY EmptyQueue, SomeKinds
  <1>3. CASE d = "Engine"
    <2>1. Answers[d] = EngineAnswers /\ Calls[d] = EngineCalls
      BY <1>3 DEF Answers, Calls
    <2>2. name \in {"getSpecification", "setThrust", "getThrust"}
      BY <2>1 DEF EngineAnswers
    <2> QED
      BY <1>2, <2>1, <2>2, EngineAnswersFit DEF Fits
  <1>4. CASE d = "Ship"
    <2>1. Answers[d] = ShipAnswers /\ Calls[d] = ShipCalls
      BY <1>4 DEF Answers, Calls
    <2>2. name \in {"getPosition", "getState"}
      BY <2>1 DEF ShipAnswers
    <2> QED
      BY <2>1, <2>2, ShipAnswersFit DEF Fits
  <1>5. CASE d \in {"CelestialScanner", "AsteroidScanner", "PassiveScanner"}
    <2>1. /\ Answers[d] = ScannerAnswers
          /\ Calls[d] \in {CelestialScannerCalls, AsteroidScannerCalls, PassiveScannerCalls}
      BY <1>5 DEF Answers, Calls
    <2>2. name = "getSpecification"
      BY <2>1 DEF ScannerAnswers
    <2> QED
      BY <2>1, <2>2, ScannerAnswersFit DEF Fits
  <1>6. CASE d = "ResourceContainer"
    <2>1. Answers[d] = ResourceContainerAnswers /\ Calls[d] = ResourceContainerCalls
      BY <1>6 DEF Answers, Calls
    <2>2. name \in {"getContent", "openPort", "closePort"}
      BY <2>1 DEF ResourceContainerAnswers
    <2> QED
      BY <2>1, <2>2, ResourceContainerAnswersFit DEF Fits
  <1>7. CASE d = "AsteroidMiner"
    <2>1. Answers[d] = AsteroidMinerAnswers /\ Calls[d] = AsteroidMinerCalls
      BY <1>7 DEF Answers, Calls
    <2>2. name \in {"getSpecification", "bindToCargo"}
      BY <2>1 DEF AsteroidMinerAnswers
    <2> QED
      BY <2>1, <2>2, AsteroidMinerAnswersFit DEF Fits
  <1>8. CASE d = "Shipyard"
    <2>1. Answers[d] = ShipyardAnswers /\ Calls[d] = ShipyardCalls
      BY <1>8 DEF Answers, Calls
    <2>2. name \in {"getSpecification", "bindToCargo", "cancelBuild"}
      BY <2>1 DEF ShipyardAnswers
    <2> QED
      BY <1>2, <2>1, <2>2, ShipyardAnswersFit DEF Fits
  <1>9. CASE d = "BlueprintsStorage"
    <2>1. Answers[d] = BlueprintsStorageAnswers /\ Calls[d] = BlueprintsStorageCalls
      BY <1>9 DEF Answers, Calls
    <2>2. name \in {"getModulesBlueprintsNames", "getBlueprint"}
      BY <2>1 DEF BlueprintsStorageAnswers
    <2> QED
      BY <2>1, <2>2, BlueprintsStorageAnswersFit DEF Fits
  <1>10. CASE d = "Messanger"
    <2>1. Answers[d] = MessangerAnswers /\ Calls[d] = MessangerCalls
      BY <1>10 DEF Answers, Calls
    <2>2. name = "getServicesList"
      BY <2>1 DEF MessangerAnswers
    <2> QED
      BY <2>1, <2>2, MessangerAnswersFit DEF Fits
  <1>11. CASE d = "Commutator"
    <2>1. Answers[d] = CommutatorAnswers /\ Calls[d] = CommutatorCalls
      BY <1>11 DEF Answers, Calls
    <2>2. name \in {"getTotalSlots", "openSession", "closeTunnel"}
      BY <2>1 DEF CommutatorAnswers
    <2> QED
      BY <2>1, <2>2, CommutatorAnswersFit DEF Fits
  <1>12. CASE d = "AdministratorPanel"
    <2>1. Answers[d] = ClockControlAnswers /\ Calls[d] = AdministratorPanelCalls
      BY <1>12 DEF Answers, Calls
    <2>2. name \in {"clockTimeReq", "clockModeReq", "switchMode", "setTickDuration"}
      BY <2>1 DEF ClockControlAnswers
    <2> QED
      BY <1>2, <1>12, <2>1, <2>2, ClockControlAnswersFit DEF Fits
  <1> QED
    BY <1>1, <1>3, <1>4, <1>5, <1>6, <1>7, <1>8, <1>9, <1>10, <1>11, <1>12

(* One of the two statuses of a change of the clock's mode, or of its termination *)
LEMMA SwitchWaitsOn ==
    /\ AdministratorPanelCalls.terminate = AdministratorPanelCalls.switchMode
    /\ AdministratorPanelCalls.switchMode # <<>>
    /\ \E end : end # <<>> /\ Understands(AdministratorPanelCalls.switchMode, <<"status">>, end)
  <1>5. AdministratorPanelCalls.terminate = AdministratorPanelCalls.switchMode
    BY DEF AdministratorPanelCalls
  <1> DEFINE s    == AdministratorPanelCalls.switchMode
             last == <<Wait({}, {}, {"status"})>>
             one  == Wait({"status"}, {}, {})
  <1>1. "status" \in one.goes /\ one.again = {}
    BY DEF Wait
  <1>2. s # <<>> /\ Head(s) = one /\ Tail(s) = last /\ last # <<>>
    BY DEF AdministratorPanelCalls
  <1> HIDE DEF s, last, one
  <1>3. AfterHearing(s, "status") = last
    BY <1>1, <1>2 DEF AfterHearing
  <1>4. Understands(s, <<"status">>, last)
    BY <1>2, <1>3, HearsOne
  <1> QED
    BY <1>2, <1>4, <1>5 DEF s

(* Scripts by their first wait *)
LEMMA OneWait ==
    ASSUME NEW w PROVE <<w>> # <<>> /\ Head(<<w>>) = w
  OBVIOUS

(* A script of two waits *)
LEMMA TwoWaits ==
    ASSUME NEW v, NEW w PROVE <<v, w>> # <<>> /\ Head(<<v, w>>) = v /\ Tail(<<v, w>>) = <<w>>
  OBVIOUS

(* A script of three waits *)
LEMMA ThreeWaits ==
    ASSUME NEW u, NEW v, NEW w
    PROVE  <<u, v, w>> # <<>> /\ Head(<<u, v, w>>) = u /\ Tail(<<u, v, w>>) = <<v, w>>
  OBVIOUS

(* One message that ends a call *)
LEMMA FitsOne ==
    ASSUME NEW script, script # <<>>, NEW kind, AfterHearing(script, kind) = <<>>
    PROVE  Fits(script, <<kind>>)
  BY HearsOne, SomeKinds DEF Fits

(* Two messages that end a call *)
LEMMA FitsTwo ==
    ASSUME NEW script, script # <<>>, NEW first, NEW second, NEW mid, mid # <<>>,
           AfterHearing(script, first) = mid, AfterHearing(mid, second) = <<>>
    PROVE  Fits(script, <<first, second>>)
  BY HearsTwo, SomeKinds DEF Fits

(* Activities and the calls that start them *)
LEMMA CelestialScanFits ==
    LET script == CelestialScannerCalls.scan
    IN  /\ script # <<>> /\ Rest["CelestialScanner"] = script
        /\ Fits(script, <<"scanning_failed">>)
        /\ \A kinds \in Parts("scanning_report", "last_report") : Fits(script, kinds)
  <1> DEFINE w == Wait({}, {"scanning_report"}, {"last_report"})
  <1>1. /\ CelestialScannerCalls.scan = ExpectParts("scanning_report", "last_report")
        /\ Rest["CelestialScanner"] = CelestialScannerCalls.scan
    BY DEF CelestialScannerCalls, Rest
  <1>2. ExpectParts("scanning_report", "last_report") = <<w>> /\ <<w>> # <<>> /\ Head(<<w>>) = w
    BY OneWait DEF ExpectParts
  <1>3. w.goes = {} /\ w.again = {"scanning_report"}
    BY DEF Wait
  <1> HIDE DEF w
  <1>4. AfterHearing(<<w>>, "scanning_failed") = <<>>
    BY <1>2, <1>3 DEF AfterHearing
  <1>5. Fits(<<w>>, <<"scanning_failed">>)
    BY <1>2, <1>4, FitsOne
  <1>6. \A kinds \in Parts("scanning_report", "last_report") :
            Fits(ExpectParts("scanning_report", "last_report"), kinds)
    BY PartsFit
  <1> QED
    BY <1>1, <1>2, <1>5, <1>6

(* Scan of an asteroid *)
LEMMA AsteroidScanFits ==
    LET script == AsteroidScannerCalls.scan
        rest   == Rest["AsteroidScanner"]
    IN  /\ script # <<>> /\ rest # <<>>
        /\ Fits(script, <<"busy">>) /\ Fits(script, <<"too_far">>)
        /\ Understands(script, <<"in_progress">>, rest)
        /\ Fits(rest, <<"scanning_finished">>) /\ Fits(rest, <<"too_far">>)
  <1> DEFINE v == Wait({"in_progress"}, {}, {"busy", "too_far"})
             w == Wait({}, {}, {"scanning_finished"})
  <1>1. AsteroidScannerCalls.scan = <<v, w>> /\ Rest["AsteroidScanner"] = Tail(AsteroidScannerCalls.scan)
    BY DEF AsteroidScannerCalls, Rest
  <1>2. /\ <<v, w>> # <<>> /\ Head(<<v, w>>) = v /\ Tail(<<v, w>>) = <<w>>
        /\ <<w>> # <<>> /\ Head(<<w>>) = w
    BY OneWait, TwoWaits
  <1>3. /\ v.goes = {"in_progress"} /\ v.again = {}
        /\ w.goes = {} /\ w.again = {}
    BY DEF Wait
  <1> HIDE DEF v, w
  <1>4. /\ AfterHearing(<<v, w>>, "busy") = <<>> /\ AfterHearing(<<v, w>>, "too_far") = <<>>
        /\ AfterHearing(<<v, w>>, "in_progress") = Tail(<<v, w>>)
        /\ AfterHearing(<<w>>, "scanning_finished") = <<>> /\ AfterHearing(<<w>>, "too_far") = <<>>
    BY <1>2, <1>3 DEF AfterHearing
  <1> QED
    BY <1>1, <1>2, <1>4, FitsOne, HearsOne

(* Transfer of resources *)
LEMMA TransferFits ==
    LET script == ResourceContainerCalls.transfer
        rest   == Rest["ResourceContainer"]
    IN  /\ script # <<>> /\ rest # <<>>
        /\ Fits(script, <<"transfer_refused">>)
        /\ Understands(script, <<"transfer_started">>, rest)
        /\ Understands(rest, <<"transfer_report">>, rest)
        /\ Fits(rest, <<"transfer_finished">>)
  <1> DEFINE v == Wait({"transfer_started"}, {}, {"transfer_refused"})
             w == Wait({}, {"transfer_report"}, {"transfer_finished"})
  <1>1. /\ ResourceContainerCalls.transfer = <<v, w>>
        /\ Rest["ResourceContainer"] = Tail(ResourceContainerCalls.transfer)
    BY DEF ResourceContainerCalls, Rest
  <1>2. /\ <<v, w>> # <<>> /\ Head(<<v, w>>) = v /\ Tail(<<v, w>>) = <<w>>
        /\ <<w>> # <<>> /\ Head(<<w>>) = w
    BY OneWait, TwoWaits
  <1>3. /\ v.goes = {"transfer_started"} /\ v.again = {}
        /\ w.goes = {} /\ w.again = {"transfer_report"}
    BY DEF Wait
  <1> HIDE DEF v, w
  <1>4. /\ AfterHearing(<<v, w>>, "transfer_refused") = <<>>
        /\ AfterHearing(<<v, w>>, "transfer_started") = Tail(<<v, w>>)
        /\ AfterHearing(<<w>>, "transfer_report") = <<w>>
        /\ AfterHearing(<<w>>, "transfer_finished") = <<>>
    BY <1>2, <1>3 DEF AfterHearing
  <1> QED
    BY <1>1, <1>2, <1>4, FitsOne, HearsOne

(* Mining, its start and its end *)
LEMMA MiningFits ==
    /\ Fits(AsteroidMinerCalls.startMining, <<"mining_started">>)
    /\ Fits(AsteroidMinerCalls.startMining, <<"mining_refused">>)
    /\ LET script == AsteroidMinerCalls.stopMining
       IN  /\ Fits(script, <<"miner_is_idle">>) /\ Fits(script, <<"stopping", "mining_is_stopped">>)
           /\ \E end : end # <<>> /\ Understands(script, <<"stopping">>, end)
  <1> DEFINE v == Wait({"stopping"}, {}, {"miner_is_idle"})
             w == Wait({}, {}, {"mining_is_stopped"})
  <1>1. /\ AsteroidMinerCalls.stopMining = <<v, w>>
        /\ AsteroidMinerCalls.startMining = Expect({"mining_started", "mining_refused"})
    BY DEF AsteroidMinerCalls
  <1>2. /\ <<v, w>> # <<>> /\ Head(<<v, w>>) = v /\ Tail(<<v, w>>) = <<w>>
        /\ <<w>> # <<>> /\ Head(<<w>>) = w
    BY OneWait, TwoWaits
  <1>3. /\ v.goes = {"stopping"} /\ v.again = {}
        /\ w.goes = {} /\ w.again = {}
    BY DEF Wait
  <1> HIDE DEF v, w
  <1>4. /\ AfterHearing(<<v, w>>, "miner_is_idle") = <<>>
        /\ AfterHearing(<<v, w>>, "stopping") = Tail(<<v, w>>)
        /\ AfterHearing(<<w>>, "mining_is_stopped") = <<>>
    BY <1>2, <1>3 DEF AfterHearing
  <1>5. Fits(<<v, w>>, <<"miner_is_idle">>) /\ Fits(<<v, w>>, <<"stopping", "mining_is_stopped">>)
    BY <1>2, <1>4, FitsOne, FitsTwo
  <1>6. <<w>> # <<>> /\ Understands(<<v, w>>, <<"stopping">>, <<w>>)
    BY <1>2, <1>4, HearsOne
  <1> QED
    BY <1>1, <1>5, <1>6, ExpectedFits

(* Build of a ship *)
LEMMA BuildFits ==
    LET script == ShipyardCalls.build
        rest   == Rest["Shipyard"]
    IN  /\ script # <<>> /\ rest # <<>>
        /\ Fits(script, <<"shipyard_is_busy">>) /\ Fits(script, <<"build_refused">>)
        /\ Understands(script, <<"build_started">>, rest)
        /\ Understands(rest, <<"build_in_progress">>, rest)
        /\ Fits(rest, <<"build_complete", "building_complete">>)
  <1> DEFINE u == Wait({"build_started"}, {}, {"build_refused", "shipyard_is_busy"})
             v == Wait({"build_complete"}, {"build_in_progress"},
                       {"build_started", "build_refused", "shipyard_is_busy", "build_frozen"})
             w == Wait({}, {}, {"building_complete"})
  <1>1. ShipyardCalls.build = <<u, v, w>> /\ Rest["Shipyard"] = Tail(ShipyardCalls.build)
    BY DEF ShipyardCalls, Rest
  <1>2. /\ <<u, v, w>> # <<>> /\ Head(<<u, v, w>>) = u /\ Tail(<<u, v, w>>) = <<v, w>>
        /\ <<v, w>> # <<>> /\ Head(<<v, w>>) = v /\ Tail(<<v, w>>) = <<w>>
        /\ <<w>> # <<>> /\ Head(<<w>>) = w
    BY OneWait, TwoWaits, ThreeWaits
  <1>3. /\ u.goes = {"build_started"} /\ u.again = {}
        /\ v.goes = {"build_complete"} /\ v.again = {"build_in_progress"}
        /\ w.goes = {} /\ w.again = {}
    BY DEF Wait
  <1> HIDE DEF u, v, w
  <1>4. /\ AfterHearing(<<u, v, w>>, "shipyard_is_busy") = <<>>
        /\ AfterHearing(<<u, v, w>>, "build_refused") = <<>>
        /\ AfterHearing(<<u, v, w>>, "build_started") = Tail(<<u, v, w>>)
        /\ AfterHearing(<<v, w>>, "build_in_progress") = <<v, w>>
        /\ AfterHearing(<<v, w>>, "build_complete") = Tail(<<v, w>>)
        /\ AfterHearing(<<w>>, "building_complete") = <<>>
    BY <1>2, <1>3 DEF AfterHearing
  <1> QED
    BY <1>1, <1>2, <1>4, FitsOne, FitsTwo, HearsOne

(* Request to a service *)
LEMMA RequestFits ==
    LET script == MessangerCalls.request
        rest   == Rest["Messanger"]
    IN  /\ script # <<>> /\ rest # <<>>
        /\ Fits(script, <<"not_routed">>)
        /\ Understands(script, <<"routed">>, rest)
        /\ Fits(rest, <<"response">>) /\ Fits(rest, <<"not_routed">>)
        /\ Fits(MessangerCalls.openService, <<"open_service_status">>)
  <1> DEFINE v == Wait({"routed"}, {}, {"not_routed"})
             w == Wait({}, {}, {"response"})
  <1>1. /\ MessangerCalls.request = <<v, w>> /\ Rest["Messanger"] = Tail(MessangerCalls.request)
        /\ MessangerCalls.openService = Expect({"open_service_status"})
    BY DEF MessangerCalls, Rest
  <1>2. /\ <<v, w>> # <<>> /\ Head(<<v, w>>) = v /\ Tail(<<v, w>>) = <<w>>
        /\ <<w>> # <<>> /\ Head(<<w>>) = w
    BY OneWait, TwoWaits
  <1>3. /\ v.goes = {"routed"} /\ v.again = {}
        /\ w.goes = {} /\ w.again = {}
    BY DEF Wait
  <1> HIDE DEF v, w
  <1>4. /\ AfterHearing(<<v, w>>, "not_routed") = <<>>
        /\ AfterHearing(<<v, w>>, "routed") = Tail(<<v, w>>)
        /\ AfterHearing(<<w>>, "response") = <<>> /\ AfterHearing(<<w>>, "not_routed") = <<>>
    BY <1>2, <1>3 DEF AfterHearing
  <1> QED
    BY <1>1, <1>2, <1>4, FitsOne, HearsOne, ExpectedFits

(* Ticks of the clock *)
LEMMA ProceedFits ==
    LET script == AdministratorPanelCalls.proceed
    IN  /\ script # <<>> /\ Rest["AdministratorPanel"] = script
        /\ Fits(script, <<"status">>) /\ Fits(script, <<"now">>)
  <1>1. /\ AdministratorPanelCalls.proceed = Expect({"now", "status"})
        /\ Rest["AdministratorPanel"] = AdministratorPanelCalls.proceed
    BY DEF AdministratorPanelCalls, Rest
  <1> QED
    BY <1>1, ExpectedFits

(* Monitoring *)
LEMMA MonitorFits ==
    ASSUME NEW d \in DOMAIN MonitorAnswer, NEW name \in {"monitor", "monitoring"},
           name \in DOMAIN Calls[d]
    PROVE  Fits(Calls[d][name], <<MonitorAnswer[d]>>)
  <1>1. d \in {"Ship", "PassiveScanner", "ResourceContainer", "Commutator"}
    BY DEF MonitorAnswer
  <1>2. \E wanted : Calls[d][name] = Expect(wanted)
    BY <1>1 DEF Calls, ShipCalls, PassiveScannerCalls, ResourceContainerCalls, CommutatorCalls
  <1> QED
    BY <1>2, ExpectedFits

(* The messages of an activity and the call that starts it *)
ActivityFits(d) ==
    LET a      == Activities[d]
        script == Calls[d][a.call]
    IN  /\ a.call \notin {"getAttachedModulesList", "allModulesInfo"}
        /\ Fits(script, a.busy) /\ IsQueue(a.started)
        /\ \A kinds \in a.refused : Fits(script, kinds)
        /\ \A kinds \in a.ends : IsQueue(kinds)
        /\ IF d = "AsteroidMiner"
           THEN ~a.owed /\ Fits(script, a.started)
           ELSE /\ a.owed /\ d \in DOMAIN Rest /\ Rest[d] # <<>>
                /\ Understands(script, a.started, Rest[d])
                /\ \A kind \in a.reports : Understands(Rest[d], <<kind>>, Rest[d])
                /\ \A kinds \in a.ends : Fits(Rest[d], kinds)

(* Whatever an activity tells, the call that started it understands. *)
LEMMA ActivitiesFit ==
    ASSUME NEW d \in DOMAIN Activities PROVE ActivityFits(d)
  <1>1. d \in {"CelestialScanner", "AsteroidScanner", "ResourceContainer", "AsteroidMiner"}
    BY DEF Activities
  <1>2. \A k : IsQueue(<<k>>)
    BY SomeKinds
  <1>3. IsQueue(<<>>) /\ IsQueue(<<"mining_report", "mining_is_stopped">>)
    BY EmptyQueue, SomeKinds
  <1>4. CASE d = "CelestialScanner"
    <2>1. Activities[d] = CelestialScan /\ Calls[d] = CelestialScannerCalls
      BY <1>4 DEF Activities, Calls
    <2>2. d \in DOMAIN Rest
      BY <1>4 DEF Rest
    <2>3. Understands(CelestialScannerCalls.scan, <<>>, CelestialScannerCalls.scan)
      BY HearsNothing
    <2>4. /\ CelestialScan.call = "scan" /\ CelestialScan.owed /\ CelestialScan.busy = <<"scanning_failed">>
          /\ CelestialScan.refused = {} /\ CelestialScan.started = <<>> /\ CelestialScan.reports = {}
          /\ CelestialScan.ends = Parts("scanning_report", "last_report")
      BY DEF CelestialScan
    <2> QED
      BY <1>3, <1>4, <2>1, <2>2, <2>3, <2>4, CelestialScanFits DEF ActivityFits, Fits
  <1>5. CASE d = "AsteroidScanner"
    <2>1. Activities[d] = AsteroidScan /\ Calls[d] = AsteroidScannerCalls
      BY <1>5 DEF Activities, Calls
    <2>2. d \in DOMAIN Rest
      BY <1>5 DEF Rest
    <2>3. /\ AsteroidScan.call = "scan" /\ AsteroidScan.owed /\ AsteroidScan.busy = <<"busy">>
          /\ AsteroidScan.refused = {<<"too_far">>} /\ AsteroidScan.started = <<"in_progress">>
          /\ AsteroidScan.reports = {}
          /\ AsteroidScan.ends = {<<"scanning_finished">>, <<"too_far">>}
      BY DEF AsteroidScan
    <2> QED
      BY <1>2, <1>5, <2>1, <2>2, <2>3, AsteroidScanFits DEF ActivityFits, Fits
  <1>6. CASE d = "ResourceContainer"
    <2>1. Activities[d] = Transfer /\ Calls[d] = ResourceContainerCalls
      BY <1>6 DEF Activities, Calls
    <2>2. d \in DOMAIN Rest
      BY <1>6 DEF Rest
    <2>3. /\ Transfer.call = "transfer" /\ Transfer.owed /\ Transfer.busy = <<"transfer_refused">>
          /\ Transfer.refused = {<<"transfer_refused">>} /\ Transfer.started = <<"transfer_started">>
          /\ Transfer.reports = {"transfer_report"} /\ Transfer.ends = {<<"transfer_finished">>}
      BY DEF Transfer
    <2> QED
      BY <1>2, <1>6, <2>1, <2>2, <2>3, TransferFits DEF ActivityFits, Fits
  <1>7. CASE d = "AsteroidMiner"
    <2>1. Activities[d] = Mining /\ Calls[d] = AsteroidMinerCalls
      BY <1>7 DEF Activities, Calls
    <2>2. /\ Mining.call = "startMining" /\ ~Mining.owed /\ Mining.busy = <<"mining_refused">>
          /\ Mining.refused = {<<"mining_refused">>} /\ Mining.started = <<"mining_started">>
          /\ Mining.ends = {<<"mining_report", "mining_is_stopped">>, <<"mining_refused">>}
      BY DEF Mining
    <2> QED
      BY <1>2, <1>3, <1>7, <2>1, <2>2, MiningFits DEF ActivityFits, Fits
  <1> QED
    BY <1>1, <1>4, <1>5, <1>6, <1>7

(* The calls that something at the server was caused by, and 0 *)
Causes == {0} \cup {inbox[i].id : i \in 1 .. Len(inbox)} \cup {t.id : t \in tasks}

(* A step of the server: what it sends and keeps has its causes *)
ServerStep ==
    /\ UNCHANGED <<device, peers, calls>>
    /\ pipe' = [q \in Peers |-> pipe'[q]]
    /\ \A q \in Peers : Adds(pipe[q], pipe'[q], Causes)
    /\ IsQueue(inbox')
    /\ \A i \in 1 .. Len(inbox') : \E j \in 1 .. Len(inbox) : inbox'[i] = inbox[j]
    /\ tasks' \subseteq [peer : peers, id : 0 .. calls, over : BOOLEAN]
    /\ \A t \in tasks' : \/ t.id = 0
                         \/ \E i \in 1 .. Len(inbox) : inbox[i].id = t.id /\ inbox[i].peer = t.peer
                         \/ \E u \in tasks : u.id = t.id /\ u.peer = t.peer
    /\ device = "AdministratorPanel" => \A t, u \in tasks' : t = u
    /\ watchers' \subseteq peers

(* What the server may tell on behalf of *)
LEMMA CausesAreKnown ==
    ASSUME NEW id
    PROVE  /\ id \in Causes <=> \/ id = 0
                                \/ \E i \in 1 .. Len(inbox) : inbox[i].id = id
                                \/ \E t \in tasks : t.id = id
  BY DEF Causes

(* What the server does keeps the types. *)
LEMMA ServerKeepsTypes ==
    ASSUME ConversationTypes, ServerStep, call' = call, slots' = slots PROVE ConversationTypes'
  <1>1. /\ device' \in DOMAIN Calls /\ peers' \subseteq Peers /\ calls' \in Nat
        /\ IsQueue(inbox') /\ IsQueue(slots') /\ Len(slots') > 0
        /\ \A i \in 1 .. Len(slots') : slots'[i] \in BOOLEAN
        /\ tasks' \subseteq [peer : peers', id : 0 .. calls', over : BOOLEAN]
        /\ device' = "AdministratorPanel" => \A t, u \in tasks' : t = u
        /\ watchers' \subseteq peers'
        /\ call' = [p \in Peers |-> call'[p]]
        /\ pipe' = [p \in Peers |-> pipe'[p]]
    BY Zenon DEF ConversationTypes, ServerStep
  <1>2. \A i \in 1 .. Len(inbox') : inbox'[i].peer \in peers' /\ inbox'[i].id \in 1 .. calls'
    BY DEF ConversationTypes, ServerStep
  <1>3. ASSUME NEW p \in Peers
        PROVE  IsQueue(pipe'[p]) /\ CallRecord(call'[p]) /\ call'[p].id \in 0 .. calls'
    BY DEF ConversationTypes, ServerStep, Adds
  <1>4. PeersWait'
    BY DEF ConversationTypes, ServerStep, PeersWait, Waiting
  <1> QED
    BY <1>1, <1>2, <1>3, <1>4, Zenon DEF ConversationTypes

(* What the server does leaves the numbers of calls their own. *)
LEMMA ServerKeepsNumbers ==
    ASSUME ConversationTypes, ServerStep, call' = call, NEW p \in Peers, OwnNumber(p)
    PROVE  OwnNumber(p)'
  <1>1. call[p].id # 0 /\ calls' = calls
    BY DEF OwnNumber, ConversationTypes, ServerStep
  <1>2. \A i \in 1 .. Len(inbox') : inbox'[i].id = call[p].id => inbox'[i].peer = p
    BY DEF OwnNumber, ServerStep
  <1>3. \A t \in tasks' : t.id = call[p].id => t.peer = p
    BY <1>1 DEF OwnNumber, ServerStep
  <1> QED
    BY <1>1, <1>2, <1>3 DEF OwnNumber

(* What has ended is not heard of again. *)
LEMMA NothingIsLeftLater ==
    ASSUME ConversationTypes, ServerStep, NEW p \in Peers, call'[p].id = call[p].id,
           call[p].id # 0, NothingLeft(p)
    PROVE  NothingLeft(p)'
  <1>1. call[p].id \notin Causes
    BY CausesAreKnown DEF NothingLeft
  <1>2. ASSUME NEW i \in 1 .. Len(pipe'[p]) PROVE pipe'[p][i].id # call[p].id
    <2>1. Adds(pipe[p], pipe'[p], Causes) /\ IsQueue(pipe[p])
      BY DEF ServerStep, ConversationTypes
    <2>2. CASE i <= Len(pipe[p])
      <3>1. i \in 1 .. Len(pipe[p]) /\ pipe'[p][i] = pipe[p][i]
        BY <2>1, <2>2, QueueFacts DEF Adds
      <3> QED
        BY <3>1 DEF NothingLeft
    <2>3. CASE ~(i <= Len(pipe[p]))
      BY <1>1, <2>1, <2>3 DEF Adds
    <2> QED
      BY <2>2, <2>3
  <1>3. \A i \in 1 .. Len(inbox') : inbox'[i].id # call[p].id
    BY DEF ServerStep, NothingLeft
  <1>4. \A t \in tasks' : t.id # call[p].id
    BY <1>1, CausesAreKnown DEF ServerStep
  <1> QED
    BY <1>2, <1>3, <1>4 DEF NothingLeft

(* A call that has been told all *)
LEMMA ToldLater ==
    ASSUME ConversationTypes, ServerStep, NEW p \in Peers, OwnNumber(p),
           call'[p] = call[p] \/ (~ListsModules(p) /\ call'[p].id = call[p].id
                                  /\ call'[p].script = call[p].script /\ call'[p].name = call[p].name),
           Told(p)
    PROVE  Told(p)'
  <1>1. call'[p].id = call[p].id /\ call'[p].script = call[p].script /\ call'[p].name = call[p].name
    OBVIOUS
  <1>2. call[p].id \notin Causes
    <2>1. \A i \in 1 .. Len(inbox) : inbox[i].id # call[p].id
      BY DEF Told, NoRequest, OwnNumber
    <2>2. \A t \in tasks : t.id # call[p].id
      BY DEF Told, TasksOf, OwnNumber
    <2>3. call[p].id # 0
      BY DEF OwnNumber, ConversationTypes
    <2> QED
      BY <2>1, <2>2, <2>3, CausesAreKnown
  <1>3. NoRequest(p)'
    BY DEF ServerStep, Told, NoRequest
  <1>4. \A t \in TasksOf(p)' : t.id # call[p].id
    BY <1>2, CausesAreKnown DEF ServerStep, TasksOf
  <1>5. /\ Ends(call[p].script, pipe'[p], call[p].id)
        /\ \A i \in 1 .. Len(pipe'[p]) : pipe'[p][i].id = call[p].id =>
               i \in 1 .. Len(pipe[p]) /\ pipe'[p][i] = pipe[p][i]
    <2>1. Adds(pipe[p], pipe'[p], Causes) /\ IsQueue(pipe[p])
      BY DEF ServerStep, ConversationTypes
    <2>2. Ends(call[p].script, pipe[p], call[p].id)
      BY DEF Told
    <2>3. PICK old, new, id, script, ids :
              /\ old = pipe[p] /\ new = pipe'[p] /\ id = call[p].id /\ script = call[p].script
              /\ ids = Causes
      OBVIOUS
    <2>4. IsQueue(old) /\ Ends(script, old, id) /\ Adds(old, new, ids) /\ id \notin ids
      BY <1>2, <2>1, <2>2, <2>3
    <2>5. Ends(script, new, id) /\ OldOnes(old, new, id)
      BY <2>4, OthersAreTaken
    <2> QED
      BY <2>3, <2>5 DEF OldOnes
  <1>6. OnlyInfos(p)'
    BY <1>1, <1>5 DEF Told, OnlyInfos, ListsModules
  <1> QED
    BY <1>1, <1>3, <1>4, <1>5, <1>6 DEF Told

(* A step that does not reach a session *)
Untouched(p) ==
    /\ pipe'[p] = pipe[p] /\ TasksOf(p)' = TasksOf(p)
    /\ p \notin watchers => p \notin watchers'
    /\ NoRequest(p) => NoRequest(p)'
    /\ \A name : OnlyRequest(p, name) => OnlyRequest(p, name)'

(* A call that nothing happens to stays in its stage. *)
LEMMA UntouchedStaysInStage ==
    ASSUME UNCHANGED <<device, slots>>, NEW p, call'[p] = call[p], Untouched(p), StageOf(p)
    PROVE  StageOf(p)'
  <1>1. Quiet(p) => Quiet(p)'
    BY DEF Quiet, Untouched
  <1>2. ListsModules(p)' = ListsModules(p) /\ OnlyInfos(p)' = OnlyInfos(p) /\ MayWaitInVain(p)' = MayWaitInVain(p)
    BY DEF ListsModules, OnlyInfos, MayWaitInVain, Untouched
  <1>3. Asked(p) => Asked(p)'
    BY <1>1, <1>2, Zenon DEF Asked, Untouched
  <1>4. Counted(p) => Counted(p)'
    BY <1>1, <1>2, Zenon DEF Counted, Untouched
  <1>5. Served(p) => Served(p)'
    BY <1>2, Zenon DEF Served, Untouched
  <1>6. Told(p) => Told(p)'
    BY <1>2, Zenon DEF Told, Untouched
  <1>7. InVain(p) => InVain(p)'
    BY <1>1, <1>2, Zenon DEF InVain, Untouched
  <1> QED
    BY <1>3, <1>4, <1>5, <1>6, <1>7, Zenon DEF StageOf

(* One session is sent something *)
LEMMA TaggedAdds ==
    ASSUME NEW old, IsQueue(old), NEW kinds, IsQueue(kinds), NEW id, id \in Causes
    PROVE  Adds(old, old \o Tagged(kinds, id), Causes)
  <1>1. PICK m, ids : m = Tagged(kinds, id) /\ ids = Causes
    OBVIOUS
  <1>2. IsQueue(m) /\ Tells(m, kinds, id)
    BY <1>1, TaggedFacts
  <1>3. Adds(old, old \o m, ids)
    BY <1>1, <1>2, AddsTold
  <1> QED
    BY <1>1, <1>3

(* Only one pipe is changed. *)
LEMMA SentTo ==
    ASSUME ConversationTypes, NEW q \in Peers, NEW kinds, NEW id, pipe' = Sent(q, kinds, id)
    PROVE  /\ pipe' = [x \in Peers |-> pipe'[x]]
           /\ pipe'[q] = pipe[q] \o Tagged(kinds, id)
           /\ \A x \in Peers \ {q} : pipe'[x] = pipe[x]
  <1>1. pipe = [x \in Peers |-> pipe[x]]
    BY DEF ConversationTypes
  <1> QED
    BY <1>1 DEF Sent

(* An answer is added to the pipe of its caller. *)
LEMMA SentToCaller ==
    ASSUME ConversationTypes, NEW r, r.peer \in Peers, NEW kinds, pipe' = Sent(r.peer, kinds, r.id)
    PROVE  pipe'[r.peer] = pipe[r.peer] \o Tagged(kinds, r.id)
  <1>1. pipe = [x \in Peers |-> pipe[x]]
    BY DEF ConversationTypes
  <1> QED
    BY <1>1 DEF Sent

(* Whatever is sent adds messages of known calls. *)
LEMMA SentReaches ==
    ASSUME ConversationTypes, NEW q \in Peers, NEW kinds, IsQueue(kinds), NEW id, id \in Causes,
           pipe' = Sent(q, kinds, id), NEW x \in Peers
    PROVE  Adds(pipe[x], pipe'[x], Causes)
  <1>1. IsQueue(pipe[x])
    BY DEF ConversationTypes
  <1>2. CASE x = q
    <2>1. pipe'[x] = pipe[x] \o Tagged(kinds, id)
      BY <1>2, SentTo
    <2> QED
      BY <1>1, <2>1, TaggedAdds
  <1>3. CASE x # q
    <2>1. pipe'[x] = pipe[x]
      BY <1>3, SentTo
    <2> QED
      BY <1>1, <2>1, AddsNothing
  <1> QED
    BY <1>2, <1>3

(* A call understands more *)
LEMMA CallGoesOn ==
    ASSUME ConversationTypes, NEW p \in Peers, NEW mid, NEW kinds, IsQueue(kinds), NEW end,
           AllOf(pipe[p], call[p].id), Follows(call[p].script, pipe[p], Len(pipe[p]), mid),
           Understands(mid, kinds, end),
           pipe'[p] = pipe[p] \o Tagged(kinds, call[p].id)
    PROVE  /\ IsQueue(pipe'[p]) /\ Len(pipe'[p]) = Len(pipe[p]) + Len(kinds)
           /\ AllOf(pipe'[p], call[p].id)
           /\ Follows(call[p].script, pipe'[p], Len(pipe'[p]), end)
  <1>1. SoFar(call[p].script, pipe[p], call[p].id, mid)
    BY DEF SoFar, ConversationTypes
  <1>2. SoFar(call[p].script, pipe'[p], call[p].id, end)
    BY <1>1, SoFarGoesOn
  <1>3. Len(pipe'[p]) = Len(pipe[p]) + Len(kinds)
    <2>1. PICK m : m = Tagged(kinds, call[p].id)
      OBVIOUS
    <2>2. IsQueue(m) /\ Len(m) = Len(kinds) /\ IsQueue(pipe[p])
      BY <1>1, <2>1, TaggedFacts DEF Tells, SoFar
    <2>3. Len(pipe[p] \o m) = Len(pipe[p]) + Len(m)
      BY <2>2, QueuesJoin
    <2> QED
      BY <2>1, <2>2, <2>3
  <1> QED
    BY <1>2, <1>3 DEF SoFar

(* A call understands its last message. *)
LEMMA CallIsTold ==
    ASSUME ConversationTypes, NEW p \in Peers, NEW mid, NEW kinds, Fits(mid, kinds),
           AllOf(pipe[p], call[p].id), Follows(call[p].script, pipe[p], Len(pipe[p]), mid),
           pipe'[p] = pipe[p] \o Tagged(kinds, call[p].id), call'[p] = call[p], ~ListsModules(p),
           NoRequest(p)', \A t \in TasksOf(p)' : t.id # call[p].id
    PROVE  Told(p)'
  <1>1. IsQueue(kinds) /\ kinds # <<>> /\ Understands(mid, kinds, <<>>)
    BY DEF Fits
  <1>2. /\ IsQueue(pipe'[p]) /\ Len(pipe'[p]) = Len(pipe[p]) + Len(kinds)
        /\ AllOf(pipe'[p], call[p].id)
        /\ Follows(call[p].script, pipe'[p], Len(pipe'[p]), <<>>)
    BY <1>1, CallGoesOn
  <1>3. Len(pipe'[p]) > 0
    BY <1>1, <1>2, QueueFacts, QueueGives DEF ConversationTypes
  <1>4. Ends(call[p].script, pipe'[p], call[p].id)
    BY <1>2, <1>3, AllOfEnds
  <1> QED
    BY <1>4 DEF Told, OnlyInfos, ListsModules

(* The server handles the first request *)
Taking(r) ==
    /\ inbox # <<>> /\ r = Head(inbox) /\ inbox' = Tail(inbox)
    /\ UNCHANGED <<device, peers, slots, calls>>
Handling(r) == Taking(r) /\ call' = call

(* What is known of a request that is handled *)
LEMMA TakingFacts ==
    ASSUME ConversationTypes, NEW r, Taking(r)
    PROVE  /\ r.peer \in peers /\ r.peer \in Peers /\ r.id \in Causes /\ r.id \in 0 .. calls
           /\ \E i \in 1 .. Len(inbox) : inbox[i] = r
           /\ IsQueue(inbox')
           /\ \A i \in 1 .. Len(inbox') : \E j \in 1 .. Len(inbox) : inbox'[i] = inbox[j]
  <1>1. /\ IsQueue(inbox') /\ 1 \in 1 .. Len(inbox) /\ Head(inbox) = inbox[1]
        /\ \A i \in 1 .. Len(inbox') : i + 1 \in 1 .. Len(inbox) /\ inbox'[i] = inbox[i + 1]
    <2>1. /\ IsQueue(inbox') /\ Len(inbox) > 0 /\ Head(inbox) = inbox[1]
          /\ Len(inbox') = Len(inbox) - 1 /\ Len(inbox) \in Nat
          /\ \A i \in 1 .. Len(inbox) - 1 : inbox'[i] = inbox[i + 1]
      BY QueueGives, QueueFacts DEF ConversationTypes, Taking
    <2> QED
      BY <2>1
  <1>2. r.peer \in peers /\ r.peer \in Peers /\ r.id \in 1 .. calls
    BY <1>1 DEF ConversationTypes, Taking
  <1>3. r.id \in Causes
    BY <1>1, CausesAreKnown DEF Taking
  <1> QED
    BY <1>1, <1>2, <1>3 DEF Taking, ConversationTypes

(* The same of a request that changes no call *)
LEMMA HandlingFacts ==
    ASSUME ConversationTypes, NEW r, Handling(r)
    PROVE  /\ r.peer \in peers /\ r.peer \in Peers /\ r.id \in Causes /\ r.id \in 0 .. calls
           /\ \E i \in 1 .. Len(inbox) : inbox[i] = r
           /\ IsQueue(inbox')
           /\ \A i \in 1 .. Len(inbox') : \E j \in 1 .. Len(inbox) : inbox'[i] = inbox[j]
  BY TakingFacts DEF Handling

(* The handling of a request is a step of the server. *)
LEMMA TakingIsServerStep ==
    ASSUME ConversationTypes, NEW r, Taking(r), pipe' = [x \in Peers |-> pipe'[x]],
           \A x \in Peers : Adds(pipe[x], pipe'[x], Causes),
           \A t \in tasks' : t \in tasks \/ t = Task(r) \/ t = [Task(r) EXCEPT !.id = 0],
           device = "AdministratorPanel" => \A t, u \in tasks' : t = u,
           watchers' \subseteq watchers \cup {r.peer}
    PROVE  ServerStep
  <1>1. /\ r.peer \in peers /\ r.id \in 0 .. calls
        /\ \E i \in 1 .. Len(inbox) : inbox[i] = r
        /\ IsQueue(inbox')
        /\ \A i \in 1 .. Len(inbox') : \E j \in 1 .. Len(inbox) : inbox'[i] = inbox[j]
    BY TakingFacts
  <1>2. /\ Task(r) \in [peer : peers, id : 0 .. calls, over : BOOLEAN]
        /\ [Task(r) EXCEPT !.id = 0] \in [peer : peers, id : 0 .. calls, over : BOOLEAN]
        /\ Task(r).id = r.id /\ Task(r).peer = r.peer /\ [Task(r) EXCEPT !.id = 0].id = 0
    <2>1. calls \in Nat
      BY DEF ConversationTypes
    <2>2. 0 \in 0 .. calls /\ FALSE \in BOOLEAN
      BY <2>1
    <2>3. PICK e : e = Task(r)
      OBVIOUS
    <2>4. e = [peer |-> r.peer, id |-> r.id, over |-> FALSE]
      BY <2>3 DEF Task
    <2>5. e \in [peer : peers, id : 0 .. calls, over : BOOLEAN] /\ e.id = r.id /\ e.peer = r.peer
      BY <1>1, <2>2, <2>4
    <2>6. [e EXCEPT !.id = 0] \in [peer : peers, id : 0 .. calls, over : BOOLEAN] /\ [e EXCEPT !.id = 0].id = 0
      BY <2>2, <2>5
    <2> QED
      BY <2>3, <2>5, <2>6
  <1>3. tasks' \subseteq [peer : peers, id : 0 .. calls, over : BOOLEAN]
    BY <1>2 DEF ConversationTypes
  <1>4. \A t \in tasks' : \/ t.id = 0
                          \/ \E i \in 1 .. Len(inbox) : inbox[i].id = t.id /\ inbox[i].peer = t.peer
                          \/ \E u \in tasks : u.id = t.id /\ u.peer = t.peer
    BY <1>1, <1>2
  <1>5. watchers' \subseteq peers
    BY <1>1 DEF ConversationTypes
  <1> QED
    BY <1>1, <1>3, <1>4, <1>5, Zenon DEF ServerStep, Taking

(* The same of a request that changes no call *)
LEMMA HandlingIsServerStep ==
    ASSUME ConversationTypes, NEW r, Handling(r), pipe' = [x \in Peers |-> pipe'[x]],
           \A x \in Peers : Adds(pipe[x], pipe'[x], Causes),
           \A t \in tasks' : t \in tasks \/ t = Task(r) \/ t = [Task(r) EXCEPT !.id = 0],
           device = "AdministratorPanel" => \A t, u \in tasks' : t = u,
           watchers' \subseteq watchers \cup {r.peer}
    PROVE  ServerStep
  <1>1. Taking(r)
    BY DEF Handling
  <1> QED
    BY <1>1, TakingIsServerStep

(* A clean call whose request is handled *)
LEMMA CallIsTaken ==
    ASSUME ConversationTypes, NEW r, Taking(r), NEW p \in Peers, r.peer = p, CleanCall(p),
           Waiting(p), ~Told(p), call'[p] = call[p]
    PROVE  /\ r.id = call[p].id /\ pipe[p] = <<>> /\ Quiet(p) /\ NoRequest(p)' /\ Asked(p)
           /\ \/ call[p].script = Calls[device][call[p].name] /\ r.name = RequestOf(call[p].name)
              \/ /\ ListsModules(p) /\ call[p].script = ExpectInfos(Len(slots))
                 /\ r.name = "allModulesInfo"
           /\ r.name \notin {"getTotalSlots", "allModulesInfo"} =>
                  /\ ~ListsModules(p) /\ call[p].name = r.name
                  /\ call[p].script = Calls[device][r.name]
  <1>1. /\ NoRequest(p) => r.peer # p
        /\ \A name : OnlyRequest(p, name) => r.name = name /\ r.id = call[p].id /\ NoRequest(p)'
    BY RequestIsTaken DEF Taking, ConversationTypes
  <1>2. Asked(p)
    BY <1>1 DEF CleanCall, StageOf, Counted, Served, Told, InVain
  <1>3. \/ call[p].script = Calls[device][call[p].name] /\ r.name = RequestOf(call[p].name)
        \/ /\ ListsModules(p) /\ call[p].script = ExpectInfos(Len(slots))
           /\ r.name = "allModulesInfo"
    BY <1>1, <1>2 DEF Asked
  <1>4. r.id = call[p].id /\ pipe[p] = <<>> /\ Quiet(p) /\ NoRequest(p)'
    BY <1>1, <1>2 DEF Asked
  <1>5. r.name \notin {"getTotalSlots", "allModulesInfo"} =>
            /\ ~ListsModules(p) /\ call[p].name = r.name
            /\ call[p].script = Calls[device][r.name]
    BY <1>3 DEF RequestOf, ListsModules
  <1> QED
    BY <1>2, <1>3, <1>4, <1>5

(* The same when no call is changed *)
LEMMA CallIsHandled ==
    ASSUME ConversationTypes, NEW r, Handling(r), NEW p \in Peers, r.peer = p, CleanCall(p),
           Waiting(p), ~Told(p)
    PROVE  /\ r.id = call[p].id /\ pipe[p] = <<>> /\ Quiet(p) /\ NoRequest(p)' /\ Asked(p)
           /\ \/ call[p].script = Calls[device][call[p].name] /\ r.name = RequestOf(call[p].name)
              \/ /\ ListsModules(p) /\ call[p].script = ExpectInfos(Len(slots))
                 /\ r.name = "allModulesInfo"
           /\ r.name \notin {"getTotalSlots", "allModulesInfo"} =>
                  /\ ~ListsModules(p) /\ call[p].name = r.name
                  /\ call[p].script = Calls[device][r.name]
  BY CallIsTaken DEF Handling

(* What nobody else asked for does not reach a call. *)
LEMMA OthersWait ==
    ASSUME ConversationTypes, NEW r, Handling(r), NEW p \in Peers, r.peer # p, StageOf(p),
           pipe'[p] = pipe[p], TasksOf(p)' = TasksOf(p), p \notin watchers => p \notin watchers'
    PROVE  StageOf(p)'
  <1>1. call'[p] = call[p]
    BY DEF Handling, Taking
  <1>2. Untouched(p)
    BY <1>1, RequestIsTaken DEF Handling, Taking, ConversationTypes, Untouched
  <1> QED
    BY <1>1, <1>2, UntouchedStaysInStage DEF Handling, Taking

(* The request of a call is answered and nothing more is to come. *)
LEMMA CallIsAnswered ==
    ASSUME ConversationTypes, NEW r, Handling(r), NEW p \in Peers, r.peer = p, CleanCall(p),
           Waiting(p), ~Told(p), ~ListsModules(p), NEW kinds, Fits(call[p].script, kinds),
           pipe'[p] = pipe[p] \o Tagged(kinds, r.id), \A t \in TasksOf(p)' : t.id # call[p].id
    PROVE  StageOf(p)'
  <1>1. r.id = call[p].id /\ pipe[p] = <<>> /\ NoRequest(p)'
    BY CallIsHandled
  <1>2. Len(pipe[p]) = 0 /\ AllOf(pipe[p], call[p].id)
    BY <1>1, EmptyQueue DEF AllOf
  <1>3. Follows(call[p].script, pipe[p], Len(pipe[p]), call[p].script)
    BY <1>2, FollowsNothing
  <1>4. Told(p)'
    BY <1>1, <1>2, <1>3, CallIsTold DEF Handling, Taking
  <1> QED
    BY <1>4 DEF StageOf

(* The request of a call is understood but there is no more to come. *)
LEMMA CallIsLeftWaiting ==
    ASSUME ConversationTypes, NEW r, Handling(r), NEW p \in Peers, r.peer = p, CleanCall(p),
           Waiting(p), ~Told(p), ~ListsModules(p), MayWaitInVain(p)',
           NEW kinds, IsQueue(kinds), NEW end, end # <<>>, Understands(call[p].script, kinds, end),
           pipe'[p] = pipe[p] \o Tagged(kinds, r.id), Quiet(p)'
    PROVE  StageOf(p)'
  <1>1. r.id = call[p].id /\ pipe[p] = <<>> /\ NoRequest(p)'
    BY CallIsHandled
  <1>2. Len(pipe[p]) = 0 /\ AllOf(pipe[p], call[p].id)
    BY <1>1, EmptyQueue DEF AllOf
  <1>3. Follows(call[p].script, pipe[p], Len(pipe[p]), call[p].script)
    BY <1>2, FollowsNothing
  <1>4. AllOf(pipe'[p], call[p].id) /\ Follows(call[p].script, pipe'[p], Len(pipe'[p]), end)
    BY <1>1, <1>2, <1>3, CallGoesOn
  <1>5. call'[p] = call[p] /\ ~ListsModules(p)'
    BY DEF Handling, Taking, ListsModules
  <1>6. InVain(p)'
    BY <1>1, <1>4, <1>5 DEF InVain, OnlyInfos
  <1> QED
    BY <1>6 DEF StageOf

(* The request of a call starts what it is owed. *)
LEMMA CallIsServed ==
    ASSUME ConversationTypes, NEW r, Handling(r), NEW p \in Peers, r.peer = p, CleanCall(p),
           Waiting(p), ~Told(p), ~ListsModules(p), device \in DOMAIN Rest,
           device = "AdministratorPanel" => r.name = "proceed" /\ call[p].name = r.name,
           NEW kinds, IsQueue(kinds), Understands(call[p].script, kinds, Rest[device]),
           pipe'[p] = pipe[p] \o Tagged(kinds, r.id), TasksOf(p)' = {Task(r)}, p \notin watchers'
    PROVE  StageOf(p)'
  <1>1. r.id = call[p].id /\ pipe[p] = <<>> /\ NoRequest(p)'
    BY CallIsHandled
  <1>2. Len(pipe[p]) = 0 /\ AllOf(pipe[p], call[p].id)
    BY <1>1, EmptyQueue DEF AllOf
  <1>3. Follows(call[p].script, pipe[p], Len(pipe[p]), call[p].script)
    BY <1>2, FollowsNothing
  <1>4. AllOf(pipe'[p], call[p].id) /\ Follows(call[p].script, pipe'[p], Len(pipe'[p]), Rest[device])
    BY <1>1, <1>2, <1>3, CallGoesOn
  <1>5. call'[p] = call[p] /\ device' = device /\ ~ListsModules(p)'
    BY DEF Handling, Taking, ListsModules
  <1>6. Task(r).id = call[p].id
    BY <1>1 DEF Task
  <1>7. Served(p)'
    BY <1>1, <1>4, <1>5, <1>6 DEF Served
  <1> QED
    BY <1>7 DEF StageOf

(* A step of the server after which the calls that wait are in order *)
CallsGoOn ==
    /\ ServerStep
    /\ \A p \in Peers : CleanCall(p) /\ Waiting(p) /\ ~Told(p) => StageOf(p)'

(* A handled request reaches its caller only: the calls go on if the caller's does. *)
LEMMA CallsGoOnAlone ==
    ASSUME ConversationTypes, NEW r, Handling(r), NEW kinds, IsQueue(kinds),
           pipe' = Sent(r.peer, kinds, r.id),
           \A t \in tasks' : t \in tasks \/ t = Task(r) \/ t = [Task(r) EXCEPT !.id = 0],
           device = "AdministratorPanel" => \A t, u \in tasks' : t = u,
           watchers' \subseteq watchers \cup {r.peer},
           \A p \in Peers \ {r.peer} : StageOf(p) => TasksOf(p)' = TasksOf(p),
           CleanCall(r.peer) /\ Waiting(r.peer) /\ ~Told(r.peer) => StageOf(r.peer)'
    PROVE  CallsGoOn
  <1>1. r.peer \in Peers /\ r.id \in Causes
    BY HandlingFacts
  <1>2. /\ pipe' = [x \in Peers |-> pipe'[x]]
        /\ \A x \in Peers : Adds(pipe[x], pipe'[x], Causes)
        /\ \A x \in Peers \ {r.peer} : pipe'[x] = pipe[x]
    BY <1>1, SentTo, SentReaches
  <1>3. ServerStep
    BY <1>2, HandlingIsServerStep
  <1>4. ASSUME NEW p \in Peers, CleanCall(p), Waiting(p), ~Told(p) PROVE StageOf(p)'
    <2>1. StageOf(p)
      BY <1>4 DEF CleanCall
    <2>2. CASE p = r.peer
      BY <1>4, <2>2
    <2>3. CASE p # r.peer
      <3>1. pipe'[p] = pipe[p] /\ TasksOf(p)' = TasksOf(p) /\ (p \notin watchers => p \notin watchers')
        BY <1>2, <2>1, <2>3
      <3> QED
        BY <2>1, <2>3, <3>1, OthersWait
    <2> QED
      BY <2>2, <2>3
  <1> QED
    BY <1>3, <1>4 DEF CallsGoOn

(* No device answers for the attached modules at once. *)
LEMMA InfosAreNotAnswers ==
    ASSUME NEW d \in DOMAIN Calls
    PROVE  "allModulesInfo" \notin DOMAIN Answers[d]
  <1>1. d \in {"Engine", "Ship", "CelestialScanner", "AsteroidScanner", "PassiveScanner",
               "ResourceContainer", "AsteroidMiner", "Shipyard", "BlueprintsStorage", "Messanger",
               "Commutator", "AdministratorPanel"}
    BY DEF Calls
  <1>2. Answers[d] \in {EngineAnswers, ShipAnswers, ScannerAnswers, ResourceContainerAnswers,
                        AsteroidMinerAnswers, ShipyardAnswers, BlueprintsStorageAnswers,
                        MessangerAnswers, CommutatorAnswers, ClockControlAnswers}
    BY <1>1 DEF Answers
  <1> QED
    BY <1>2 DEF EngineAnswers, ShipAnswers, ScannerAnswers, ResourceContainerAnswers,
                AsteroidMinerAnswers, ShipyardAnswers, BlueprintsStorageAnswers,
                MessangerAnswers, CommutatorAnswers, ClockControlAnswers

(* A request that is answered at once leaves the calls in order. *)
LEMMA AnswerGoesOn ==
    ASSUME ConversationTypes, NEW r, Handling(r), Answer(r) PROVE CallsGoOn
  <1>1. PICK kinds \in Answers[device][r.name] : pipe' = Sent(r.peer, kinds, r.id)
    BY DEF Answer
  <1>2. r.name \in DOMAIN Answers[device] /\ tasks' = tasks /\ watchers' = watchers /\ device \in DOMAIN Calls
    BY DEF Answer, ConversationTypes
  <1>3. /\ IsQueue(kinds)
        /\ r.name = "getTotalSlots" => kinds = <<"total_slots">>
        /\ CASE r.name = "cancelBuild" -> kinds = <<>>
             [] r.name = "switchMode"  -> kinds = <<"status">> /\ device = "AdministratorPanel"
             [] r.name = "setThrust"   -> kinds = <<>> /\ Calls[device][r.name] = <<>>
             [] OTHER                  -> Fits(Calls[device][r.name], kinds)
    BY <1>2, AnswersFit
  <1>4. \A p \in Peers : TasksOf(p)' = TasksOf(p)
    BY <1>2 DEF TasksOf
  <1>5. device = "AdministratorPanel" => \A t, u \in tasks' : t = u
    BY <1>2 DEF ConversationTypes
  <1>6. ASSUME CleanCall(r.peer), Waiting(r.peer), ~Told(r.peer) PROVE StageOf(r.peer)'
    <2> DEFINE p == r.peer
    <2>1. p \in Peers
      BY HandlingFacts
    <2>2. r.name # "allModulesInfo"
      BY <1>2, InfosAreNotAnswers
    <2>3. /\ r.id = call[p].id /\ pipe[p] = <<>> /\ Quiet(p) /\ NoRequest(p)'
          /\ call[p].script = Calls[device][call[p].name] /\ r.name = RequestOf(call[p].name)
      BY <1>6, <2>1, <2>2, CallIsHandled
    <2>4. pipe'[p] = pipe[p] \o Tagged(kinds, r.id) /\ IsQueue(pipe[p])
      BY <1>1, <2>1, SentToCaller DEF ConversationTypes
    <2>5. Quiet(p)' /\ TasksOf(p)' = {} /\ call'[p] = call[p] /\ slots' = slots
      BY <1>2, <1>4, <2>1, <2>3 DEF Quiet, Handling, Taking
    <2>6. CASE ListsModules(p)
      <3>1. kinds = <<"total_slots">>
        BY <1>3, <2>3, <2>6 DEF ListsModules, RequestOf
      <3>2. PICK m : m = Tagged(kinds, r.id)
        OBVIOUS
      <3>3. /\ IsQueue(m) /\ Len(m) = 1 /\ m[1].kind = "total_slots" /\ m[1].id = r.id
            /\ m[1].total = Len(slots)
        <4>1. Len(kinds) = 1 /\ kinds[1] = "total_slots"
          BY <3>1
        <4>2. 1 \in 1 .. Len(kinds)
          BY <4>1
        <4> QED
          BY <1>3, <3>2, <4>1, <4>2, TaggedFacts DEF Tells
      <3>4. pipe'[p] = m
        BY <2>3, <2>4, <3>2, <3>3 DEF IsQueue
      <3>5. Counted(p)'
        BY <2>3, <2>5, <2>6, <3>3, <3>4 DEF Counted, ListsModules
      <3> QED
        BY <3>5 DEF StageOf
    <2>7. CASE ~ListsModules(p)
      <3>1. call[p].name = r.name /\ call[p].script = Calls[device][r.name] /\ call[p].script # <<>>
        BY <1>6, <2>3, <2>7 DEF ListsModules, RequestOf, Waiting
      <3>2. CASE r.name = "cancelBuild"
        <4>1. kinds = <<>> /\ Understands(call[p].script, kinds, call[p].script)
          BY <1>3, <3>2, HearsNothing
        <4>2. MayWaitInVain(p)'
          BY <2>5, <3>1, <3>2 DEF MayWaitInVain
        <4> QED
          BY <1>3, <1>6, <2>1, <2>4, <2>5, <2>7, <3>1, <4>1, <4>2, CallIsLeftWaiting
      <3>3. CASE r.name = "switchMode"
        <4>1. kinds = <<"status">> /\ Calls[device] = AdministratorPanelCalls
          BY <1>3, <3>3 DEF Calls
        <4>2. PICK end : end # <<>> /\ Understands(call[p].script, kinds, end)
          BY <3>1, <3>3, <4>1, SwitchWaitsOn
        <4>3. MayWaitInVain(p)'
          BY <2>5, <3>1, <3>3 DEF MayWaitInVain
        <4> QED
          BY <1>3, <1>6, <2>1, <2>4, <2>5, <2>7, <4>2, <4>3, CallIsLeftWaiting
      <3>4. CASE r.name \notin {"cancelBuild", "switchMode"}
        <4>1. Fits(call[p].script, kinds)
          BY <1>3, <3>1, <3>4
        <4> QED
          BY <1>6, <2>1, <2>4, <2>5, <2>7, <4>1, CallIsAnswered
      <3> QED
        BY <3>2, <3>3, <3>4
    <2> QED
      BY <2>6, <2>7
  <1> QED
    BY <1>1, <1>2, <1>3, <1>4, <1>5, <1>6, CallsGoOnAlone

(* A request is answered and starts nothing. *)
LEMMA RequestIsAnswered ==
    ASSUME ConversationTypes, NEW r, Handling(r), r.name \notin {"getTotalSlots", "allModulesInfo"},
           NEW kinds, IsQueue(kinds), pipe' = Sent(r.peer, kinds, r.id),
           r.name \in DOMAIN Calls[device] =>
               Calls[device][r.name] = <<>> \/ Fits(Calls[device][r.name], kinds),
           tasks' = tasks, watchers' \subseteq watchers \cup {r.peer}
    PROVE  CallsGoOn
  <1>1. \A p \in Peers : TasksOf(p)' = TasksOf(p)
    BY DEF TasksOf
  <1>2. device = "AdministratorPanel" => \A t, u \in tasks' : t = u
    BY DEF ConversationTypes
  <1>3. ASSUME CleanCall(r.peer), Waiting(r.peer), ~Told(r.peer) PROVE StageOf(r.peer)'
    <2>1. r.peer \in Peers
      BY HandlingFacts
    <2>2. /\ r.id = call[r.peer].id /\ Quiet(r.peer) /\ ~ListsModules(r.peer)
          /\ call[r.peer].name = r.name /\ call[r.peer].script = Calls[device][r.name]
      BY <1>3, <2>1, CallIsHandled
    <2>3. Fits(call[r.peer].script, kinds)
      BY <1>3, <2>2 DEF CleanCall, Waiting
    <2>4. pipe'[r.peer] = pipe[r.peer] \o Tagged(kinds, r.id)
      BY <2>1, SentToCaller
    <2>5. \A t \in TasksOf(r.peer)' : t.id # call[r.peer].id
      BY <1>1, <2>1, <2>2 DEF Quiet
    <2> QED
      BY <1>3, <2>1, <2>2, <2>3, <2>4, <2>5, CallIsAnswered
  <1>4. \A t \in tasks' : t \in tasks
    OBVIOUS
  <1> QED
    BY <1>1, <1>2, <1>3, <1>4, CallsGoOnAlone

(* A request is answered and starts what its call is owed. *)
LEMMA RequestIsServed ==
    ASSUME ConversationTypes, NEW r, Handling(r), r.name \notin {"getTotalSlots", "allModulesInfo"},
           NEW kinds, IsQueue(kinds), pipe' = Sent(r.peer, kinds, r.id),
           device \in DOMAIN Rest, device # "AdministratorPanel",
           Understands(Calls[device][r.name], kinds, Rest[device]),
           tasks = {}, tasks' = {Task(r)}, watchers' = watchers
    PROVE  CallsGoOn
  <1>1. Task(r).peer = r.peer
    BY DEF Task
  <1>2. \A p \in Peers \ {r.peer} : TasksOf(p)' = TasksOf(p)
    BY <1>1 DEF TasksOf
  <1>3. ASSUME CleanCall(r.peer), Waiting(r.peer), ~Told(r.peer) PROVE StageOf(r.peer)'
    <2>1. r.peer \in Peers
      BY HandlingFacts
    <2>2. /\ r.id = call[r.peer].id /\ Quiet(r.peer) /\ ~ListsModules(r.peer)
          /\ call[r.peer].script = Calls[device][r.name]
      BY <1>3, <2>1, CallIsHandled
    <2>3. pipe'[r.peer] = pipe[r.peer] \o Tagged(kinds, r.id)
      BY <2>1, SentToCaller
    <2>4. TasksOf(r.peer)' = {Task(r)} /\ r.peer \notin watchers'
      BY <1>1, <2>2 DEF TasksOf, Quiet
    <2> QED
      BY <1>3, <2>1, <2>2, <2>3, <2>4, CallIsServed
  <1>4. device # "AdministratorPanel" /\ \A t \in tasks' : t = Task(r)
    OBVIOUS
  <1> QED
    BY <1>2, <1>3, <1>4, CallsGoOnAlone

(* So does one that begins an activity or is refused. *)
LEMMA BeginGoesOn ==
    ASSUME ConversationTypes, NEW r, Handling(r), Begin(r) PROVE CallsGoOn
  <1> DEFINE a == Activities[device]
  <1>1. /\ device \in DOMAIN Activities /\ r.name = a.call /\ watchers' = watchers
        /\ \/ pipe' = Sent(r.peer, a.busy, r.id) /\ tasks' = tasks
           \/ \E kinds \in a.refused : pipe' = Sent(r.peer, kinds, r.id) /\ tasks' = tasks
           \/ /\ tasks = {} /\ pipe' = Sent(r.peer, a.started, r.id)
              /\ tasks' = {[Task(r) EXCEPT !.id = IF a.owed THEN @ ELSE 0]}
    BY Zenon DEF Begin
  <1>2. ActivityFits(device)
    BY <1>1, ActivitiesFit
  <1>3. r.name \notin {"getTotalSlots", "allModulesInfo"}
    <2>1. device \in {"CelestialScanner", "AsteroidScanner", "ResourceContainer", "AsteroidMiner"}
      BY <1>1 DEF Activities
    <2>2. a.call \in {"scan", "transfer", "startMining"}
      BY <2>1 DEF Activities, CelestialScan, AsteroidScan, Transfer, Mining
    <2> QED
      BY <1>1, <2>2
  <1>4. CASE pipe' = Sent(r.peer, a.busy, r.id) /\ tasks' = tasks
    <2>1. Fits(Calls[device][r.name], a.busy) /\ IsQueue(a.busy)
      BY <1>1, <1>2 DEF ActivityFits, Fits
    <2> QED
      BY <1>1, <1>3, <1>4, <2>1, RequestIsAnswered
  <1>5. CASE \E kinds \in a.refused : pipe' = Sent(r.peer, kinds, r.id) /\ tasks' = tasks
    <2>1. PICK kinds \in a.refused : pipe' = Sent(r.peer, kinds, r.id) /\ tasks' = tasks
      BY <1>5
    <2>2. Fits(Calls[device][r.name], kinds) /\ IsQueue(kinds)
      BY <1>1, <1>2 DEF ActivityFits, Fits
    <2> QED
      BY <1>1, <1>3, <2>1, <2>2, RequestIsAnswered
  <1>6. CASE /\ tasks = {} /\ pipe' = Sent(r.peer, a.started, r.id)
             /\ tasks' = {[Task(r) EXCEPT !.id = IF a.owed THEN @ ELSE 0]}
    <2>1. IsQueue(a.started)
      BY <1>2 DEF ActivityFits
    <2>2. CASE device # "AsteroidMiner"
      <3>1. /\ a.owed /\ device \in DOMAIN Rest
            /\ Understands(Calls[device][r.name], a.started, Rest[device])
        BY <1>1, <1>2, <2>2 DEF ActivityFits
      <3>2. tasks' = {Task(r)}
        BY <1>6, <3>1 DEF Task
      <3>3. device # "AdministratorPanel"
        BY <1>1 DEF Activities
      <3> QED
        BY <1>1, <1>3, <1>6, <2>1, <3>1, <3>2, <3>3, RequestIsServed
    <2>3. CASE device = "AsteroidMiner"
      <3>1. ~a.owed /\ Fits(Calls[device][r.name], a.started)
        BY <1>1, <1>2, <2>3 DEF ActivityFits
      <3>2. tasks' = {[Task(r) EXCEPT !.id = 0]}
        BY <1>6, <3>1
      <3>3. PICK t : t = [Task(r) EXCEPT !.id = 0]
        OBVIOUS
      <3>4. t.id = 0 /\ t.peer = r.peer
        BY <3>3 DEF Task
      <3>5. ASSUME CleanCall(r.peer), Waiting(r.peer), ~Told(r.peer) PROVE StageOf(r.peer)'
        <4>1. r.peer \in Peers
          BY HandlingFacts
        <4>2. /\ call[r.peer].id = r.id /\ ~ListsModules(r.peer)
              /\ call[r.peer].script = Calls[device][r.name]
          BY <1>3, <3>5, <4>1, CallIsHandled
        <4>3. call[r.peer].id # 0
          BY <3>5, <4>1 DEF CleanCall, OwnNumber, ConversationTypes
        <4>4. \A u \in TasksOf(r.peer)' : u.id # call[r.peer].id
          BY <3>2, <3>3, <3>4, <4>3 DEF TasksOf
        <4>5. pipe'[r.peer] = pipe[r.peer] \o Tagged(a.started, r.id)
          BY <1>6, <4>1, SentToCaller
        <4> QED
          BY <3>1, <3>5, <4>1, <4>2, <4>4, <4>5, CallIsAnswered
      <3>6. \A p \in Peers \ {r.peer} : TasksOf(p)' = TasksOf(p)
        BY <1>6, <3>2, <3>3, <3>4 DEF TasksOf
      <3>7. device # "AdministratorPanel" /\ watchers' = watchers
        BY <1>1, <2>3
      <3> QED
        BY <1>6, <2>1, <3>2, <3>5, <3>6, <3>7, CallsGoOnAlone
    <2> QED
      BY <2>2, <2>3
  <1> QED
    BY <1>1, <1>4, <1>5, <1>6

(* Two sessions, which may be the same one, are sent something. *)
AndBoth(old, x, a, first, i, b, second, j) ==
    old \o (IF x = a THEN Tagged(first, i) ELSE <<>>) \o (IF x = b THEN Tagged(second, j) ELSE <<>>)

BothReach(x, a, first, i, b, second, j) ==
    /\ Adds(pipe[x], pipe'[x], Causes)
    /\ x # a /\ x # b => pipe'[x] = pipe[x]
    /\ x = a /\ x # b => pipe'[x] = pipe[x] \o Tagged(first, i)
    /\ x = b /\ x # a => pipe'[x] = pipe[x] \o Tagged(second, j)

(* One session is sent two messages on behalf of two calls. *)
LEMMA SentBoth ==
    ASSUME ConversationTypes, NEW x \in Peers, NEW a, NEW b, NEW first, IsQueue(first),
           NEW second, IsQueue(second), NEW i, i \in Causes, NEW j, j \in Causes,
           pipe'[x] = AndBoth(pipe[x], x, a, first, i, b, second, j)
    PROVE  BothReach(x, a, first, i, b, second, j)
  <1>1. PICK m : m = IF x = a THEN Tagged(first, i) ELSE <<>>
    OBVIOUS
  <1>2. PICK n : n = IF x = b THEN Tagged(second, j) ELSE <<>>
    OBVIOUS
  <1>3. PICK old, new, ids : old = pipe[x] /\ new = pipe'[x] /\ ids = Causes
    OBVIOUS
  <1>4. new = (old \o m) \o n
    BY <1>1, <1>2, <1>3, Zenon DEF AndBoth
  <1>5. \A q, k : IsQueue(q) /\ k \in ids =>
            IsQueue(Tagged(q, k)) /\ \A l \in 1 .. Len(Tagged(q, k)) : Tagged(q, k)[l].id \in ids
    <2>1. ASSUME NEW q, NEW k, IsQueue(q), k \in ids
          PROVE  IsQueue(Tagged(q, k)) /\ \A l \in 1 .. Len(Tagged(q, k)) : Tagged(q, k)[l].id \in ids
      <3>1. IsQueue(Tagged(q, k)) /\ Tells(Tagged(q, k), q, k)
        BY <2>1, TaggedFacts
      <3> QED
        BY <2>1, <3>1 DEF Tells
    <2> QED
      BY <2>1
  <1>6. IsQueue(<<>>) /\ \A l \in 1 .. Len(<<>>) : FALSE
    BY EmptyQueue
  <1>7. IsQueue(m) /\ \A l \in 1 .. Len(m) : m[l].id \in ids
    BY <1>1, <1>3, <1>5, <1>6
  <1>8. IsQueue(n) /\ \A l \in 1 .. Len(n) : n[l].id \in ids
    BY <1>2, <1>3, <1>5, <1>6
  <1>9. IsQueue(old)
    BY <1>3 DEF ConversationTypes
  <1>10. Adds(old, new, ids) /\ (m = <<>> => new = old \o n) /\ (n = <<>> => new = old \o m)
    <2>1. Adds(old, new, ids)
      BY <1>4, <1>7, <1>8, <1>9, AddsBoth
    <2>2. m = <<>> => new = old \o n
      BY <1>4, <1>7, <1>8, <1>9, AddsBoth
    <2>3. n = <<>> => new = old \o m
      BY <1>4, <1>7, <1>8, <1>9, AddsBoth
    <2> QED
      BY <2>1, <2>2, <2>3
  <1>11. \A s : IsQueue(s) => s \o <<>> = s
    BY DEF IsQueue
  <1>12. x # a /\ x # b => new = old
    BY <1>1, <1>2, <1>9, <1>10, <1>11, Zenon
  <1>13. x = a /\ x # b => new = old \o Tagged(first, i)
    BY <1>1, <1>2, <1>10, Zenon
  <1>14. x = b /\ x # a => new = old \o Tagged(second, j)
    BY <1>1, <1>2, <1>10, Zenon
  <1> QED
    BY <1>3, <1>10, <1>12, <1>13, <1>14, Zenon DEF BothReach

(* A session that a clean call waits on has no tasks and gets no updates until it is served or told. *)
LEMMA WaitsAlone ==
    ASSUME NEW p \in Peers, CleanCall(p), Waiting(p), ~Told(p)
    PROVE  p \notin watchers /\ (device \notin DOMAIN Rest => TasksOf(p) = {}) /\ StageOf(p)
  BY DEF CleanCall, StageOf, Asked, Counted, Served, InVain, Quiet

(* The miner is stopped: the caller is answered, the owner of the activity is told. *)
LEMMA StopMiningGoesOn ==
    ASSUME ConversationTypes, NEW r, Handling(r), StopMining(r) PROVE CallsGoOn
  <1>1. device = "AsteroidMiner" /\ r.name = "stopMining" /\ watchers' = watchers
    BY DEF StopMining
  <1>2. Calls[device] = AsteroidMinerCalls /\ device \notin DOMAIN Rest
    BY <1>1 DEF Calls, Rest
  <1>3. IsQueue(<<"miner_is_idle">>) /\ IsQueue(<<"stopping">>) /\ IsQueue(<<"mining_is_stopped">>)
    BY SomeKinds
  <1>4. CASE pipe' = Sent(r.peer, <<"miner_is_idle">>, r.id) /\ tasks' = tasks
    <2>1. r.name \notin {"getTotalSlots", "allModulesInfo"} /\ tasks' = tasks
      BY <1>1, <1>4
    <2>2. Fits(Calls[device][r.name], <<"miner_is_idle">>)
      BY <1>1, <1>2, MiningFits
    <2> QED
      BY <1>1, <1>3, <1>4, <2>1, <2>2, RequestIsAnswered
  <1>5. ASSUME NEW t \in tasks, tasks' = {},
               pipe' = [p \in Peers |->
                   pipe[p] \o (IF p = r.peer THEN Tagged(<<"stopping">>, r.id) ELSE <<>>)
                           \o (IF p = t.peer THEN Tagged(<<"mining_is_stopped">>,
                                                         IF p = r.peer THEN r.id ELSE 0)
                                             ELSE <<>>)]
        PROVE  CallsGoOn
    <2>1. r.peer \in Peers /\ r.id \in Causes /\ 0 \in Causes
      BY HandlingFacts, CausesAreKnown
    <2>2. ASSUME NEW x \in Peers
          PROVE  /\ Adds(pipe[x], pipe'[x], Causes)
                 /\ x # r.peer /\ x # t.peer => pipe'[x] = pipe[x]
                 /\ x = r.peer /\ x # t.peer => pipe'[x] = pipe[x] \o Tagged(<<"stopping">>, r.id)
      <3>1. PICK j : j = IF x = r.peer THEN r.id ELSE 0
        OBVIOUS
      <3>2. PICK a, b, i : a = r.peer /\ b = t.peer /\ i = r.id
        OBVIOUS
      <3>6. PICK first, second : first = <<"stopping">> /\ second = <<"mining_is_stopped">>
        OBVIOUS
      <3>3. pipe'[x] = AndBoth(pipe[x], x, a, first, i, b, second, j)
        BY <1>5, <3>1, <3>2, <3>6, Zenon DEF AndBoth
      <3>4. i \in Causes /\ j \in Causes /\ IsQueue(first) /\ IsQueue(second)
        BY <1>3, <2>1, <3>1, <3>2, <3>6
      <3>5. BothReach(x, a, first, i, b, second, j)
        BY <3>3, <3>4, SentBoth
      <3> QED
        BY <3>2, <3>5, <3>6, Zenon DEF BothReach
    <2>3. ServerStep
      <3>1. /\ pipe' = [x \in Peers |-> pipe'[x]] /\ \A u \in tasks' : u \in tasks
            /\ device # "AdministratorPanel" /\ watchers' \subseteq watchers \cup {r.peer}
        BY <1>1, <1>5
      <3> QED
        BY <2>2, <3>1, HandlingIsServerStep
    <2>4. ASSUME NEW p \in Peers, CleanCall(p), Waiting(p), ~Told(p) PROVE StageOf(p)'
      <3>1. p \notin watchers /\ TasksOf(p) = {} /\ StageOf(p)
        BY <1>2, <2>4, WaitsAlone
      <3>2. p # t.peer /\ TasksOf(p)' = {}
        BY <1>5, <3>1 DEF TasksOf
      <3>3. CASE p # r.peer
        BY <1>1, <2>2, <3>1, <3>2, <3>3, OthersWait
      <3>4. CASE p = r.peer
        <4>1. /\ r.name \notin {"getTotalSlots", "allModulesInfo"} /\ p \notin watchers'
          BY <1>1, <3>1
        <4>2. /\ ~ListsModules(p) /\ call[p].name = "stopMining"
              /\ call[p].script = AsteroidMinerCalls.stopMining
          BY <1>1, <1>2, <2>4, <3>4, <4>1, CallIsHandled
        <4>3. PICK end : end # <<>> /\ Understands(call[p].script, <<"stopping">>, end)
          BY <4>2, MiningFits
        <4>4. MayWaitInVain(p)' /\ Quiet(p)'
          BY <3>2, <4>1, <4>2 DEF MayWaitInVain, Quiet, Handling, Taking
        <4>5. pipe'[p] = pipe[p] \o Tagged(<<"stopping">>, r.id)
          BY <2>2, <3>2, <3>4
        <4>6. StageOf(p)'
          BY <1>3, <2>4, <3>4, <4>2, <4>3, <4>4, <4>5, CallIsLeftWaiting
        <4> QED
          BY <4>6
      <3> QED
        BY <3>3, <3>4
    <2> QED
      BY <2>3, <2>4 DEF CallsGoOn
  <1> QED
    BY <1>4, <1>5 DEF StopMining

(* What is told to all sessions *)
LEMMA SentToAllReaches ==
    ASSUME ConversationTypes, NEW kinds, IsQueue(kinds), NEW caller, NEW id, id \in Causes,
           pipe' = SentToAll(kinds, caller, id), NEW x \in Peers
    PROVE  Adds(pipe[x], pipe'[x], Causes)
  <1>1. IsQueue(pipe[x]) /\ 0 \in Causes
    BY CausesAreKnown DEF ConversationTypes
  <1>2. PICK k : k = IF x = caller THEN id ELSE 0
    OBVIOUS
  <1>3. pipe'[x] = IF x \in peers THEN pipe[x] \o Tagged(kinds, k) ELSE pipe[x]
    BY <1>2 DEF SentToAll
  <1>4. Adds(pipe[x], pipe[x] \o Tagged(kinds, k), Causes)
    BY <1>1, <1>2, TaggedAdds
  <1>5. Adds(pipe[x], pipe[x], Causes)
    BY <1>1, AddsNothing
  <1> QED
    BY <1>3, <1>4, <1>5

(* What is told to all sessions reaches the caller as an answer to its call. *)
LEMMA ToldToCaller ==
    ASSUME NEW kinds, NEW r, pipe' = SentToAll(kinds, r.peer, r.id), r.peer \in peers, r.peer \in Peers
    PROVE  pipe'[r.peer] = pipe[r.peer] \o Tagged(kinds, r.id)
  BY DEF SentToAll

(* The start of a build is told to all sessions of the shipyard. *)
LEMMA StartBuildGoesOn ==
    ASSUME ConversationTypes, NEW r, Handling(r), StartBuild(r) PROVE CallsGoOn
  <1>1. /\ device = "Shipyard" /\ r.name = "build" /\ watchers' = watchers
        /\ r.name \notin {"getTotalSlots", "allModulesInfo"}
    BY DEF StartBuild
  <1>2. Calls[device] = ShipyardCalls /\ device \in DOMAIN Rest /\ device # "AdministratorPanel"
    BY <1>1 DEF Calls, Rest
  <1>3. IsQueue(<<"shipyard_is_busy">>) /\ IsQueue(<<"build_refused">>) /\ IsQueue(<<"build_started">>)
    BY SomeKinds
  <1>4. CASE pipe' = SentToAll(<<"shipyard_is_busy">>, r.peer, r.id) /\ tasks' = tasks
    <2>1. r.peer \in Peers /\ r.peer \in peers /\ r.id \in Causes
      BY HandlingFacts
    <2>2. ServerStep
      <3>1. \A x \in Peers : Adds(pipe[x], pipe'[x], Causes)
        BY <1>3, <1>4, <2>1, SentToAllReaches
      <3>2. pipe' = [x \in Peers |-> pipe'[x]]
        BY <1>4 DEF SentToAll
      <3>3. (\A t \in tasks' : t \in tasks) /\ watchers' \subseteq watchers \cup {r.peer}
        BY <1>1, <1>4
      <3> QED
        BY <1>2, <3>1, <3>2, <3>3, HandlingIsServerStep
    <2>3. ASSUME NEW p \in Peers, CleanCall(p), Waiting(p), ~Told(p) PROVE StageOf(p)'
      <3>1. r.peer = p
        BY <1>1, <2>1, <2>3 DEF CleanCall
      <3>2. /\ ~ListsModules(p) /\ call[p].script = ShipyardCalls.build /\ Quiet(p)
        BY <1>1, <1>2, <2>3, <3>1, CallIsHandled
      <3>3. Fits(call[p].script, <<"shipyard_is_busy">>)
        BY <3>2, BuildFits
      <3>4. pipe'[p] = pipe[p] \o Tagged(<<"shipyard_is_busy">>, r.id)
        BY <1>4, <2>1, <3>1, ToldToCaller
      <3>5. TasksOf(p)' = {}
        BY <1>4, <3>2 DEF TasksOf, Quiet
      <3> QED
        BY <2>3, <3>1, <3>2, <3>3, <3>4, <3>5, CallIsAnswered
    <2> QED
      BY <2>2, <2>3 DEF CallsGoOn
  <1>5. CASE pipe' = Sent(r.peer, <<"build_refused">>, r.id) /\ tasks' = tasks
    <2>1. Fits(Calls[device][r.name], <<"build_refused">>)
      BY <1>1, <1>2, BuildFits
    <2> QED
      BY <1>1, <1>3, <1>5, <2>1, RequestIsAnswered
  <1>6. CASE tasks = {} /\ pipe' = Sent(r.peer, <<"build_started">>, r.id) /\ tasks' = {Task(r)}
    <2>1. Understands(Calls[device][r.name], <<"build_started">>, Rest[device])
      BY <1>1, <1>2, BuildFits
    <2> QED
      BY <1>1, <1>2, <1>3, <1>6, <2>1, RequestIsServed
  <1> QED
    BY <1>4, <1>5, <1>6 DEF StartBuild

(* Ticks are counted down, for one request at a time. *)
LEMMA ProceedTicksGoesOn ==
    ASSUME ConversationTypes, NEW r, Handling(r), ProceedTicks(r) PROVE CallsGoOn
  <1>1. /\ device = "AdministratorPanel" /\ r.name = "proceed" /\ watchers' = watchers
        /\ r.name \notin {"getTotalSlots", "allModulesInfo"}
    BY DEF ProceedTicks
  <1>2. /\ Calls[device] = AdministratorPanelCalls /\ device \in DOMAIN Rest
        /\ Rest[device] = AdministratorPanelCalls.proceed /\ Rest[device] # <<>>
    BY <1>1, ProceedFits DEF Calls, Rest
  <1>3. CASE pipe' = Sent(r.peer, <<"status">>, r.id) /\ tasks' = tasks
    <2>1. Fits(Calls[device][r.name], <<"status">>) /\ IsQueue(<<"status">>)
      BY <1>1, <1>2, ProceedFits, SomeKinds
    <2> QED
      BY <1>1, <1>3, <2>1, RequestIsAnswered
  <1>4. CASE tasks' = {Task(r)} /\ pipe' = pipe
    <2>1. r.peer \in Peers /\ Task(r).peer = r.peer
      BY HandlingFacts DEF Task
    <2>2. ServerStep
      <3>1. \A x \in Peers : Adds(pipe[x], pipe'[x], Causes)
        BY <1>4, AddsNothing DEF ConversationTypes
      <3>2. pipe' = [x \in Peers |-> pipe'[x]]
        BY <1>4 DEF ConversationTypes
      <3>3. /\ \A t \in tasks' : t = Task(r)
            /\ \A t, u \in tasks' : t = u
            /\ watchers' \subseteq watchers \cup {r.peer}
        BY <1>1, <1>4
      <3> QED
        BY <3>1, <3>2, <3>3, HandlingIsServerStep
    <2>3. ASSUME NEW p \in Peers, CleanCall(p), Waiting(p), ~Told(p) PROVE StageOf(p)'
      <3>1. p \notin watchers /\ StageOf(p)
        BY <2>3, WaitsAlone
      <3>2. CASE p # r.peer
        <4>1. TasksOf(p)' = {} /\ pipe'[p] = pipe[p] /\ p \notin watchers'
          BY <1>1, <1>4, <2>1, <3>1, <3>2 DEF TasksOf
        <4>2. CASE TasksOf(p) = {}
          BY <3>1, <3>2, <4>1, <4>2, OthersWait
        <4>3. CASE TasksOf(p) # {}
          <5>1. Served(p)
            BY <2>3, <3>1, <4>3 DEF StageOf, Asked, Counted, InVain, Quiet
          <5>2. call'[p] = call[p] /\ slots' = slots /\ ~ListsModules(p) /\ call[p].name = "proceed"
            BY <1>1, <5>1 DEF Served, Handling, Taking
          <5>3. NoRequest(p)'
            <6>1. NoRequest(p)
              BY <5>1 DEF Served
            <6>2. IsQueue(inbox) /\ inbox # <<>> /\ inbox' = Tail(inbox)
              BY DEF Handling, Taking, ConversationTypes
            <6> QED
              BY <5>2, <6>1, <6>2, RequestIsTaken
          <5>4. AllOf(pipe[p], call[p].id) /\ Follows(call[p].script, pipe[p], Len(pipe[p]), Rest[device])
            BY <5>1 DEF Served
          <5>5. InVain(p)'
            BY <1>2, <4>1, <5>2, <5>3, <5>4 DEF InVain, MayWaitInVain, Quiet, OnlyInfos, ListsModules
          <5> QED
            BY <5>5 DEF StageOf
        <4> QED
          BY <4>2, <4>3
      <3>3. CASE p = r.peer
        <4>1. /\ r.id = call[p].id /\ pipe[p] = <<>> /\ ~ListsModules(p) /\ Quiet(p)
              /\ call[p].script = Rest[device] /\ call[p].name = r.name
          BY <1>1, <1>2, <2>3, <3>3, CallIsHandled
        <4>2. Understands(call[p].script, <<>>, Rest[device]) /\ IsQueue(<<>>)
          BY <4>1, HearsNothing, EmptyQueue
        <4>3. pipe'[p] = pipe[p] \o Tagged(<<>>, r.id)
          <5>1. Tagged(<<>>, r.id) = <<>>
            BY DEF Tagged
          <5>2. <<>> \o <<>> = <<>>
            OBVIOUS
          <5> QED
            BY <1>4, <4>1, <5>1, <5>2, Zenon
        <4>4. TasksOf(p)' = {Task(r)} /\ p \notin watchers'
          BY <1>1, <1>4, <2>1, <3>1, <3>3 DEF TasksOf
        <4> QED
          BY <1>1, <1>2, <2>3, <3>3, <4>1, <4>2, <4>3, <4>4, CallIsServed
      <3> QED
        BY <3>2, <3>3
    <2> QED
      BY <2>2, <2>3 DEF CallsGoOn
  <1> QED
    BY <1>3, <1>4 DEF ProceedTicks

(* Monitoring: an answer, and updates from then on *)
LEMMA StartMonitoringGoesOn ==
    ASSUME ConversationTypes, NEW r, Handling(r), StartMonitoring(r) PROVE CallsGoOn
  <1>1. /\ device \in DOMAIN MonitorAnswer /\ r.name \in {"monitor", "monitoring"}
        /\ pipe' = Sent(r.peer, <<MonitorAnswer[device]>>, r.id) /\ tasks' = tasks
        /\ watchers' \subseteq watchers \cup {r.peer}
    BY DEF StartMonitoring
  <1>2. PICK kinds : kinds = <<MonitorAnswer[device]>>
    OBVIOUS
  <1>3. IsQueue(kinds) /\ pipe' = Sent(r.peer, kinds, r.id)
    BY <1>1, <1>2, SomeKinds
  <1>4. r.name \in DOMAIN Calls[device] => Fits(Calls[device][r.name], kinds)
    BY <1>1, <1>2, MonitorFits
  <1>5. r.name \notin {"getTotalSlots", "allModulesInfo"}
    BY <1>1
  <1> QED
    BY <1>1, <1>3, <1>4, <1>5, RequestIsAnswered

(* A service is opened: an answer, and requests from then on. *)
LEMMA OpenServiceGoesOn ==
    ASSUME ConversationTypes, NEW r, Handling(r), OpenService(r) PROVE CallsGoOn
  <1>1. /\ device = "Messanger" /\ r.name = "openService"
        /\ pipe' = Sent(r.peer, <<"open_service_status">>, r.id) /\ tasks' = tasks
        /\ watchers' \subseteq watchers \cup {r.peer}
        /\ r.name \notin {"getTotalSlots", "allModulesInfo"}
    BY DEF OpenService
  <1>2. Fits(Calls[device][r.name], <<"open_service_status">>) /\ IsQueue(<<"open_service_status">>)
    BY <1>1, RequestFits, SomeKinds DEF Calls
  <1> QED
    BY <1>1, <1>2, RequestIsAnswered


(* A session that an activity belongs to is served. *)
LEMMA OwnerIsServed ==
    ASSUME NEW p \in Peers, CleanCall(p), Waiting(p), ~Told(p), NEW t, t \in tasks, t.peer = p
    PROVE  Served(p) /\ TasksOf(p) = {t} /\ t.id = call[p].id
  <1>1. t \in TasksOf(p)
    BY DEF TasksOf
  <1>2. StageOf(p)
    BY WaitsAlone
  <1>3. Served(p)
    BY <1>1, <1>2 DEF StageOf, Asked, Counted, InVain, Quiet
  <1> QED
    BY <1>1, <1>3 DEF Served

(* The end of an activity is told to the call that is owed it. *)
LEMMA OwedIsTold ==
    ASSUME ConversationTypes, NEW p \in Peers, CleanCall(p), Waiting(p), ~Told(p),
           NEW t, t \in tasks, t.peer = p, tasks' = tasks \ {t},
           NEW kinds, Fits(Rest[device], kinds),
           pipe'[p] = pipe[p] \o Tagged(kinds, t.id), call'[p] = call[p], NoRequest(p)'
    PROVE  Told(p)'
  <1>1. Served(p) /\ TasksOf(p) = {t} /\ t.id = call[p].id
    BY OwnerIsServed
  <1>2. /\ AllOf(pipe[p], call[p].id) /\ ~ListsModules(p)
        /\ Follows(call[p].script, pipe[p], Len(pipe[p]), Rest[device])
    BY <1>1 DEF Served
  <1>3. TasksOf(p)' = {}
    BY <1>1 DEF TasksOf
  <1>4. pipe'[p] = pipe[p] \o Tagged(kinds, call[p].id)
    BY <1>1
  <1> QED
    BY <1>2, <1>3, <1>4, CallIsTold

(* A routed request waits for its response. *)
LEMMA RouteRequestGoesOn ==
    ASSUME ConversationTypes, NEW r, Handling(r), RouteRequest(r) PROVE CallsGoOn
  <1>1. /\ device = "Messanger" /\ r.name = "request" /\ watchers' = watchers
        /\ r.name \notin {"getTotalSlots", "allModulesInfo"}
    BY DEF RouteRequest
  <1>2. Calls[device] = MessangerCalls /\ device \in DOMAIN Rest /\ device # "AdministratorPanel"
    BY <1>1 DEF Calls, Rest
  <1>3. IsQueue(<<"not_routed">>) /\ IsQueue(<<"request">>) /\ IsQueue(<<"routed">>)
    BY SomeKinds
  <1>4. CASE pipe' = Sent(r.peer, <<"not_routed">>, r.id) /\ tasks' = tasks
    <2>1. Fits(Calls[device][r.name], <<"not_routed">>)
      BY <1>1, <1>2, RequestFits
    <2> QED
      BY <1>1, <1>3, <1>4, <2>1, RequestIsAnswered
  <1>5. ASSUME NEW w \in watchers,
               pipe' = [p \in Peers |->
                   pipe[p] \o (IF p = w THEN Tagged(<<"request">>, 0) ELSE <<>>)
                           \o (IF p = r.peer THEN Tagged(<<"routed">>, r.id) ELSE <<>>)],
               tasks' = tasks \cup {Task(r)}
        PROVE  CallsGoOn
    <2>1. r.peer \in Peers /\ r.id \in Causes /\ 0 \in Causes /\ Task(r).peer = r.peer
      BY HandlingFacts, CausesAreKnown DEF Task
    <2>2. ASSUME NEW x \in Peers
          PROVE  /\ Adds(pipe[x], pipe'[x], Causes)
                 /\ x # w /\ x # r.peer => pipe'[x] = pipe[x]
                 /\ x = r.peer /\ x # w => pipe'[x] = pipe[x] \o Tagged(<<"routed">>, r.id)
      <3>1. PICK b, j, first, second :
                b = r.peer /\ j = r.id /\ first = <<"request">> /\ second = <<"routed">>
        OBVIOUS
      <3>2. pipe'[x] = AndBoth(pipe[x], x, w, first, 0, b, second, j)
        BY <1>5, <3>1, Zenon DEF AndBoth
      <3>3. j \in Causes /\ IsQueue(first) /\ IsQueue(second)
        BY <1>3, <2>1, <3>1
      <3>4. BothReach(x, w, first, 0, b, second, j)
        BY <2>1, <3>2, <3>3, SentBoth
      <3> QED
        BY <3>1, <3>4, Zenon DEF BothReach
    <2>3. ServerStep
      <3>1. /\ pipe' = [x \in Peers |-> pipe'[x]] /\ \A u \in tasks' : u \in tasks \/ u = Task(r)
            /\ device # "AdministratorPanel" /\ watchers' \subseteq watchers \cup {r.peer}
        BY <1>1, <1>5
      <3> QED
        BY <2>2, <3>1, HandlingIsServerStep
    <2>4. ASSUME NEW p \in Peers, CleanCall(p), Waiting(p), ~Told(p) PROVE StageOf(p)'
      <3>1. p \notin watchers /\ p # w /\ p \notin watchers' /\ StageOf(p)
        BY <1>1, <2>4, WaitsAlone
      <3>2. CASE p # r.peer
        <4>1. TasksOf(p)' = TasksOf(p)
          BY <1>5, <2>1, <3>2 DEF TasksOf
        <4> QED
          BY <2>2, <3>1, <3>2, <4>1, OthersWait
      <3>3. CASE p = r.peer
        <4>1. Quiet(p) /\ ~ListsModules(p) /\ call[p].script = Calls[device][r.name]
          BY <1>1, <2>4, <3>3, CallIsHandled
        <4>2. Understands(call[p].script, <<"routed">>, Rest[device])
          BY <1>1, <1>2, <4>1, RequestFits
        <4>3. TasksOf(p)' = {Task(r)}
          BY <1>5, <2>1, <3>3, <4>1 DEF TasksOf, Quiet
        <4>4. pipe'[p] = pipe[p] \o Tagged(<<"routed">>, r.id)
          BY <2>2, <3>1, <3>3
        <4> QED
          BY <1>2, <1>3, <2>4, <3>1, <3>3, <4>1, <4>2, <4>3, <4>4, CallIsServed
      <3> QED
        BY <3>2, <3>3
    <2> QED
      BY <2>3, <2>4 DEF CallsGoOn
  <1> QED
    BY <1>4, <1>5 DEF RouteRequest

(* A response ends the request that waits for it. *)
LEMMA ForwardResponseGoesOn ==
    ASSUME ConversationTypes, NEW r, Handling(r), ForwardResponse(r) PROVE CallsGoOn
  <1>1. /\ device = "Messanger" /\ r.name = "sendResponse" /\ watchers' = watchers
        /\ r.name \notin {"getTotalSlots", "allModulesInfo"}
    BY DEF ForwardResponse
  <1>2. Calls[device][r.name] = <<>> /\ device # "AdministratorPanel"
    BY <1>1 DEF Calls, MessangerCalls
  <1>3. IsQueue(<<"not_routed">>) /\ IsQueue(<<"response">>) /\ Fits(Rest[device], <<"response">>)
    BY <1>1, SomeKinds, RequestFits
  <1>4. CASE pipe' = Sent(r.peer, <<"not_routed">>, r.id) /\ tasks' = tasks
    BY <1>1, <1>2, <1>3, <1>4, RequestIsAnswered
  <1>5. ASSUME NEW t \in tasks, pipe' = Sent(t.peer, <<"response">>, t.id), tasks' = tasks \ {t}
        PROVE  CallsGoOn
    <2>1. PICK q, i : q = t.peer /\ i = t.id
      OBVIOUS
    <2>2. q \in Peers /\ i \in Causes /\ pipe' = Sent(q, <<"response">>, i)
      BY <1>5, <2>1, CausesAreKnown DEF ConversationTypes
    <2>3. /\ pipe' = [x \in Peers |-> pipe'[x]]
          /\ pipe'[q] = pipe[q] \o Tagged(<<"response">>, i)
          /\ \A x \in Peers \ {q} : pipe'[x] = pipe[x]
      BY <2>2, SentTo
    <2>4. ServerStep
      <3>1. \A x \in Peers : Adds(pipe[x], pipe'[x], Causes)
        BY <1>3, <2>2, SentReaches
      <3>2. (\A u \in tasks' : u \in tasks) /\ watchers' \subseteq watchers \cup {r.peer}
        BY <1>1, <1>5
      <3> QED
        BY <1>2, <2>3, <3>1, <3>2, HandlingIsServerStep
    <2>5. ASSUME NEW p \in Peers, CleanCall(p), Waiting(p), ~Told(p) PROVE StageOf(p)'
      <3>1. r.peer # p
        BY <1>1, <1>2, <2>5, CallIsHandled DEF Waiting
      <3>2. StageOf(p) /\ p \notin watchers' /\ call'[p] = call[p]
        BY <1>1, <2>5, WaitsAlone DEF Handling, Taking
      <3>3. CASE p = q
        <4>1. Served(p)
          BY <2>1, <2>5, <3>3, OwnerIsServed
        <4>2. NoRequest(p)'
          <5>1. NoRequest(p)
            BY <4>1 DEF Served
          <5>2. IsQueue(inbox) /\ inbox # <<>> /\ inbox' = Tail(inbox)
            BY DEF Handling, Taking, ConversationTypes
          <5> QED
            BY <3>2, <5>1, <5>2, RequestIsTaken
        <4>3. Told(p)'
          BY <1>3, <1>5, <2>1, <2>3, <2>5, <3>2, <3>3, <4>2, OwedIsTold
        <4> QED
          BY <4>3 DEF StageOf
      <3>4. CASE p # q
        <4>1. TasksOf(p)' = TasksOf(p)
          BY <1>5, <2>1, <3>4 DEF TasksOf
        <4> QED
          BY <2>3, <3>1, <3>2, <3>4, <4>1, OthersWait
      <3> QED
        BY <3>3, <3>4
    <2> QED
      BY <2>4, <2>5 DEF CallsGoOn
  <1> QED
    BY <1>4, <1>5 DEF ForwardResponse

(* A call that expects infos, one for each module *)
LEMMA InfoIsUnderstood ==
    ASSUME NEW k \in Nat, k > 0
    PROVE  ExpectInfos(k) # <<>> /\ AfterHearing(ExpectInfos(k), "module_info") = ExpectInfos(k - 1)
  <1> DEFINE v == Wait({"module_info"}, {}, {})
             w == Wait({}, {}, {"module_info"})
  <1>1. v.goes = {"module_info"} /\ v.again = {} /\ w.goes = {} /\ w.again = {}
    BY DEF Wait
  <1>2. \A n : ExpectInfos(n) = [i \in 1 .. n |-> IF i < n THEN v ELSE w]
    BY DEF ExpectInfos
  <1> HIDE DEF v, w
  <1>3. PICK s : s = ExpectInfos(k)
    OBVIOUS
  <1>4. s = [i \in 1 .. k |-> IF i < k THEN v ELSE w]
    BY <1>2, <1>3
  <1>5. s \in Seq({v, w}) /\ Len(s) = k
    BY <1>4
  <1>6. s # <<>> /\ Head(s) = IF 1 < k THEN v ELSE w
    BY <1>4, <1>5
  <1>7. CASE k = 1
    <2>1. ExpectInfos(k - 1) = <<>>
      BY <1>2, <1>7
    <2>2. AfterHearing(s, "module_info") = <<>>
      BY <1>1, <1>6, <1>7 DEF AfterHearing
    <2> QED
      BY <1>3, <1>6, <2>1, <2>2
  <1>8. CASE k > 1
    <2>1. AfterHearing(s, "module_info") = Tail(s)
      <3>1. Head(s) = v /\ "module_info" \in v.goes /\ v.again = {}
        BY <1>1, <1>6, <1>8
      <3> QED
        BY <3>1 DEF AfterHearing
    <2>2. PICK t : t = Tail(s)
      OBVIOUS
    <2>3. IsQueue(s) /\ Len(s) = k
      <3>1. s = [i \in 1 .. k |-> s[i]]
        BY <1>4
      <3> QED
        BY <3>1, IsAQueue
    <2>4. IsQueue(t) /\ Len(t) = k - 1 /\ \A i \in 1 .. k - 1 : t[i] = s[i + 1]
      BY <1>6, <2>2, <2>3, QueueGives
    <2>5. \A i \in 1 .. k - 1 : t[i] = IF i < k - 1 THEN v ELSE w
      <3>1. \A i \in 1 .. k - 1 : s[i + 1] = IF i < k - 1 THEN v ELSE w
        BY <1>4
      <3> QED
        BY <2>4, <3>1
    <2>6. ExpectInfos(k - 1) = [i \in 1 .. k - 1 |-> IF i < k - 1 THEN v ELSE w]
      BY <1>2
    <2>7. t = [i \in 1 .. k - 1 |-> t[i]]
      BY <2>4 DEF IsQueue
    <2>8. Tail(s) = ExpectInfos(k - 1)
      BY <2>2, <2>5, <2>6, <2>7
    <2> QED
      BY <1>3, <1>6, <2>1, <2>8
  <1> QED
    BY <1>7, <1>8

(* A call that expects k modules understands as many or less. *)
LEMMA InfosAreUnderstood ==
    ASSUME NEW k \in Nat, NEW n \in 0 .. k, NEW kinds, kinds = [i \in 1 .. n |-> "module_info"]
    PROVE  /\ IsQueue(kinds) /\ Len(kinds) = n
           /\ Understands(ExpectInfos(k), kinds, ExpectInfos(k - n))
  <1>1. IsQueue(kinds) /\ Len(kinds) = n
    <2>1. kinds = [i \in 1 .. n |-> kinds[i]]
      OBVIOUS
    <2> QED
      BY <2>1, IsAQueue
  <1> DEFINE st == [i \in 0 .. n |-> ExpectInfos(k - i)]
  <1>2. \A i \in 0 .. n : st[i] = ExpectInfos(k - i)
    OBVIOUS
  <1> HIDE DEF st
  <1>3. st[0] = ExpectInfos(k) /\ st[n] = ExpectInfos(k - n)
    <2>1. 0 \in 0 .. n /\ n \in 0 .. n /\ k - 0 = k
      OBVIOUS
    <2> QED
      BY <1>2, <2>1
  <1>4. ASSUME NEW i \in 1 .. n PROVE st[i - 1] # <<>> /\ st[i] = AfterHearing(st[i - 1], kinds[i])
    <2>1. PICK m : m = k - (i - 1)
      OBVIOUS
    <2>2. m \in Nat /\ m > 0 /\ m - 1 = k - i /\ i \in 0 .. n /\ i - 1 \in 0 .. n
      BY <2>1
    <2>3. st[i - 1] = ExpectInfos(m) /\ st[i] = ExpectInfos(m - 1)
      BY <1>2, <2>1, <2>2
    <2>4. kinds[i] = "module_info"
      OBVIOUS
    <2> QED
      BY <2>2, <2>3, <2>4, InfoIsUnderstood
  <1> QED
    BY <1>1, <1>3, <1>4 DEF Understands

(* A commutator has as many infos to send as it has slots that are not empty. *)
LEMMA AttachedSlots ==
    ASSUME ConversationTypes
    PROVE  LET n == Cardinality({i \in 1 .. Len(slots) : slots[i]})
           IN  /\ Len(slots) \in Nat /\ Len(slots) > 0 /\ n \in 0 .. Len(slots)
               /\ n < Len(slots) => \E i \in 1 .. Len(slots) : ~slots[i]
  <1> DEFINE A == {i \in 1 .. Len(slots) : slots[i]}
  <1>1. Len(slots) \in Nat /\ Len(slots) > 0
    BY QueueFacts DEF ConversationTypes
  <1>2. IsFiniteSet(1 .. Len(slots)) /\ Cardinality(1 .. Len(slots)) = Len(slots)
    BY <1>1, FS_Interval
  <1>3. IsFiniteSet(A) /\ Cardinality(A) <= Len(slots) /\ Cardinality(A) \in Nat
    BY <1>2, FS_Subset, FS_CardinalityType
  <1>4. (\A i \in 1 .. Len(slots) : slots[i]) => A = 1 .. Len(slots)
    OBVIOUS
  <1>5. Cardinality(A) < Len(slots) => A # 1 .. Len(slots)
    BY <1>1, <1>2
  <1> QED
    BY <1>1, <1>3, <1>4, <1>5

(* The call that lists modules is told those that are attached. *)
LEMMA SendModulesInfoGoesOn ==
    ASSUME ConversationTypes, NEW r, Handling(r), SendModulesInfo(r) PROVE CallsGoOn
  <1>0. PICK n, kinds : /\ n = Cardinality({i \in 1 .. Len(slots) : slots[i]})
                        /\ kinds = [i \in 1 .. n |-> "module_info"]
    OBVIOUS
  <1>1. /\ device = "Commutator" /\ r.name = "allModulesInfo" /\ tasks' = tasks /\ watchers' = watchers
        /\ pipe' = Sent(r.peer, kinds, r.id)
    BY <1>0 DEF SendModulesInfo
  <1>2. /\ Len(slots) \in Nat /\ Len(slots) > 0 /\ n \in 0 .. Len(slots)
        /\ n < Len(slots) => \E i \in 1 .. Len(slots) : ~slots[i]
    BY <1>0, AttachedSlots
  <1>3. PICK all : all = Len(slots)
    OBVIOUS
  <1>4. /\ IsQueue(kinds) /\ Len(kinds) = n
        /\ Understands(ExpectInfos(all), kinds, ExpectInfos(all - n))
    BY <1>0, <1>2, <1>3, InfosAreUnderstood
  <1>5. \A i \in 1 .. Len(kinds) : kinds[i] = "module_info"
    BY <1>0, <1>4
  <1>6. ASSUME CleanCall(r.peer), Waiting(r.peer), ~Told(r.peer) PROVE StageOf(r.peer)'
    <2>1. PICK p, id : p = r.peer /\ id = r.id
      OBVIOUS
    <2>2. p \in Peers /\ CleanCall(p) /\ Waiting(p) /\ ~Told(p)
      BY <1>6, <2>1, HandlingFacts
    <2>3. /\ call[p].id = id /\ pipe[p] = <<>> /\ Quiet(p) /\ NoRequest(p)'
          /\ ListsModules(p) /\ call[p].script = ExpectInfos(all)
      <3>1. RequestOf(call[p].name) # "allModulesInfo"
        BY <1>1, <2>2 DEF CleanCall, Calls, CommutatorCalls, RequestOf
      <3> QED
        BY <1>1, <1>3, <2>1, <2>2, <3>1, CallIsHandled
    <2>4. pipe'[p] = pipe[p] \o Tagged(kinds, call[p].id)
      <3>1. pipe' = Sent(p, kinds, id)
        BY <1>1, <2>1
      <3>2. pipe'[p] = pipe[p] \o Tagged(kinds, id)
        BY <2>2, <3>1, SentTo
      <3> QED
        BY <2>3, <3>2
    <2>5. Len(pipe[p]) = 0 /\ AllOf(pipe[p], call[p].id)
      BY <2>3, EmptyQueue DEF AllOf
    <2>6. Follows(call[p].script, pipe[p], Len(pipe[p]), ExpectInfos(all))
      BY <2>3, <2>5, FollowsNothing
    <2>7. /\ IsQueue(pipe'[p]) /\ Len(pipe'[p]) = Len(pipe[p]) + Len(kinds)
          /\ AllOf(pipe'[p], call[p].id)
          /\ Follows(call[p].script, pipe'[p], Len(pipe'[p]), ExpectInfos(all - n))
      BY <1>4, <2>2, <2>4, <2>5, <2>6, CallGoesOn
    <2>8. call'[p] = call[p] /\ Quiet(p)' /\ slots' = slots
      BY <1>1, <2>3 DEF Handling, Taking, Quiet, TasksOf
    <2>9. OnlyInfos(p)'
      <3>1. PICK m : m = Tagged(kinds, call[p].id)
        OBVIOUS
      <3>2. IsQueue(m) /\ Tells(m, kinds, call[p].id)
        BY <1>4, <3>1, TaggedFacts
      <3>3. pipe'[p] = m
        BY <2>3, <2>4, <3>1, <3>2 DEF IsQueue
      <3>4. \A i \in 1 .. Len(m) : m[i].kind = "module_info"
        BY <1>5, <3>2 DEF Tells
      <3> QED
        BY <3>3, <3>4 DEF OnlyInfos
    <2>10. CASE n = all
      <3>1. ExpectInfos(all - n) = <<>>
        BY <1>2, <1>3, <2>10 DEF ExpectInfos
      <3>2. Len(pipe'[p]) > 0
        BY <1>2, <1>3, <1>4, <2>5, <2>7, <2>10
      <3>3. Ends(call[p].script, pipe'[p], call[p].id)
        BY <2>7, <3>1, <3>2, AllOfEnds
      <3>4. TasksOf(p)' = {}
        BY <2>8 DEF Quiet
      <3>5. Told(p)'
        BY <2>3, <2>8, <2>9, <3>3, <3>4 DEF Told
      <3> QED
        BY <2>1, <3>5 DEF StageOf
    <2>11. CASE n # all
      <3>1. PICK k : k = all - n
        OBVIOUS
      <3>2. k \in Nat /\ k > 0 /\ n < Len(slots)
        BY <1>2, <1>3, <2>11, <3>1
      <3>3. ExpectInfos(k) # <<>>
        BY <3>2, InfoIsUnderstood
      <3>4. MayWaitInVain(p)'
        BY <1>2, <2>3, <2>8, <3>2 DEF MayWaitInVain, ListsModules
      <3>5. InVain(p)'
        BY <2>3, <2>7, <2>8, <2>9, <3>1, <3>3, <3>4 DEF InVain
      <3> QED
        BY <2>1, <3>5 DEF StageOf
    <2> QED
      BY <2>10, <2>11
  <1>7. \A p \in Peers : TasksOf(p)' = TasksOf(p)
    BY <1>1 DEF TasksOf
  <1> QED
    BY <1>1, <1>4, <1>6, <1>7, CallsGoOnAlone

(* Whatever request is served, the calls stay in order. *)
LEMMA HandleGoesOn ==
    ASSUME ConversationTypes, NEW r, Handling(r), Handle(r) PROVE CallsGoOn
  <1>2. Handling(r) /\ Handle(r)
    OBVIOUS
  <1>3. \/ Answer(r) \/ Begin(r) \/ StopMining(r) \/ StartBuild(r) \/ ProceedTicks(r)
        \/ StartMonitoring(r) \/ OpenService(r) \/ RouteRequest(r) \/ ForwardResponse(r)
        \/ SendModulesInfo(r)
    BY <1>2, Zenon DEF Handle
  <1>4. (Answer(r) => CallsGoOn) /\ (Begin(r) => CallsGoOn) /\ (StopMining(r) => CallsGoOn)
    BY <1>2, AnswerGoesOn, BeginGoesOn, StopMiningGoesOn
  <1>5. (StartBuild(r) => CallsGoOn) /\ (ProceedTicks(r) => CallsGoOn) /\ (StartMonitoring(r) => CallsGoOn)
    BY <1>2, StartBuildGoesOn, ProceedTicksGoesOn, StartMonitoringGoesOn
  <1>6. (OpenService(r) => CallsGoOn) /\ (RouteRequest(r) => CallsGoOn)
    BY <1>2, OpenServiceGoesOn, RouteRequestGoesOn
  <1>7. (ForwardResponse(r) => CallsGoOn) /\ (SendModulesInfo(r) => CallsGoOn)
    BY <1>2, ForwardResponseGoesOn, SendModulesInfoGoesOn
  <1> QED
    BY <1>3, <1>4, <1>5, <1>6, <1>7

(* A step of the server that no request makes *)
OfItself == UNCHANGED <<device, peers, inbox, watchers, slots, call, calls>>

(* What the device does of itself is a step of the server. *)
LEMMA OfItselfIsServerStep ==
    ASSUME ConversationTypes, OfItself, pipe' = [x \in Peers |-> pipe'[x]],
           \A x \in Peers : Adds(pipe[x], pipe'[x], Causes),
           tasks' \subseteq [peer : peers, id : 0 .. calls, over : BOOLEAN],
           \A t \in tasks' : \E u \in tasks : u.id = t.id /\ u.peer = t.peer,
           device = "AdministratorPanel" => \A t, u \in tasks' : t = u
    PROVE  ServerStep
  <1>1. UNCHANGED <<device, peers, calls>> /\ inbox' = inbox /\ watchers' = watchers
    BY DEF OfItself
  <1>2. IsQueue(inbox') /\ watchers' \subseteq peers
    BY <1>1 DEF ConversationTypes
  <1>3. \A i \in 1 .. Len(inbox') : \E j \in 1 .. Len(inbox) : inbox'[i] = inbox[j]
    BY <1>1
  <1> QED
    BY <1>1, <1>2, <1>3, Zenon DEF ServerStep

(* Calls of sessions that are not told anything stay in their stage. *)
LEMMA UnreachedStaysInStage ==
    ASSUME OfItself, NEW p \in Peers, StageOf(p), pipe'[p] = pipe[p], TasksOf(p)' = TasksOf(p)
    PROVE  StageOf(p)'
  <1>1. UNCHANGED <<device, slots>> /\ call'[p] = call[p] /\ inbox' = inbox /\ watchers' = watchers
    BY DEF OfItself
  <1>2. Untouched(p)
    BY <1>1 DEF Untouched, NoRequest, OnlyRequest
  <1> QED
    BY <1>1, <1>2, UntouchedStaysInStage

(* The calls are in order if the owner of an activity's is. *)
LEMMA OneHears ==
    ASSUME ConversationTypes, OfItself, NEW t, t \in tasks, NEW kinds, IsQueue(kinds),
           pipe' = Sent(t.peer, kinds, t.id),
           tasks' = tasks \/ tasks' = tasks \ {t},
           CleanCall(t.peer) /\ Waiting(t.peer) /\ ~Told(t.peer) => StageOf(t.peer)'
    PROVE  CallsGoOn
  <1>1. PICK q, i : q = t.peer /\ i = t.id
    OBVIOUS
  <1>2. q \in Peers /\ i \in Causes /\ pipe' = Sent(q, kinds, i)
    BY <1>1, CausesAreKnown DEF ConversationTypes
  <1>3. pipe' = [x \in Peers |-> pipe'[x]] /\ \A x \in Peers \ {q} : pipe'[x] = pipe[x]
    BY <1>2, SentTo
  <1>4. ServerStep
    <2>1. \A x \in Peers : Adds(pipe[x], pipe'[x], Causes)
      BY <1>2, SentReaches
    <2>2. /\ tasks' \subseteq tasks
          /\ tasks' \subseteq [peer : peers, id : 0 .. calls, over : BOOLEAN]
          /\ device = "AdministratorPanel" => \A u, v \in tasks' : u = v
      BY DEF ConversationTypes
    <2> QED
      BY <1>3, <2>1, <2>2, OfItselfIsServerStep
  <1>5. ASSUME NEW p \in Peers, CleanCall(p), Waiting(p), ~Told(p) PROVE StageOf(p)'
    <2>1. CASE p = q
      BY <1>1, <1>5, <2>1
    <2>2. CASE p # q
      <3>1. TasksOf(p)' = TasksOf(p)
        BY <1>1, <2>2 DEF TasksOf
      <3>2. StageOf(p)
        BY <1>5, WaitsAlone
      <3> QED
        BY <1>3, <2>2, <3>1, <3>2, UnreachedStaysInStage
    <2> QED
      BY <2>1, <2>2
  <1> QED
    BY <1>4, <1>5 DEF CallsGoOn

(* What all sessions are told reaches one clean call at most, that of the only session. *)
LEMMA AllHear ==
    ASSUME ConversationTypes, OfItself, NEW t, t \in tasks, NEW kinds, IsQueue(kinds),
           device = "Shipyard", pipe' = SentToAll(kinds, t.peer, t.id),
           tasks' = tasks \/ tasks' = tasks \ {t},
           CleanCall(t.peer) /\ Waiting(t.peer) /\ ~Told(t.peer) => StageOf(t.peer)'
    PROVE  CallsGoOn
  <1>1. PICK q, i : q = t.peer /\ i = t.id
    OBVIOUS
  <1>2. q \in peers /\ i \in Causes /\ pipe' = SentToAll(kinds, q, i)
    BY <1>1, CausesAreKnown DEF ConversationTypes
  <1>3. ServerStep
    <2>1. \A x \in Peers : Adds(pipe[x], pipe'[x], Causes)
      BY <1>2, SentToAllReaches
    <2>2. pipe' = [x \in Peers |-> pipe'[x]]
      BY <1>2 DEF SentToAll
    <2>3. /\ tasks' \subseteq tasks
          /\ tasks' \subseteq [peer : peers, id : 0 .. calls, over : BOOLEAN]
          /\ device = "AdministratorPanel" => \A u, v \in tasks' : u = v
      BY DEF ConversationTypes
    <2> QED
      BY <2>1, <2>2, <2>3, OfItselfIsServerStep
  <1>4. ASSUME NEW p \in Peers, CleanCall(p), Waiting(p), ~Told(p) PROVE StageOf(p)'
    <2>1. p = q
      BY <1>2, <1>4 DEF CleanCall
    <2> QED
      BY <1>1, <1>4, <2>1
  <1> QED
    BY <1>3, <1>4 DEF CallsGoOn

(* A call that is owed an activity hears how it goes on. *)
LEMMA OwedHears ==
    ASSUME ConversationTypes, OfItself, NEW p \in Peers, CleanCall(p), Waiting(p), ~Told(p),
           NEW t, t \in tasks, t.peer = p, tasks' = tasks,
           NEW kinds, IsQueue(kinds), device \in DOMAIN Rest => Understands(Rest[device], kinds, Rest[device]),
           pipe'[p] = pipe[p] \o Tagged(kinds, t.id)
    PROVE  StageOf(p)'
  <1>1. Served(p) /\ TasksOf(p) = {t} /\ t.id = call[p].id
    BY OwnerIsServed
  <1>2. /\ device \in DOMAIN Rest /\ AllOf(pipe[p], call[p].id)
        /\ Follows(call[p].script, pipe[p], Len(pipe[p]), Rest[device])
    BY <1>1 DEF Served
  <1>3. AllOf(pipe'[p], call[p].id) /\ Follows(call[p].script, pipe'[p], Len(pipe'[p]), Rest[device])
    BY <1>1, <1>2, CallGoesOn
  <1>4. call'[p] = call[p] /\ device' = device /\ TasksOf(p)' = TasksOf(p) /\ watchers' = watchers
        /\ inbox' = inbox
    BY DEF OfItself, TasksOf
  <1>5. Served(p)'
    BY <1>1, <1>3, <1>4 DEF Served, ListsModules, NoRequest
  <1> QED
    BY <1>5 DEF StageOf

(* An activity reports, and its call waits on. *)
LEMMA ReportGoesOn ==
    ASSUME ConversationTypes, NEW t, t \in tasks, Report(t) PROVE CallsGoOn
  <1>1. OfItself /\ tasks' = tasks
    BY DEF Report, OfItself, serverVars
  <1>2. t.peer \in Peers /\ t.peer \in peers
    BY DEF ConversationTypes
  <1>3. ASSUME device \in DOMAIN Activities, NEW kind \in Activities[device].reports,
               pipe' = Sent(t.peer, <<kind>>, t.id)
        PROVE  CallsGoOn
    <2>1. PICK kinds, q, i : kinds = <<kind>> /\ q = t.peer /\ i = t.id
      OBVIOUS
    <2>2. IsQueue(kinds)
      BY <2>1, SomeKinds
    <2>3. device \in DOMAIN Rest => Understands(Rest[device], kinds, Rest[device])
      <3>1. ActivityFits(device)
        BY <1>3, ActivitiesFit
      <3>2. device \in DOMAIN Rest => device # "AsteroidMiner"
        BY DEF Rest
      <3> QED
        BY <1>3, <2>1, <3>1, <3>2 DEF ActivityFits
    <2>4. pipe'[q] = pipe[q] \o Tagged(kinds, i)
      <3>1. q \in Peers /\ pipe' = Sent(q, kinds, i)
        BY <1>2, <1>3, <2>1
      <3> QED
        BY <3>1, SentTo
    <2>5. CleanCall(q) /\ Waiting(q) /\ ~Told(q) => StageOf(q)'
      BY <1>1, <1>2, <2>1, <2>2, <2>3, <2>4, OwedHears
    <2> QED
      BY <1>1, <1>3, <2>1, <2>2, <2>5, OneHears
  <1>4. CASE device = "Shipyard" /\ pipe' = SentToAll(<<"build_in_progress">>, t.peer, t.id)
    <2>1. PICK kinds, q, i : kinds = <<"build_in_progress">> /\ q = t.peer /\ i = t.id
      OBVIOUS
    <2>2. IsQueue(kinds)
      BY <2>1, SomeKinds
    <2>3. Understands(Rest[device], kinds, Rest[device])
      BY <1>4, <2>1, BuildFits
    <2>4. pipe'[q] = pipe[q] \o Tagged(kinds, i)
      BY <1>2, <1>4, <2>1 DEF SentToAll
    <2>5. CleanCall(q) /\ Waiting(q) /\ ~Told(q) => StageOf(q)'
      BY <1>1, <1>2, <2>1, <2>2, <2>3, <2>4, OwedHears
    <2> QED
      BY <1>1, <1>4, <2>1, <2>2, <2>5, AllHear
  <1> QED
    BY <1>3, <1>4 DEF Report

(* An activity ends, which is told to its owner. *)
LEMMA EndIsTold ==
    ASSUME ConversationTypes, OfItself, NEW t, t \in tasks, tasks' = tasks \ {t},
           NEW kinds, IsQueue(kinds), device \in DOMAIN Rest => Fits(Rest[device], kinds),
           \/ pipe' = Sent(t.peer, kinds, t.id)
           \/ device = "Shipyard" /\ pipe' = SentToAll(kinds, t.peer, t.id)
    PROVE  CallsGoOn
  <1>1. PICK q, i : q = t.peer /\ i = t.id
    OBVIOUS
  <1>2. q \in Peers /\ q \in peers
    BY <1>1 DEF ConversationTypes
  <1>3. pipe'[q] = pipe[q] \o Tagged(kinds, i)
    <2>1. CASE pipe' = Sent(t.peer, kinds, t.id)
      <3>1. pipe' = Sent(q, kinds, i)
        BY <1>1, <2>1
      <3> QED
        BY <1>2, <3>1, SentTo
    <2>2. CASE pipe' = SentToAll(kinds, t.peer, t.id)
      BY <1>1, <1>2, <2>2 DEF SentToAll
    <2> QED
      BY <2>1, <2>2
  <1>4. ASSUME CleanCall(q), Waiting(q), ~Told(q) PROVE StageOf(q)'
    <2>1. Served(q)
      BY <1>1, <1>2, <1>4, OwnerIsServed
    <2>2. Fits(Rest[device], kinds) /\ NoRequest(q)' /\ call'[q] = call[q]
      BY <2>1 DEF Served, NoRequest, OfItself
    <2>3. Told(q)'
      BY <1>1, <1>2, <1>3, <1>4, <2>2, OwedIsTold
    <2> QED
      BY <2>3 DEF StageOf
  <1>5. CASE pipe' = Sent(t.peer, kinds, t.id)
    BY <1>1, <1>4, <1>5, OneHears
  <1>6. CASE device = "Shipyard" /\ pipe' = SentToAll(kinds, t.peer, t.id)
    BY <1>1, <1>4, <1>6, AllHear
  <1> QED
    BY <1>5, <1>6

(* An activity ends, and its call is told so. *)
LEMMA FinishGoesOn ==
    ASSUME ConversationTypes, NEW t, t \in tasks, Finish(t) PROVE CallsGoOn
  <1>1. OfItself /\ tasks' = tasks \ {t}
    BY DEF Finish, OfItself
  <1>2. ASSUME device \in DOMAIN Activities, NEW kinds \in Activities[device].ends,
               pipe' = Sent(t.peer, kinds, t.id)
        PROVE  CallsGoOn
    <2>1. ActivityFits(device)
      BY <1>2, ActivitiesFit
    <2>2. device \in DOMAIN Rest => device # "AsteroidMiner"
      BY DEF Rest
    <2>3. IsQueue(kinds) /\ (device \in DOMAIN Rest => Fits(Rest[device], kinds))
      BY <1>2, <2>1, <2>2 DEF ActivityFits
    <2> QED
      BY <1>1, <1>2, <2>3, EndIsTold
  <1>3. CASE /\ device = "Shipyard"
             /\ pipe' = SentToAll(<<"build_complete", "building_complete">>, t.peer, t.id)
    <2>1. PICK kinds : kinds = <<"build_complete", "building_complete">>
      OBVIOUS
    <2>2. IsQueue(kinds) /\ Fits(Rest[device], kinds)
      BY <1>3, <2>1, BuildFits, SomeKinds
    <2> QED
      BY <1>1, <1>3, <2>1, <2>2, EndIsTold
  <1>4. CASE device = "AdministratorPanel" /\ pipe' = Sent(t.peer, <<"now">>, t.id)
    <2>1. PICK kinds : kinds = <<"now">>
      OBVIOUS
    <2>2. IsQueue(kinds) /\ Fits(Rest[device], kinds)
      BY <1>4, <2>1, ProceedFits, SomeKinds
    <2> QED
      BY <1>1, <1>4, <2>1, <2>2, EndIsTold
  <1>5. CASE device = "Messanger" /\ pipe' = Sent(t.peer, <<"not_routed">>, t.id)
    <2>1. PICK kinds : kinds = <<"not_routed">>
      OBVIOUS
    <2>2. IsQueue(kinds) /\ Fits(Rest[device], kinds)
      BY <1>5, <2>1, RequestFits, SomeKinds
    <2> QED
      BY <1>1, <1>5, <2>1, <2>2, EndIsTold
  <1> QED
    BY <1>2, <1>3, <1>4, <1>5 DEF Finish

(* The ticks are over: who is still in debug mode is told so. *)
LEMMA TicksAreOverGoesOn ==
    ASSUME ConversationTypes, NEW t, t \in tasks, TicksAreOver(t) PROVE CallsGoOn
  <1>1. OfItself /\ device = "AdministratorPanel" /\ pipe' = pipe /\ tasks = {t}
    BY DEF TicksAreOver, OfItself, ConversationTypes
  <1>2. PICK u : u = [t EXCEPT !.over = TRUE]
    OBVIOUS
  <1>3. tasks' = {u}
    BY <1>2 DEF TicksAreOver
  <1>4. u.peer = t.peer /\ u.id = t.id /\ u \in [peer : peers, id : 0 .. calls, over : BOOLEAN]
    BY <1>2 DEF ConversationTypes
  <1>5. ServerStep
    <2>1. \A x \in Peers : Adds(pipe[x], pipe'[x], Causes)
      BY <1>1, AddsNothing DEF ConversationTypes
    <2>2. pipe' = [x \in Peers |-> pipe'[x]]
      BY <1>1 DEF ConversationTypes
    <2>3. /\ tasks' \subseteq [peer : peers, id : 0 .. calls, over : BOOLEAN]
          /\ \A v \in tasks' : \E w \in tasks : w.id = v.id /\ w.peer = v.peer
          /\ \A v, w \in tasks' : v = w
      BY <1>3, <1>4
    <2> QED
      BY <1>1, <2>1, <2>2, <2>3, OfItselfIsServerStep
  <1>6. ASSUME NEW p \in Peers, CleanCall(p), Waiting(p), ~Told(p) PROVE StageOf(p)'
    <2>1. CASE p # t.peer
      <3>1. TasksOf(p)' = TasksOf(p) /\ StageOf(p)
        BY <1>1, <1>3, <1>4, <1>6, <2>1, WaitsAlone DEF TasksOf
      <3> QED
        BY <1>1, <3>1, UnreachedStaysInStage
    <2>2. CASE p = t.peer
      <3>1. Served(p) /\ t.id = call[p].id
        BY <1>6, <2>2, OwnerIsServed
      <3>2. TasksOf(p)' = {u} /\ u.id = call[p].id
        BY <1>3, <1>4, <2>2, <3>1 DEF TasksOf
      <3>3. call'[p] = call[p] /\ device' = device /\ watchers' = watchers /\ inbox' = inbox
        BY <1>1 DEF OfItself
      <3>4. Served(p)'
        BY <1>1, <3>1, <3>2, <3>3 DEF Served, ListsModules, NoRequest
      <3> QED
        BY <3>4 DEF StageOf
    <2> QED
      BY <2>1, <2>2
  <1> QED
    BY <1>5, <1>6 DEF CallsGoOn

(* The sessions that watch are sent something without having asked. *)
LEMMA WatchersHear ==
    ASSUME ConversationTypes, NEW kinds, IsQueue(kinds), NEW x \in Peers,
           pipe'[x] = IF x \in watchers THEN pipe[x] \o Tagged(kinds, 0) ELSE pipe[x]
    PROVE  Adds(pipe[x], pipe'[x], Causes) /\ (x \notin watchers => pipe'[x] = pipe[x])
  <1>1. IsQueue(pipe[x]) /\ 0 \in Causes
    BY CausesAreKnown DEF ConversationTypes
  <1>2. Adds(pipe[x], pipe[x] \o Tagged(kinds, 0), Causes)
    BY <1>1, TaggedAdds
  <1>3. Adds(pipe[x], pipe[x], Causes)
    BY <1>1, AddsNothing
  <1> QED
    BY <1>2, <1>3

(* Updates reach those who monitor; a clean call of theirs has been told everything. *)
LEMMA UpdateGoesOn ==
    ASSUME ConversationTypes, Update PROVE CallsGoOn
  <1>1. OfItself /\ tasks' = tasks /\ pipe' = [x \in Peers |-> pipe'[x]]
    BY DEF Update, OfItself, serverVars
  <1>2. PICK kinds : kinds = <<MonitorUpdate[device]>>
    OBVIOUS
  <1>3. IsQueue(kinds)
    BY <1>2, SomeKinds
  <1>4. \A x \in Peers : pipe'[x] = IF x \in watchers THEN pipe[x] \o Tagged(kinds, 0) ELSE pipe[x]
    BY <1>2 DEF Update
  <1>5. \A x \in Peers : Adds(pipe[x], pipe'[x], Causes) /\ (x \notin watchers => pipe'[x] = pipe[x])
    BY <1>3, <1>4, WatchersHear
  <1>6. ServerStep
    <2>1. /\ tasks' \subseteq [peer : peers, id : 0 .. calls, over : BOOLEAN]
          /\ device = "AdministratorPanel" => \A u, v \in tasks' : u = v
          /\ \A v \in tasks' : \E w \in tasks : w.id = v.id /\ w.peer = v.peer
      BY <1>1 DEF ConversationTypes
    <2> QED
      BY <1>1, <1>5, <2>1, OfItselfIsServerStep
  <1>7. ASSUME NEW p \in Peers, CleanCall(p), Waiting(p), ~Told(p) PROVE StageOf(p)'
    <2>1. StageOf(p) /\ pipe'[p] = pipe[p] /\ TasksOf(p)' = TasksOf(p)
      BY <1>1, <1>5, <1>7, WaitsAlone DEF TasksOf
    <2> QED
      BY <1>1, <2>1, UnreachedStaysInStage
  <1> QED
    BY <1>6, <1>7 DEF CallsGoOn

(* A step of the server that leaves the calls in order keeps the invariant. *)
LEMMA ServerKeepsCalls ==
    ASSUME ConversationsInv, CallsGoOn, call' = call, slots' = slots PROVE ConversationsInv'
  <1>1. ConversationTypes /\ ServerStep
    BY DEF ConversationsInv, CallsGoOn
  <1>2. ConversationTypes'
    BY <1>1, ServerKeepsTypes
  <1>3. ASSUME NEW p \in Peers, call'[p].clean PROVE CleanCall(p)'
    <2>1. CleanCall(p) /\ call'[p] = call[p] /\ device' = device /\ peers' = peers
      BY <1>1, <1>3 DEF ConversationsInv, ServerStep
    <2>2. OwnNumber(p) /\ call[p].id # 0
      BY <1>1, <2>1 DEF CleanCall, OwnNumber, ConversationTypes
    <2>3. OwnNumber(p)'
      BY <1>1, <2>2, ServerKeepsNumbers
    <2>4. ASSUME Waiting(p) PROVE StageOf(p)'
      <3>1. CASE Told(p)
        <4>1. Told(p)'
          BY <1>1, <2>1, <2>2, <3>1, ToldLater
        <4> QED
          BY <4>1 DEF StageOf
      <3>2. CASE ~Told(p)
        BY <2>1, <2>4, <3>2 DEF CallsGoOn
      <3> QED
        BY <3>1, <3>2
    <2>5. NothingLeft(p) => NothingLeft(p)'
      BY <1>1, <2>1, <2>2, NothingIsLeftLater
    <2> QED
      BY <2>1, <2>3, <2>4, <2>5 DEF CleanCall, Waiting
  <1> QED
    BY <1>2, <1>3 DEF ConversationsInv

(* Records of calls *)
LEMMA HeardFacts ==
    ASSUME NEW c, CallRecord(c), NEW m, NEW s
    PROVE  /\ CallRecord(Heard(c, m, s)) /\ Heard(c, m, s).script = s
           /\ Heard(c, m, s).name = c.name /\ Heard(c, m, s).id = c.id
           /\ Heard(c, m, s).clean = c.clean
           /\ ~c.mixed /\ m.id = c.id => ~Heard(c, m, s).mixed
  <1>1. PICK x \in BOOLEAN : x = (c.mixed \/ m.id # c.id)
    <2>1. (c.mixed \/ m.id # c.id) \in BOOLEAN
      OBVIOUS
    <2> QED
      BY <2>1
  <1>2. PICK h : h = [c EXCEPT !.script = s, !.mixed = x]
    OBVIOUS
  <1>3. Heard(c, m, s) = h
    BY <1>1, <1>2, Zenon DEF Heard
  <1>4. /\ h = [name |-> c.name, id |-> c.id, script |-> s,
                clean |-> c.clean, mixed |-> x, late |-> c.late]
    BY <1>2, Zenon DEF CallRecord
  <1>5. /\ h.name = c.name /\ h.id = c.id /\ h.script = s /\ h.clean = c.clean /\ h.mixed = x
        /\ h.late = c.late
    BY <1>4, Zenon
  <1>6. CallRecord(h)
    BY <1>4, <1>5, Zenon DEF CallRecord
  <1>7. ~c.mixed /\ m.id = c.id => ~x
    BY <1>1
  <1>8. ~c.mixed /\ m.id = c.id => ~h.mixed
    BY <1>5, <1>7, Zenon
  <1> QED
    BY <1>3, <1>5, <1>6, <1>8, Zenon

(* The record of a call that is not clean any more *)
LEMMA UncleanFacts ==
    ASSUME NEW c, CallRecord(c), NEW d, d = [c EXCEPT !.clean = FALSE]
    PROVE  CallRecord(d) /\ d.id = c.id /\ d.name = c.name /\ d.script = c.script /\ d.clean = FALSE
  <1>1. d = [name |-> c.name, id |-> c.id, script |-> c.script,
             clean |-> FALSE, mixed |-> c.mixed, late |-> c.late]
    BY Zenon DEF CallRecord
  <1>2. /\ d.name = c.name /\ d.id = c.id /\ d.script = c.script /\ d.clean = FALSE /\ d.mixed = c.mixed
        /\ d.late = c.late
    BY <1>1, Zenon
  <1>3. FALSE \in BOOLEAN
    OBVIOUS
  <1> QED
    BY <1>1, <1>2, <1>3, Zenon DEF CallRecord

(* The record of a call that is timed out *)
LEMMA LateFacts ==
    ASSUME NEW c, CallRecord(c), NEW d, d = [c EXCEPT !.script = <<>>, !.late = TRUE]
    PROVE  /\ CallRecord(d) /\ d.id = c.id /\ d.name = c.name /\ d.script = <<>>
           /\ d.clean = c.clean /\ d.mixed = c.mixed /\ d.late = TRUE
  <1>1. d = [name |-> c.name, id |-> c.id, script |-> <<>>,
             clean |-> c.clean, mixed |-> c.mixed, late |-> TRUE]
    BY Zenon DEF CallRecord
  <1>2. /\ d.name = c.name /\ d.id = c.id /\ d.script = <<>> /\ d.clean = c.clean /\ d.mixed = c.mixed
        /\ d.late = TRUE
    BY <1>1, Zenon
  <1>3. TRUE \in BOOLEAN
    OBVIOUS
  <1> QED
    BY <1>1, <1>2, <1>3, Zenon DEF CallRecord

(* The record of a new call *)
LEMMA NewCallFacts ==
    ASSUME NEW name, NEW id, NEW s, NEW clean \in BOOLEAN, NEW c,
           c = [name |-> name, id |-> id, script |-> s, clean |-> clean, mixed |-> FALSE, late |-> FALSE]
    PROVE  /\ CallRecord(c) /\ c.name = name /\ c.id = id /\ c.script = s /\ c.clean = clean
           /\ ~c.mixed /\ ~c.late
  <1>1. /\ c.name = name /\ c.id = id /\ c.script = s /\ c.clean = clean /\ c.mixed = FALSE
        /\ c.late = FALSE
    BY Zenon
  <1>2. FALSE \in BOOLEAN
    OBVIOUS
  <1> QED
    BY <1>1, <1>2, Zenon DEF CallRecord

(* The calls when some of them are disturbed *)
LEMMA DisturbedFacts ==
    ASSUME ConversationTypes, NEW D, call' = Disturbed(D), NEW p \in Peers
    PROVE  /\ CallRecord(call'[p]) /\ call'[p].id = call[p].id
           /\ call'[p].name = call[p].name /\ call'[p].script = call[p].script
           /\ call'[p].clean => /\ call'[p] = call[p] /\ call[p].clean
                                /\ Waiting(p) => p \notin D
  <1>1. CASE Waiting(p) /\ p \in D
    <2>1. PICK c, d : c = call[p] /\ d = call'[p]
      OBVIOUS
    <2>2. CallRecord(c) /\ d = [c EXCEPT !.clean = FALSE]
      BY <1>1, <2>1 DEF Disturbed, ConversationTypes
    <2>3. CallRecord(d) /\ d.id = c.id /\ d.name = c.name /\ d.script = c.script /\ d.clean = FALSE
      BY <2>2, UncleanFacts
    <2> QED
      BY <2>1, <2>3, Zenon
  <1>2. CASE ~(Waiting(p) /\ p \in D)
    <2>1. call'[p] = call[p]
      BY <1>2 DEF Disturbed
    <2>2. CallRecord(call[p])
      BY DEF ConversationTypes
    <2> QED
      BY <1>2, <2>1, <2>2
  <1> QED
    BY <1>1, <1>2

(* A step of the server that disturbs some calls and leaves the other ones in order *)
LEMMA DisturbedKeepsCalls ==
    ASSUME ConversationsInv, ServerStep, slots' = slots, NEW D, call' = Disturbed(D),
           \A p \in Peers \ D : CleanCall(p) /\ Waiting(p) /\ ~Told(p) /\ call'[p] = call[p] => StageOf(p)'
    PROVE  ConversationsInv'
  <1>1. ConversationTypes
    BY DEF ConversationsInv
  <1>2. \A p \in Peers :
            /\ CallRecord(call'[p]) /\ call'[p].id = call[p].id
            /\ call'[p].name = call[p].name /\ call'[p].script = call[p].script
            /\ call'[p].clean => call'[p] = call[p] /\ call[p].clean /\ (Waiting(p) => p \notin D)
    BY <1>1, DisturbedFacts
  <1>3. call' = [x \in Peers |-> call'[x]]
    BY DEF Disturbed
  <1>4. ConversationTypes'
    <2>1. /\ device' \in DOMAIN Calls /\ peers' \subseteq Peers /\ calls' \in Nat
          /\ IsQueue(inbox') /\ IsQueue(slots') /\ Len(slots') > 0
          /\ \A i \in 1 .. Len(slots') : slots'[i] \in BOOLEAN
          /\ tasks' \subseteq [peer : peers', id : 0 .. calls', over : BOOLEAN]
          /\ device' = "AdministratorPanel" => \A t, u \in tasks' : t = u
          /\ watchers' \subseteq peers'
          /\ pipe' = [p \in Peers |-> pipe'[p]]
      BY <1>1, Zenon DEF ConversationTypes, ServerStep
    <2>2. \A i \in 1 .. Len(inbox') : inbox'[i].peer \in peers' /\ inbox'[i].id \in 1 .. calls'
      BY <1>1 DEF ConversationTypes, ServerStep
    <2>3. ASSUME NEW p \in Peers
          PROVE  IsQueue(pipe'[p]) /\ CallRecord(call'[p]) /\ call'[p].id \in 0 .. calls'
      BY <1>1, <1>2 DEF ConversationTypes, ServerStep, Adds
    <2>4. PeersWait'
      BY <1>1, <1>2 DEF ConversationTypes, ServerStep, PeersWait, Waiting
    <2> QED
      BY <1>3, <2>1, <2>2, <2>3, <2>4, Zenon DEF ConversationTypes
  <1>5. ASSUME NEW p \in Peers, call'[p].clean PROVE CleanCall(p)'
    <2>1. CleanCall(p) /\ call'[p] = call[p] /\ (Waiting(p) => p \notin D)
      BY <1>2, <1>5 DEF ConversationsInv
    <2>2. OwnNumber(p) /\ call[p].id # 0
      BY <1>1, <2>1 DEF CleanCall, OwnNumber, ConversationTypes
    <2>3. OwnNumber(p)'
      <3>1. call'[p].id \in 1 .. calls' /\ \A q \in Peers : call'[q].id = call'[p].id => q = p
        BY <1>2, <2>2 DEF OwnNumber, ServerStep
      <3>2. \A i \in 1 .. Len(inbox') : inbox'[i].id = call[p].id => inbox'[i].peer = p
        BY <2>2 DEF OwnNumber, ServerStep
      <3>3. \A t \in tasks' : t.id = call[p].id => t.peer = p
        BY <2>2 DEF OwnNumber, ServerStep
      <3> QED
        BY <2>1, <3>1, <3>2, <3>3 DEF OwnNumber
    <2>4. ASSUME Waiting(p) PROVE StageOf(p)'
      <3>1. CASE Told(p)
        <4>1. Told(p)'
          BY <1>1, <2>1, <2>2, <3>1, ToldLater
        <4> QED
          BY <4>1 DEF StageOf
      <3>2. CASE ~Told(p)
        BY <2>1, <2>4, <3>2
      <3> QED
        BY <3>1, <3>2
    <2>5. NothingLeft(p) => NothingLeft(p)'
      BY <1>1, <2>1, <2>2, NothingIsLeftLater
    <2>6. device' = device /\ peers' = peers
      BY DEF ServerStep
    <2> QED
      BY <2>1, <2>3, <2>4, <2>5, <2>6 DEF CleanCall, Waiting
  <1> QED
    BY <1>4, <1>5 DEF ConversationsInv

(* A build is reported frozen, which disturbs the call that waits for it. *)
LEMMA BuildIsFrozenKeepsCalls ==
    ASSUME ConversationsInv, NEW t, t \in tasks, BuildIsFrozen(t) PROVE ConversationsInv'
  <1>1. /\ ConversationTypes /\ device = "Shipyard" /\ UNCHANGED <<device, peers, inbox, tasks, watchers, slots, calls>>
    BY DEF ConversationsInv, BuildIsFrozen, serverVars
  <1>2. PICK kinds, q, i : kinds = <<"build_frozen">> /\ q = t.peer /\ i = t.id
    OBVIOUS
  <1>3. IsQueue(kinds) /\ q \in peers /\ i \in Causes
    BY <1>1, <1>2, SomeKinds, CausesAreKnown DEF ConversationTypes
  <1>4. pipe' = SentToAll(kinds, q, i) /\ call' = Disturbed({q})
    BY <1>2 DEF BuildIsFrozen
  <1>5. ServerStep
    <2>1. \A x \in Peers : Adds(pipe[x], pipe'[x], Causes)
      BY <1>1, <1>3, <1>4, SentToAllReaches
    <2>2. pipe' = [x \in Peers |-> pipe'[x]]
      BY <1>4 DEF SentToAll
    <2>3. /\ tasks' \subseteq [peer : peers, id : 0 .. calls, over : BOOLEAN]
          /\ device = "AdministratorPanel" => \A u, v \in tasks' : u = v
          /\ \A v \in tasks' : \E w \in tasks : w.id = v.id /\ w.peer = v.peer
          /\ IsQueue(inbox') /\ watchers' \subseteq peers
          /\ \A k \in 1 .. Len(inbox') : \E j \in 1 .. Len(inbox) : inbox'[k] = inbox[j]
      BY <1>1 DEF ConversationTypes
    <2> QED
      BY <1>1, <2>1, <2>2, <2>3, Zenon DEF ServerStep
  <1>6. \A p \in Peers \ {q} : ~CleanCall(p)
    BY <1>1, <1>3 DEF CleanCall
  <1> QED
    BY <1>1, <1>4, <1>5, <1>6, DisturbedKeepsCalls

(* The clock is terminated: its caller waits on, who waits for ticks is disturbed. *)
LEMMA TerminateGoesOn ==
    ASSUME ConversationsInv, NEW r, Taking(r), Terminate(r), NEW D, call' = Disturbed(D),
           \A t \in tasks : t.peer \in D,
           pipe' = [x \in Peers |-> pipe'[x]],
           \A x \in Peers : Adds(pipe[x], pipe'[x], Causes),
           \A x \in Peers \ D : pipe'[x] = IF x = r.peer THEN pipe[x] \o Tagged(<<"status">>, r.id)
                                                         ELSE pipe[x]
    PROVE  ConversationsInv'
  <1>1. /\ device = "AdministratorPanel" /\ r.name = "terminate" /\ tasks' = tasks /\ watchers' = watchers
        /\ slots' = slots /\ device' = device
    BY DEF Terminate, Taking
  <1>2. ConversationTypes /\ Calls[device] = AdministratorPanelCalls
    BY <1>1 DEF ConversationsInv, Calls
  <1>3. ServerStep
    <2>1. /\ \A t \in tasks' : t \in tasks
          /\ device = "AdministratorPanel" => \A t, u \in tasks' : t = u
          /\ watchers' \subseteq watchers \cup {r.peer}
      BY <1>1, <1>2 DEF ConversationTypes
    <2> QED
      BY <1>2, <2>1, TakingIsServerStep
  <1>4. ASSUME NEW p \in Peers \ D, CleanCall(p), Waiting(p), ~Told(p), call'[p] = call[p] PROVE StageOf(p)'
    <2>1. p \notin watchers /\ TasksOf(p) = {} /\ TasksOf(p)' = {} /\ StageOf(p)
      BY <1>1, <1>4, WaitsAlone DEF TasksOf
    <2>2. CASE p # r.peer
      <3>1. pipe'[p] = pipe[p]
        BY <1>4, <2>2
      <3>2. /\ NoRequest(p) => NoRequest(p)'
            /\ \A name : OnlyRequest(p, name) => OnlyRequest(p, name)'
        <4>1. inbox # <<>> /\ r = Head(inbox) /\ inbox' = Tail(inbox) /\ IsQueue(inbox)
          BY <1>2 DEF Taking, ConversationTypes
        <4> QED
          BY <1>4, <2>2, <4>1, RequestIsTaken
      <3>3. Untouched(p)
        BY <1>1, <2>1, <3>1, <3>2 DEF Untouched
      <3> QED
        BY <1>1, <1>4, <2>1, <3>3, UntouchedStaysInStage
    <2>3. CASE p = r.peer
      <3>1. r.name \notin {"getTotalSlots", "allModulesInfo"}
        BY <1>1
      <3>2. /\ r.id = call[p].id /\ pipe[p] = <<>> /\ NoRequest(p)' /\ ~ListsModules(p)
            /\ call[p].name = "terminate" /\ call[p].script = AdministratorPanelCalls.switchMode
        <4>1. /\ r.id = call[p].id /\ pipe[p] = <<>> /\ NoRequest(p)' /\ ~ListsModules(p)
              /\ call[p].name = r.name /\ call[p].script = Calls[device][r.name]
          BY <1>2, <1>4, <2>3, <3>1, CallIsTaken
        <4> QED
          BY <1>1, <1>2, <4>1, SwitchWaitsOn
      <3>3. PICK end : end # <<>> /\ Understands(call[p].script, <<"status">>, end)
        BY <3>2, SwitchWaitsOn
      <3>4. pipe'[p] = pipe[p] \o Tagged(<<"status">>, call[p].id)
        BY <1>4, <2>3, <3>2
      <3>5. Len(pipe[p]) = 0 /\ AllOf(pipe[p], call[p].id)
        BY <3>2, EmptyQueue DEF AllOf
      <3>6. Follows(call[p].script, pipe[p], Len(pipe[p]), call[p].script)
        BY <3>5, FollowsNothing
      <3>7. AllOf(pipe'[p], call[p].id) /\ Follows(call[p].script, pipe'[p], Len(pipe'[p]), end)
        <4>1. IsQueue(<<"status">>)
          BY SomeKinds
        <4> QED
          BY <1>2, <3>3, <3>4, <3>5, <3>6, <4>1, CallGoesOn
      <3>8. MayWaitInVain(p)' /\ Quiet(p)' /\ ~ListsModules(p)'
        BY <1>1, <1>4, <2>1, <3>2 DEF MayWaitInVain, Quiet, ListsModules
      <3>9. InVain(p)'
        BY <1>4, <3>2, <3>3, <3>7, <3>8 DEF InVain, OnlyInfos
      <3> QED
        BY <3>9 DEF StageOf
    <2> QED
      BY <2>2, <2>3
  <1> QED
    BY <1>1, <1>3, <1>4, DisturbedKeepsCalls

(* A termination of the clock is told to one session or two. *)
LEMMA TerminateKeepsCalls ==
    ASSUME ConversationsInv, NEW r, Taking(r), Terminate(r) PROVE ConversationsInv'
  <1>1. ConversationTypes /\ device = "AdministratorPanel"
    BY DEF ConversationsInv, Terminate
  <1>2. r.peer \in Peers /\ r.id \in Causes /\ 0 \in Causes /\ IsQueue(<<"status">>)
    BY <1>1, TakingFacts, CausesAreKnown, SomeKinds
  <1>3. CASE tasks = {} /\ pipe' = Sent(r.peer, <<"status">>, r.id) /\ call' = call
    <2>1. call = [p \in Peers |-> call[p]]
      BY <1>1 DEF ConversationTypes
    <2>2. call' = Disturbed({})
      BY <1>3, <2>1 DEF Disturbed
    <2>3. /\ pipe' = [x \in Peers |-> pipe'[x]]
          /\ \A x \in Peers : Adds(pipe[x], pipe'[x], Causes)
          /\ pipe'[r.peer] = pipe[r.peer] \o Tagged(<<"status">>, r.id)
          /\ \A x \in Peers \ {r.peer} : pipe'[x] = pipe[x]
      <3>1. PICK kinds, q, i : kinds = <<"status">> /\ q = r.peer /\ i = r.id
        OBVIOUS
      <3>2. pipe' = Sent(q, kinds, i) /\ q \in Peers /\ IsQueue(kinds) /\ i \in Causes
        BY <1>2, <1>3, <3>1
      <3>3. /\ pipe' = [x \in Peers |-> pipe'[x]]
            /\ \A x \in Peers : Adds(pipe[x], pipe'[x], Causes)
            /\ pipe'[q] = pipe[q] \o Tagged(kinds, i)
            /\ \A x \in Peers \ {q} : pipe'[x] = pipe[x]
        BY <1>1, <3>2, SentTo, SentReaches
      <3> QED
        BY <3>1, <3>3
    <2>4. PICK D : D = {}
      OBVIOUS
    <2>5. /\ call' = Disturbed(D) /\ \A t \in tasks : t.peer \in D
          /\ \A x \in Peers \ D : pipe'[x] = IF x = r.peer THEN pipe[x] \o Tagged(<<"status">>, r.id)
                                                            ELSE pipe[x]
      BY <1>3, <2>2, <2>3, <2>4
    <2> QED
      BY <2>3, <2>5, TerminateGoesOn
  <1>4. ASSUME NEW t \in tasks, call' = Disturbed({t.peer}),
               pipe' = [p \in Peers |->
                   pipe[p] \o (IF p = r.peer THEN Tagged(<<"status">>, r.id) ELSE <<>>)
                           \o (IF p = t.peer THEN Tagged(<<"status">>, 0) ELSE <<>>)]
        PROVE  ConversationsInv'
    <2>1. ASSUME NEW x \in Peers
          PROVE  /\ Adds(pipe[x], pipe'[x], Causes)
                 /\ x # r.peer /\ x # t.peer => pipe'[x] = pipe[x]
                 /\ x = r.peer /\ x # t.peer => pipe'[x] = pipe[x] \o Tagged(<<"status">>, r.id)
      <3>1. PICK a, b, i, j, kinds : a = r.peer /\ b = t.peer /\ i = r.id /\ j = 0 /\ kinds = <<"status">>
        OBVIOUS
      <3>2. pipe'[x] = AndBoth(pipe[x], x, a, kinds, i, b, kinds, j)
        BY <1>4, <3>1, Zenon DEF AndBoth
      <3>3. i \in Causes /\ j \in Causes /\ IsQueue(kinds)
        BY <1>2, <3>1
      <3>4. BothReach(x, a, kinds, i, b, kinds, j)
        BY <1>1, <3>2, <3>3, SentBoth
      <3> QED
        BY <3>1, <3>4, Zenon DEF BothReach
    <2>2. pipe' = [x \in Peers |-> pipe'[x]]
      BY <1>4
    <2>3. \A u \in tasks : u.peer \in {t.peer}
      BY <1>1 DEF ConversationTypes
    <2>4. PICK D : D = {t.peer}
      OBVIOUS
    <2>5. \A x \in Peers \ D : pipe'[x] = IF x = r.peer THEN pipe[x] \o Tagged(<<"status">>, r.id)
                                                        ELSE pipe[x]
      BY <2>1, <2>4
    <2> QED
      BY <1>4, <2>1, <2>2, <2>3, <2>4, <2>5, TerminateGoesOn
  <1> QED
    BY <1>3, <1>4 DEF Terminate

(* A module is attached or leaves while no list of modules is taken. *)
LEMMA OtherSlotsStage ==
    ASSUME UNCHANGED <<device, inbox, tasks, watchers>>, NEW p, call'[p] = call[p], pipe'[p] = pipe[p],
           ~ListsModules(p), StageOf(p)
    PROVE  StageOf(p)'
  <1>1. /\ ~ListsModules(p)' /\ Quiet(p)' = Quiet(p) /\ TasksOf(p)' = TasksOf(p)
        /\ NoRequest(p)' = NoRequest(p) /\ OnlyInfos(p)'
        /\ \A name : OnlyRequest(p, name)' = OnlyRequest(p, name)
    BY DEF ListsModules, Quiet, TasksOf, NoRequest, OnlyRequest, OnlyInfos
  <1>2. MayWaitInVain(p) => MayWaitInVain(p)'
    BY DEF MayWaitInVain, ListsModules
  <1>3. Asked(p) => Asked(p)'
    BY <1>1 DEF Asked
  <1>4. ~Counted(p)
    BY DEF Counted
  <1>5. Served(p) => Served(p)'
    BY <1>1, Zenon DEF Served
  <1>6. Told(p) => Told(p)'
    BY <1>1, Zenon DEF Told
  <1>7. InVain(p) => InVain(p)'
    BY <1>1, <1>2, Zenon DEF InVain
  <1> QED
    BY <1>3, <1>4, <1>5, <1>6, <1>7, Zenon DEF StageOf

(* A module is attached or detached: calls that list modules are not clean any more. *)
LEMMA ChangeSlotsKeepsCalls ==
    ASSUME ConversationsInv, ChangeSlots PROVE ConversationsInv'
  <1>1. ConversationTypes /\ UNCHANGED <<device, peers, inbox, tasks, watchers, calls>>
    BY DEF ConversationsInv, ChangeSlots
  <1>2. PICK kinds : kinds = <<MonitorUpdate[device]>>
    OBVIOUS
  <1>3. \A x \in Peers : pipe'[x] = IF x \in watchers THEN pipe[x] \o Tagged(kinds, 0) ELSE pipe[x]
    BY <1>2 DEF ChangeSlots
  <1>4. \A x \in Peers : Adds(pipe[x], pipe'[x], Causes) /\ (x \notin watchers => pipe'[x] = pipe[x])
    <2>1. IsQueue(kinds)
      BY <1>2, SomeKinds
    <2> QED
      BY <1>1, <1>3, <2>1, WatchersHear
  <1>5. pipe' = [x \in Peers |-> pipe'[x]] /\ call' = [x \in Peers |-> call'[x]]
    BY DEF ChangeSlots, Disturbed
  <1>6. ServerStep
    <2>1. /\ tasks' \subseteq [peer : peers, id : 0 .. calls, over : BOOLEAN]
          /\ device = "AdministratorPanel" => \A u, v \in tasks' : u = v
          /\ \A v \in tasks' : \E w \in tasks : w.id = v.id /\ w.peer = v.peer
          /\ IsQueue(inbox') /\ watchers' \subseteq peers
          /\ \A i \in 1 .. Len(inbox') : \E j \in 1 .. Len(inbox) : inbox'[i] = inbox[j]
      BY <1>1 DEF ConversationTypes
    <2> QED
      BY <1>1, <1>4, <1>5, <2>1, Zenon DEF ServerStep
  <1>7. ASSUME NEW p \in Peers
        PROVE  /\ CallRecord(call'[p]) /\ call'[p].id = call[p].id
               /\ call'[p].name = call[p].name /\ call'[p].script = call[p].script
               /\ call'[p].clean => /\ call'[p] = call[p] /\ call[p].clean
                                    /\ Waiting(p) => ~ListsModules(p)
    <2>1. PICK D : D = {q \in Peers : call[q].name = "getAttachedModulesList"}
      OBVIOUS
    <2>2. call' = Disturbed(D) /\ (ListsModules(p) => p \in D)
      BY <2>1 DEF ChangeSlots, ListsModules
    <2> QED
      BY <1>1, <2>2, DisturbedFacts
  <1>8. IsQueue(slots') /\ Len(slots') > 0 /\ \A i \in 1 .. Len(slots') : slots'[i] \in BOOLEAN
    <2>1. IsQueue(slots) /\ Len(slots) > 0 /\ Len(slots) \in Nat /\ \A i \in 1 .. Len(slots) : slots[i] \in BOOLEAN
      BY <1>1, QueueFacts DEF ConversationTypes
    <2>2. CASE slots' = Append(slots, TRUE)
      <3>1. PICK b : b = TRUE
        OBVIOUS
      <3>2. /\ IsQueue(slots') /\ Len(slots') = Len(slots) + 1 /\ slots'[Len(slots) + 1] = b
            /\ \A i \in 1 .. Len(slots) : slots'[i] = slots[i]
        <4>1. slots' = Append(slots, b)
          BY <2>2, <3>1, Zenon
        <4> QED
          BY <2>1, <4>1, QueueTakes
      <3>3. b \in BOOLEAN
        BY <3>1
      <3>4. \A i \in 1 .. Len(slots') : i \in 1 .. Len(slots) \/ i = Len(slots) + 1
        BY <2>1, <3>2
      <3>5. Len(slots') > 0
        BY <2>1, <3>2
      <3> QED
        BY <2>1, <3>2, <3>3, <3>4, <3>5
    <2>3. ASSUME NEW k \in 1 .. Len(slots), slots' = [slots EXCEPT ![k] = FALSE]
          PROVE  IsQueue(slots') /\ Len(slots') > 0 /\ \A i \in 1 .. Len(slots') : slots'[i] \in BOOLEAN
      <3>1. DOMAIN slots = 1 .. Len(slots)
        BY <2>1, QueueFacts
      <3>2. slots' = [i \in 1 .. Len(slots) |-> slots'[i]]
        BY <2>3, <3>1
      <3>3. IsQueue(slots') /\ Len(slots') = Len(slots)
        BY <2>1, <3>2, IsAQueue
      <3>4. \A i \in 1 .. Len(slots) : slots'[i] = FALSE \/ slots'[i] = slots[i]
        BY <2>3, <3>1
      <3> QED
        BY <2>1, <3>3, <3>4
    <2> QED
      BY <2>2, <2>3 DEF ChangeSlots
  <1>9. ConversationTypes'
    <2>1. /\ device' \in DOMAIN Calls /\ peers' \subseteq Peers /\ calls' \in Nat
          /\ IsQueue(inbox')
          /\ \A i \in 1 .. Len(inbox') : inbox'[i].peer \in peers' /\ inbox'[i].id \in 1 .. calls'
          /\ tasks' \subseteq [peer : peers', id : 0 .. calls', over : BOOLEAN]
          /\ device' = "AdministratorPanel" => \A t, u \in tasks' : t = u
          /\ watchers' \subseteq peers'
      BY <1>1 DEF ConversationTypes
    <2>2. ASSUME NEW p \in Peers
          PROVE  IsQueue(pipe'[p]) /\ CallRecord(call'[p]) /\ call'[p].id \in 0 .. calls'
      BY <1>1, <1>4, <1>7 DEF ConversationTypes, Adds
    <2>3. PeersWait'
      BY <1>1, <1>7 DEF ConversationTypes, PeersWait, Waiting
    <2> QED
      BY <1>5, <1>8, <2>1, <2>2, <2>3, Zenon DEF ConversationTypes
  <1>10. ASSUME NEW p \in Peers, call'[p].clean PROVE CleanCall(p)'
    <2>1. CleanCall(p) /\ call'[p] = call[p] /\ (Waiting(p) => ~ListsModules(p))
      BY <1>7, <1>10 DEF ConversationsInv
    <2>2. OwnNumber(p) /\ call[p].id # 0
      BY <1>1, <2>1 DEF CleanCall, OwnNumber, ConversationTypes
    <2>3. OwnNumber(p)'
      BY <1>1, <1>7, <2>2 DEF OwnNumber
    <2>4. ASSUME Waiting(p) PROVE StageOf(p)'
      <3>1. CASE Told(p)
        <4>1. Told(p)'
          BY <1>1, <1>6, <2>1, <2>2, <3>1, ToldLater
        <4> QED
          BY <4>1 DEF StageOf
      <3>2. CASE ~Told(p)
        <4>1. p \notin watchers /\ StageOf(p)
          BY <2>1, <2>4, <3>2, WaitsAlone
        <4>2. pipe'[p] = pipe[p]
          BY <1>4, <4>1
        <4> QED
          BY <1>1, <2>1, <2>4, <4>1, <4>2, OtherSlotsStage
      <3> QED
        BY <3>1, <3>2
    <2>5. NothingLeft(p) => NothingLeft(p)'
      BY <1>1, <1>6, <2>1, <2>2, NothingIsLeftLater
    <2> QED
      BY <1>1, <2>1, <2>3, <2>4, <2>5 DEF CleanCall, Waiting
  <1> QED
    BY <1>9, <1>10 DEF ConversationsInv

(* A step of one client *)
ClientStep(p) ==
    /\ UNCHANGED <<device, peers, tasks, watchers, slots>>
    /\ calls' \in Nat /\ calls <= calls'
    /\ call' = [q \in Peers |-> call'[q]] /\ pipe' = [q \in Peers |-> pipe'[q]]
    /\ \A q \in Peers \ {p} : call'[q] = call[q] /\ pipe'[q] = pipe[q]
    /\ IsQueue(pipe'[p]) /\ CallRecord(call'[p]) /\ call'[p].id \in 0 .. calls'
    /\ Waiting(p)' => p \in peers /\ call'[p].id # 0
    /\ call'[p].id = call[p].id \/ call'[p].id = calls + 1

(* It may make a request. *)
Requests(p, r) ==
    inbox' = Append(inbox, r) /\ r.peer = p /\ p \in peers /\ r.id = call'[p].id /\ r.id # 0

(* What a client does keeps the types. *)
LEMMA ClientKeepsTypes ==
    ASSUME ConversationTypes, NEW p \in Peers, ClientStep(p),
           inbox' = inbox \/ \E r : Requests(p, r)
    PROVE  ConversationTypes'
  <1>1. /\ calls \in Nat /\ calls' \in Nat /\ calls <= calls'
        /\ UNCHANGED <<device, peers, tasks, watchers, slots>>
    BY DEF ConversationTypes, ClientStep
  <1>2. 0 .. calls \subseteq 0 .. calls' /\ 1 .. calls \subseteq 1 .. calls'
    BY <1>1
  <1>3. /\ device' \in DOMAIN Calls /\ peers' \subseteq Peers
        /\ IsQueue(slots') /\ Len(slots') > 0 /\ \A i \in 1 .. Len(slots') : slots'[i] \in BOOLEAN
        /\ device' = "AdministratorPanel" => \A t, u \in tasks' : t = u
        /\ watchers' \subseteq peers'
    BY <1>1 DEF ConversationTypes
  <1>4. tasks' \subseteq [peer : peers', id : 0 .. calls', over : BOOLEAN]
    BY <1>1, <1>2 DEF ConversationTypes
  <1>5. IsQueue(inbox') /\ \A i \in 1 .. Len(inbox') : inbox'[i].peer \in peers' /\ inbox'[i].id \in 1 .. calls'
    <2>1. IsQueue(inbox) /\ \A i \in 1 .. Len(inbox) : inbox[i].peer \in peers /\ inbox[i].id \in 1 .. calls
      BY DEF ConversationTypes
    <2>2. CASE inbox' = inbox
      BY <1>1, <1>2, <2>1, <2>2
    <2>3. ASSUME NEW r, Requests(p, r)
          PROVE  IsQueue(inbox') /\ \A i \in 1 .. Len(inbox') : inbox'[i].peer \in peers' /\ inbox'[i].id \in 1 .. calls'
      <3>1. inbox' = Append(inbox, r) /\ r.peer \in peers' /\ r.id \in 1 .. calls'
        BY <1>1, <2>3 DEF Requests, ClientStep
      <3>2. /\ IsQueue(inbox')
            /\ \A i \in 1 .. Len(inbox') : (i \in 1 .. Len(inbox) /\ inbox'[i] = inbox[i]) \/ inbox'[i] = r
        BY <2>1, <3>1, RequestIsMade
      <3> QED
        BY <1>1, <1>2, <2>1, <3>1, <3>2
    <2> QED
      BY <2>2, <2>3
  <1>6. ASSUME NEW q \in Peers
        PROVE  IsQueue(pipe'[q]) /\ CallRecord(call'[q]) /\ call'[q].id \in 0 .. calls'
    <2>1. CASE q = p
      BY <2>1 DEF ClientStep
    <2>2. CASE q # p
      <3>1. call'[q] = call[q] /\ pipe'[q] = pipe[q]
        BY <2>2 DEF ClientStep
      <3> QED
        BY <1>2, <3>1 DEF ConversationTypes
    <2> QED
      BY <2>1, <2>2
  <1>7. PeersWait'
    <2>1. ASSUME NEW q \in Peers, Waiting(q)' PROVE q \in peers' /\ call'[q].id # 0
      <3>1. CASE q = p
        BY <1>1, <2>1, <3>1 DEF ClientStep
      <3>2. CASE q # p
        BY <1>1, <2>1, <3>2 DEF ClientStep, ConversationTypes, PeersWait, Waiting
      <3> QED
        BY <3>1, <3>2
    <2> QED
      BY <2>1 DEF PeersWait
  <1>8. call' = [q \in Peers |-> call'[q]] /\ pipe' = [q \in Peers |-> pipe'[q]]
    BY DEF ClientStep
  <1> QED
    BY <1>1, <1>3, <1>4, <1>5, <1>6, <1>7, <1>8, Zenon DEF ConversationTypes

(* Another session does not notice. *)
LEMMA AnotherCallStays ==
    ASSUME ConversationTypes, NEW p \in Peers, ClientStep(p),
           inbox' = inbox \/ \E r : Requests(p, r),
           NEW q \in Peers, q # p, CleanCall(q)
    PROVE  CleanCall(q)'
  <1>1. /\ call'[q] = call[q] /\ pipe'[q] = pipe[q] /\ calls <= calls' /\ calls' \in Nat /\ calls \in Nat
        /\ UNCHANGED <<device, peers, tasks, watchers, slots>>
    BY DEF ClientStep, ConversationTypes
  <1>2. OwnNumber(q) /\ call[q].id \in 1 .. calls
    BY DEF CleanCall, OwnNumber
  <1>3. call'[p].id # call[q].id
    <2>1. call[p].id # call[q].id
      BY <1>2 DEF OwnNumber
    <2>2. calls + 1 # call[q].id
      BY <1>1, <1>2
    <2> QED
      BY <2>1, <2>2 DEF ClientStep
  <1>4. /\ \A i \in 1 .. Len(inbox') : \/ \E j \in 1 .. Len(inbox) : inbox'[i] = inbox[j]
                                       \/ inbox'[i].id # call[q].id
        /\ Untouched(q)
    <2>1. TasksOf(q)' = TasksOf(q)
      BY <1>1 DEF TasksOf
    <2>2. CASE inbox' = inbox
      BY <1>1, <2>1, <2>2 DEF Untouched, NoRequest, OnlyRequest
    <2>3. ASSUME NEW r, Requests(p, r)
          PROVE  /\ \A i \in 1 .. Len(inbox') : \/ \E j \in 1 .. Len(inbox) : inbox'[i] = inbox[j]
                                                \/ inbox'[i].id # call[q].id
                 /\ Untouched(q)
      <3>1. inbox' = Append(inbox, r) /\ r.peer # q /\ r.id # call[q].id /\ IsQueue(inbox)
        BY <1>3, <2>3 DEF Requests, ConversationTypes
      <3>2. \A i \in 1 .. Len(inbox') : (i \in 1 .. Len(inbox) /\ inbox'[i] = inbox[i]) \/ inbox'[i] = r
        BY <3>1, RequestIsMade
      <3>3. (NoRequest(q) => NoRequest(q)') /\ \A name : OnlyRequest(q, name) => OnlyRequest(q, name)'
        BY <1>1, <3>1, RequestIsMade
      <3> QED
        BY <1>1, <2>1, <3>1, <3>2, <3>3 DEF Untouched
    <2> QED
      BY <2>2, <2>3
  <1>5. OwnNumber(q)'
    <2>1. call'[q].id \in 1 .. calls'
      BY <1>1, <1>2
    <2>2. \A x \in Peers : call'[x].id = call[q].id => x = q
      BY <1>2, <1>3 DEF OwnNumber, ClientStep
    <2>3. \A i \in 1 .. Len(inbox') : inbox'[i].id = call[q].id => inbox'[i].peer = q
      BY <1>2, <1>4 DEF OwnNumber
    <2> QED
      BY <1>1, <1>2, <2>1, <2>2, <2>3 DEF OwnNumber
  <1>6. StageOf(q) => StageOf(q)'
    BY <1>1, <1>4, UntouchedStaysInStage
  <1>7. NothingLeft(q) => NothingLeft(q)'
    BY <1>1, <1>4 DEF NothingLeft
  <1> QED
    BY <1>1, <1>5, <1>6, <1>7 DEF CleanCall, Waiting

(* What a client does keeps the calls in order if its own call is. *)
LEMMA ClientKeepsCalls ==
    ASSUME ConversationsInv, NEW p \in Peers, ClientStep(p),
           inbox' = inbox \/ \E r : Requests(p, r),
           call'[p].clean => CleanCall(p)'
    PROVE  ConversationsInv'
  <1>1. ConversationTypes /\ ConversationTypes'
    BY ClientKeepsTypes DEF ConversationsInv
  <1>2. ASSUME NEW q \in Peers, call'[q].clean PROVE CleanCall(q)'
    <2>1. CASE q = p
      BY <1>2, <2>1
    <2>2. CASE q # p
      <3>1. CleanCall(q)
        BY <1>2, <2>2 DEF ClientStep, ConversationsInv
      <3> QED
        BY <1>1, <2>2, <3>1, AnotherCallStays
    <2> QED
      BY <2>1, <2>2
  <1> QED
    BY <1>1, <1>2 DEF ConversationsInv

(* The numbers of a call that goes on *)
LEMMA NumberIsKept ==
    ASSUME ConversationTypes, NEW p \in Peers, ClientStep(p), call'[p].id = call[p].id,
           inbox' = inbox \/ \E r : Requests(p, r), OwnNumber(p)
    PROVE  OwnNumber(p)'
  <1>1. /\ calls <= calls' /\ calls' \in Nat /\ calls \in Nat /\ tasks' = tasks
        /\ call[p].id \in 1 .. calls
    BY DEF ClientStep, ConversationTypes, OwnNumber
  <1>2. call'[p].id \in 1 .. calls'
    BY <1>1
  <1>3. \A x \in Peers : call'[x].id = call[p].id => x = p
    BY DEF OwnNumber, ClientStep
  <1>4. \A i \in 1 .. Len(inbox') : inbox'[i].id = call[p].id => inbox'[i].peer = p
    <2>1. CASE inbox' = inbox
      BY <2>1 DEF OwnNumber
    <2>2. ASSUME NEW r, Requests(p, r)
          PROVE  \A i \in 1 .. Len(inbox') : inbox'[i].id = call[p].id => inbox'[i].peer = p
      <3>1. inbox' = Append(inbox, r) /\ r.peer = p /\ IsQueue(inbox)
        BY <2>2 DEF Requests, ConversationTypes
      <3>2. \A i \in 1 .. Len(inbox') : (i \in 1 .. Len(inbox) /\ inbox'[i] = inbox[i]) \/ inbox'[i] = r
        BY <3>1, RequestIsMade
      <3> QED
        BY <3>1, <3>2 DEF OwnNumber
    <2> QED
      BY <2>1, <2>2
  <1> QED
    BY <1>1, <1>2, <1>3, <1>4 DEF OwnNumber

(* A call starts. *)
LEMMA StartCallKeepsCalls ==
    ASSUME ConversationsInv, NEW p \in Peers, NEW name \in DOMAIN Calls[device], StartCall(p, name)
    PROVE  ConversationsInv'
  <1>1. ConversationTypes
    BY DEF ConversationsInv
  <1>2. PICK r : r = [peer |-> p, id |-> calls + 1, name |-> RequestOf(name)]
    OBVIOUS
  <1>3. PICK x \in BOOLEAN : x = IsClean(p)
    <2>1. IsClean(p) \in BOOLEAN
      BY DEF IsClean
    <2> QED
      BY <2>1
  <1>4. PICK c : c = [name |-> name, id |-> calls + 1, script |-> Calls[device][name],
                      clean |-> x, mixed |-> FALSE, late |-> FALSE]
    OBVIOUS
  <1>5. /\ CallRecord(c) /\ c.name = name /\ c.id = calls + 1 /\ c.script = Calls[device][name]
        /\ c.clean = x /\ ~c.mixed /\ ~c.late
    BY <1>4, NewCallFacts
  <1>6. /\ p \in peers /\ ~Waiting(p) /\ calls' = calls + 1 /\ call' = [call EXCEPT ![p] = c]
        /\ inbox' = Append(inbox, r) /\ UNCHANGED <<device, peers, tasks, watchers, slots, pipe>>
    BY <1>2, <1>3, <1>4, Zenon DEF StartCall
  <1>7. call = [q \in Peers |-> call[q]] /\ pipe = [q \in Peers |-> pipe[q]] /\ calls \in Nat
    BY <1>1 DEF ConversationTypes
  <1>8. call'[p] = c /\ call' = [q \in Peers |-> call'[q]] /\ \A q \in Peers \ {p} : call'[q] = call[q]
    BY <1>6, <1>7
  <1>9. ClientStep(p)
    <2>1. calls' \in Nat /\ calls <= calls' /\ call'[p].id \in 0 .. calls' /\ call'[p].id # 0
      BY <1>5, <1>6, <1>7, <1>8
    <2>2. IsQueue(pipe'[p]) /\ pipe' = [q \in Peers |-> pipe'[q]] /\ \A q \in Peers : pipe'[q] = pipe[q]
      BY <1>1, <1>6, <1>7 DEF ConversationTypes
    <2> QED
      BY <1>5, <1>6, <1>8, <2>1, <2>2 DEF ClientStep
  <1>10. Requests(p, r) /\ r.peer = p /\ r.id = calls + 1 /\ r.name = RequestOf(name)
    <2>1. calls + 1 # 0
      BY <1>7
    <2> QED
      BY <1>2, <1>5, <1>6, <1>8, <2>1 DEF Requests
  <1>11. ASSUME call'[p].clean PROVE CleanCall(p)'
    <2>1. /\ pipe[p] = <<>> /\ NoRequest(p) /\ Quiet(p)
          /\ device = "Shipyard" => peers = {p}
      BY <1>3, <1>5, <1>8, <1>11 DEF IsClean, NoRequest, Quiet, TasksOf
    <2>2. OwnNumber(p)'
      <3>1. /\ \A q \in Peers : call[q].id \in 0 .. calls
            /\ \A i \in 1 .. Len(inbox) : inbox[i].id \in 1 .. calls
            /\ \A t \in tasks : t.id \in 0 .. calls
        BY <1>1 DEF ConversationTypes
      <3>2. calls + 1 \in 1 .. calls' /\ calls + 1 \notin 0 .. calls /\ calls + 1 \notin 1 .. calls
        BY <1>6, <1>7
      <3>3. call'[p].id = calls + 1
        BY <1>5, <1>8
      <3>4. \A q \in Peers : call'[q].id = calls + 1 => q = p
        BY <1>8, <3>1, <3>2
      <3>5. \A i \in 1 .. Len(inbox') : inbox'[i].id = calls + 1 => inbox'[i].peer = p
        <4>1. \A i \in 1 .. Len(inbox') : (i \in 1 .. Len(inbox) /\ inbox'[i] = inbox[i]) \/ inbox'[i] = r
          BY <1>1, <1>6, RequestIsMade DEF ConversationTypes
        <4> QED
          BY <1>10, <3>1, <3>2, <4>1
      <3>6. \A t \in tasks' : t.id = calls + 1 => t.peer = p
        BY <1>6, <3>1, <3>2
      <3> QED
        BY <3>2, <3>3, <3>4, <3>5, <3>6 DEF OwnNumber
    <2>3. Asked(p)'
      <3>1. OnlyRequest(p, r.name)'
        BY <1>1, <1>5, <1>6, <1>8, <1>10, <2>1, RequestIsMade DEF ConversationTypes
      <3>2. Quiet(p)' /\ pipe'[p] = <<>>
        BY <1>6, <2>1 DEF Quiet, TasksOf
      <3>3. OnlyRequest(p, RequestOf(name))'
        BY <1>10, <3>1
      <3> QED
        BY <1>5, <1>6, <1>8, <3>2, <3>3 DEF Asked
    <2>4. /\ p \in peers' /\ call'[p].name \in DOMAIN Calls[device'] /\ ~call'[p].mixed
          /\ call'[p].script = Calls[device'][call'[p].name]
          /\ device' = "Shipyard" => peers' = {p}
      BY <1>5, <1>6, <1>8, <2>1
    <2> QED
      BY <2>2, <2>3, <2>4 DEF CleanCall, StageOf, Waiting
  <1> QED
    BY <1>9, <1>10, <1>11, ClientKeepsCalls

(* A wait for what was not asked for *)
Fresh(n, name, id, s) == [n EXCEPT !.name = name, !.id = id, !.script = s]

(* The record of a call that is started or goes on *)
LEMMA FreshFacts ==
    ASSUME NEW n, CallRecord(n), NEW name, NEW id, NEW s, NEW c, c = Fresh(n, name, id, s)
    PROVE  CallRecord(c) /\ c.id = id /\ c.clean = n.clean
  <1>1. c = [name |-> name, id |-> id, script |-> s,
             clean |-> n.clean, mixed |-> n.mixed, late |-> n.late]
    BY Zenon DEF CallRecord, Fresh
  <1>2. /\ c.name = name /\ c.id = id /\ c.script = s /\ c.clean = n.clean /\ c.mixed = n.mixed
        /\ c.late = n.late
    BY <1>1
  <1> QED
    BY <1>1, <1>2, Zenon DEF CallRecord

(* A client that has made no call *)
LEMMA NoCallFacts == CallRecord(NoCall) /\ ~NoCall.clean /\ NoCall.id = 0 /\ NoCall.script = <<>>
  BY DEF CallRecord, NoCall

(* A client that starts to wait without a request *)
LEMMA StartWaitingKeepsCalls ==
    ASSUME ConversationsInv, NEW p \in Peers, NEW name, StartWaiting(p, name) PROVE ConversationsInv'
  <1>1. ConversationTypes
    BY DEF ConversationsInv
  <1>2. PICK i, w : i = calls + 1 /\ w = Waits[device][name]
    OBVIOUS
  <1>3. PICK n, c : n = NoCall /\ c = Fresh(n, name, i, w)
    OBVIOUS
  <1>4. CallRecord(c) /\ c.id = calls + 1 /\ ~c.clean
    <2>1. CallRecord(n) /\ ~n.clean
      BY <1>3, NoCallFacts
    <2>2. CallRecord(c) /\ c.id = i /\ c.clean = n.clean
      BY <1>3, <2>1, FreshFacts
    <2> QED
      BY <1>2, <2>1, <2>2
  <1>6. /\ p \in peers /\ calls' = calls + 1 /\ call' = [call EXCEPT ![p] = c]
        /\ UNCHANGED <<device, peers, inbox, tasks, watchers, slots, pipe>>
    BY <1>2, <1>3, Zenon DEF StartWaiting, serverVars, Fresh
  <1>7. call = [q \in Peers |-> call[q]] /\ pipe = [q \in Peers |-> pipe[q]] /\ calls \in Nat
    BY <1>1 DEF ConversationTypes
  <1>8. call'[p] = c /\ call' = [q \in Peers |-> call'[q]] /\ \A q \in Peers \ {p} : call'[q] = call[q]
    BY <1>6, <1>7
  <1>9. ClientStep(p)
    <2>1. calls' \in Nat /\ calls <= calls' /\ call'[p].id \in 0 .. calls' /\ call'[p].id # 0
      BY <1>4, <1>6, <1>7, <1>8
    <2>2. IsQueue(pipe'[p]) /\ pipe' = [q \in Peers |-> pipe'[q]] /\ \A q \in Peers : pipe'[q] = pipe[q]
      BY <1>1, <1>6, <1>7 DEF ConversationTypes
    <2> QED
      BY <1>4, <1>6, <1>8, <2>1, <2>2 DEF ClientStep
  <1>10. ~call'[p].clean /\ inbox' = inbox
    BY <1>4, <1>6, <1>8
  <1> QED
    BY <1>9, <1>10, ClientKeepsCalls

(* A call is timed out, which makes it late. *)
LEMMA TimeoutKeepsCalls ==
    ASSUME ConversationsInv, NEW p \in Peers, Timeout(p) PROVE ConversationsInv'
  <1>1. ConversationTypes
    BY DEF ConversationsInv
  <1>2. PICK c : c = call[p]
    OBVIOUS
  <1>3. PICK d : d = [c EXCEPT !.script = <<>>, !.late = TRUE]
    OBVIOUS
  <1>4. /\ CallRecord(d) /\ d.id = c.id /\ d.name = c.name /\ d.script = <<>>
        /\ d.clean = c.clean /\ d.mixed = c.mixed /\ d.late = TRUE
    <2>1. CallRecord(c)
      BY <1>1, <1>2 DEF ConversationTypes
    <2> QED
      BY <1>3, <2>1, LateFacts
  <1>5. /\ call' = [call EXCEPT ![p] = d]
        /\ UNCHANGED <<device, peers, inbox, tasks, watchers, slots, pipe, calls>>
    BY <1>2, <1>3, Zenon DEF Timeout, serverVars
  <1>6. /\ call = [q \in Peers |-> call[q]] /\ pipe = [q \in Peers |-> pipe[q]] /\ calls \in Nat
        /\ c.id \in 0 .. calls
    BY <1>1, <1>2 DEF ConversationTypes
  <1>7. call'[p] = d /\ call' = [q \in Peers |-> call'[q]] /\ \A q \in Peers \ {p} : call'[q] = call[q]
    BY <1>5, <1>6
  <1>8. ClientStep(p)
    <2>1. calls' \in Nat /\ calls <= calls' /\ call'[p].id \in 0 .. calls' /\ call'[p].id = call[p].id
      BY <1>2, <1>4, <1>5, <1>6, <1>7
    <2>2. IsQueue(pipe'[p]) /\ pipe' = [q \in Peers |-> pipe'[q]] /\ \A q \in Peers : pipe'[q] = pipe[q]
      BY <1>1, <1>5, <1>6 DEF ConversationTypes
    <2>3. ~Waiting(p)'
      BY <1>4, <1>7 DEF Waiting
    <2> QED
      BY <1>4, <1>5, <1>7, <2>1, <2>2, <2>3 DEF ClientStep
  <1>9. ASSUME call'[p].clean PROVE CleanCall(p)'
    <2>1. CleanCall(p)
      BY <1>2, <1>4, <1>7, <1>9 DEF ConversationsInv
    <2>2. OwnNumber(p)'
      BY <1>1, <1>2, <1>4, <1>5, <1>7, <1>8, <2>1, NumberIsKept DEF CleanCall
    <2>3. ~Waiting(p)' /\ call'[p].late /\ call'[p].name = call[p].name /\ ~call'[p].mixed
      BY <1>2, <1>4, <1>7, <2>1 DEF Waiting, CleanCall
    <2> QED
      BY <1>5, <2>1, <2>2, <2>3 DEF CleanCall
  <1> QED
    BY <1>5, <1>8, <1>9, ClientKeepsCalls

(* A client that does not wait drops what is queued for it. *)
LEMMA DropQueuedMessageKeepsCalls ==
    ASSUME ConversationsInv, NEW p \in Peers, DropQueuedMessage(p) PROVE ConversationsInv'
  <1>1. ConversationTypes
    BY DEF ConversationsInv
  <1>2. /\ ~Waiting(p) /\ pipe' = [pipe EXCEPT ![p] = <<>>]
        /\ UNCHANGED <<device, peers, inbox, tasks, watchers, slots, call, calls>>
    BY DEF DropQueuedMessage, serverVars
  <1>3. /\ call = [q \in Peers |-> call[q]] /\ pipe = [q \in Peers |-> pipe[q]] /\ calls \in Nat
        /\ CallRecord(call[p]) /\ call[p].id \in 0 .. calls
    BY <1>1 DEF ConversationTypes
  <1>4. pipe'[p] = <<>> /\ pipe' = [q \in Peers |-> pipe'[q]] /\ \A q \in Peers \ {p} : pipe'[q] = pipe[q]
    BY <1>2, <1>3
  <1>5. ClientStep(p)
    <2>1. IsQueue(pipe'[p])
      BY <1>4, EmptyQueue
    <2>2. ~Waiting(p)'
      BY <1>2 DEF Waiting
    <2> QED
      BY <1>2, <1>3, <1>4, <2>1, <2>2 DEF ClientStep
  <1>6. ASSUME call'[p].clean PROVE CleanCall(p)'
    <2>1. CleanCall(p)
      BY <1>2, <1>6 DEF ConversationsInv
    <2>2. OwnNumber(p)'
      BY <1>1, <1>2, <1>5, <2>1, NumberIsKept DEF CleanCall
    <2>3. NothingLeft(p) => NothingLeft(p)'
      BY <1>2, <1>4, EmptyQueue DEF NothingLeft
    <2> QED
      BY <1>2, <2>1, <2>2, <2>3 DEF CleanCall, Waiting
  <1> QED
    BY <1>2, <1>5, <1>6, ClientKeepsCalls

(* A call that is owed an activity waits. *)
LEMMA RestWaits == ASSUME NEW d \in DOMAIN Rest PROVE Rest[d] # <<>>
  <1>1. d \in {"CelestialScanner", "AsteroidScanner", "ResourceContainer", "Shipyard", "Messanger",
               "AdministratorPanel"}
    BY DEF Rest
  <1> QED
    BY <1>1, CelestialScanFits, AsteroidScanFits, TransferFits, BuildFits, RequestFits, ProceedFits

(* A list that ends a call without its first message *)
EndsWith(next, messages, id) ==
    /\ next = <<>> => \A i \in 1 .. Len(messages) : messages[i].id # id
    /\ next # <<>> => Ends(next, messages, id)

(* A call that is told everything hears its next message. *)
LEMMA EndsLater ==
    ASSUME NEW script, NEW old, IsQueue(old), old # <<>>, NEW id, Ends(script, old, id),
           NEW new, new = Tail(old), NEW kind, kind = old[1].kind, NEW next, next = AfterHearing(script, kind)
    PROVE  old[1].id = id /\ EndsWith(next, new, id)
  <1>1. PICK n \in 1 .. Len(old) : /\ Follows(script, old, n, <<>>)
                                   /\ \A i \in 1 .. Len(old) : i <= n <=> old[i].id = id
    BY DEF Ends
  <1>2. /\ Len(old) \in Nat /\ Len(old) > 0 /\ Len(new) = Len(old) - 1
        /\ \A i \in 1 .. Len(old) - 1 : new[i] = old[i + 1]
    BY QueueFacts, QueueGives
  <1>3. old[1].id = id
    <2>1. 1 \in 1 .. Len(old) /\ 1 <= n
      BY <1>2
    <2> QED
      BY <1>1, <2>1
  <1>4. n \in Nat /\ n > 0 /\ \A i \in 1 .. n - 1 : i \in 1 .. Len(old) - 1
    BY <1>2
  <1>5. \A i \in 1 .. n - 1 : new[i].kind = old[i + 1].kind
    BY <1>2, <1>4
  <1>6. /\ Follows(next, new, n - 1, <<>>)
        /\ n = 1 => next = <<>>
        /\ n > 1 => next # <<>>
    <2>1. GoesOnWith(next, new, n, <<>>)
      BY <1>1, <1>4, <1>5, FollowsRest
    <2> QED
      BY <2>1 DEF GoesOnWith
  <1>7. \A i \in 1 .. Len(new) : i <= n - 1 <=> new[i].id = id
    <2>1. ASSUME NEW i \in 1 .. Len(new) PROVE i <= n - 1 <=> new[i].id = id
      <3>1. i \in 1 .. Len(old) - 1 /\ i + 1 \in 1 .. Len(old) /\ (i <= n - 1 <=> i + 1 <= n)
        BY <1>2
      <3>2. new[i] = old[i + 1]
        BY <1>2, <3>1
      <3> QED
        BY <1>1, <3>1, <3>2
    <2> QED
      BY <2>1
  <1>8. ASSUME next = <<>> PROVE \A i \in 1 .. Len(new) : new[i].id # id
    <2>1. n = 1
      BY <1>4, <1>6, <1>8
    <2>2. \A i \in 1 .. Len(new) : ~(i <= n - 1)
      BY <2>1
    <2> QED
      BY <1>7, <2>2
  <1>9. ASSUME next # <<>> PROVE Ends(next, new, id)
    <2>1. n # 1
      BY <1>6, <1>9
    <2>2. n - 1 \in 1 .. Len(new)
      BY <1>2, <1>4, <2>1
    <2> QED
      BY <1>6, <1>7, <2>2 DEF Ends
  <1> QED
    BY <1>3, <1>8, <1>9 DEF EndsWith

(* A call that only its own messages have reached hears the first one. *)
WaitsWith(next, messages, id, end) ==
    next # <<>> /\ AllOf(messages, id) /\ Follows(next, messages, Len(messages), end)

(* The messages of a list are those of a call, which understands all of them. *)
OwnSoFar(script, messages, id, end) ==
    end # <<>> /\ AllOf(messages, id) /\ Follows(script, messages, Len(messages), end)

(* Such a call hears one of its own messages and waits for more. *)
LEMMA OwnIsHeard ==
    ASSUME NEW script, NEW old, IsQueue(old), old # <<>>, NEW id, NEW end, OwnSoFar(script, old, id, end),
           NEW new, new = Tail(old), NEW kind, kind = old[1].kind, NEW next, next = AfterHearing(script, kind)
    PROVE  old[1].id = id /\ WaitsWith(next, new, id, end)
  <1> end # <<>> /\ AllOf(old, id) /\ Follows(script, old, Len(old), end)
    BY DEF OwnSoFar
  <1>1. /\ Len(old) \in Nat /\ Len(old) > 0 /\ Len(new) = Len(old) - 1
        /\ \A i \in 1 .. Len(old) - 1 : new[i] = old[i + 1]
    BY QueueFacts, QueueGives
  <1>2. old[1].id = id
    <2>1. 1 \in 1 .. Len(old)
      BY <1>1
    <2> QED
      BY <2>1 DEF AllOf
  <1>3. AllOf(new, id)
    <2>1. \A i \in 1 .. Len(new) : i \in 1 .. Len(old) - 1 /\ i + 1 \in 1 .. Len(old)
      BY <1>1
    <2> QED
      BY <1>1, <2>1 DEF AllOf
  <1>4. \A i \in 1 .. Len(old) - 1 : new[i].kind = old[i + 1].kind
    BY <1>1
  <1>5. PICK n : n = Len(old)
    OBVIOUS
  <1>6. n \in Nat /\ n > 0 /\ Follows(script, old, n, end) /\ \A i \in 1 .. n - 1 : new[i].kind = old[i + 1].kind
    BY <1>1, <1>4, <1>5
  <1>7. /\ Follows(next, new, n - 1, end)
        /\ n = 1 => next = end
        /\ n > 1 => next # <<>>
    <2>1. GoesOnWith(next, new, n, end)
      BY <1>6, FollowsRest
    <2> QED
      BY <2>1 DEF GoesOnWith
  <1>8. n = 1 \/ n > 1
    BY <1>6
  <1> QED
    BY <1>1, <1>2, <1>3, <1>5, <1>7, <1>8 DEF WaitsWith

(* What a step that hears a message does to the calls *)
Hearing(p, script) ==
    /\ Waiting(p) /\ pipe[p] # <<>>
    /\ call' = [call EXCEPT ![p] = Heard(@, Head(pipe[p]), script)]
    /\ pipe' = [pipe EXCEPT ![p] = Tail(@)]
    /\ UNCHANGED <<device, peers, tasks, watchers, slots, calls>>

(* What is left in the pipe and in the record when a message is heard *)
LEMMA HearingFacts ==
    ASSUME ConversationTypes, NEW p \in Peers, NEW script, Hearing(p, script)
    PROVE  /\ ClientStep(p) /\ Head(pipe[p]) = pipe[p][1] /\ IsQueue(pipe[p]) /\ Len(pipe[p]) > 0
           /\ pipe'[p] = Tail(pipe[p]) /\ Len(pipe[p]) \in Nat
           /\ Len(pipe'[p]) = Len(pipe[p]) - 1 /\ \A i \in 1 .. Len(pipe'[p]) : pipe'[p][i] = pipe[p][i + 1]
           /\ call'[p].id = call[p].id /\ call'[p].name = call[p].name /\ call'[p].script = script
           /\ call'[p].clean = call[p].clean
           /\ ~call[p].mixed /\ pipe[p][1].id = call[p].id => ~call'[p].mixed
  <1>1. PICK c, m, d, old, new : c = call[p] /\ m = Head(pipe[p]) /\ d = Heard(c, m, script)
                                 /\ old = pipe[p] /\ new = Tail(old)
    OBVIOUS
  <1>2. IsQueue(old) /\ old # <<>> /\ CallRecord(c) /\ c.id \in 0 .. calls
    BY <1>1 DEF ConversationTypes, Hearing
  <1>3. /\ Len(old) > 0 /\ Len(old) \in Nat /\ Head(old) = old[1] /\ IsQueue(new) /\ Len(new) = Len(old) - 1
        /\ \A i \in 1 .. Len(old) - 1 : new[i] = old[i + 1]
    BY <1>1, <1>2, QueueGives, QueueFacts
  <1>4. /\ CallRecord(d) /\ d.script = script /\ d.name = c.name /\ d.id = c.id /\ d.clean = c.clean
        /\ ~c.mixed /\ m.id = c.id => ~d.mixed
    BY <1>1, <1>2, HeardFacts
  <1>5. call = [q \in Peers |-> call[q]] /\ pipe = [q \in Peers |-> pipe[q]] /\ calls \in Nat
    BY DEF ConversationTypes
  <1>6. call' = [call EXCEPT ![p] = d] /\ pipe' = [pipe EXCEPT ![p] = new]
    BY <1>1, Zenon DEF Hearing
  <1>7. /\ call'[p] = d /\ call' = [q \in Peers |-> call'[q]] /\ \A q \in Peers \ {p} : call'[q] = call[q]
        /\ pipe'[p] = new /\ pipe' = [q \in Peers |-> pipe'[q]] /\ \A q \in Peers \ {p} : pipe'[q] = pipe[q]
    BY <1>5, <1>6
  <1>8. ClientStep(p)
    <2>1. p \in peers /\ c.id # 0
      BY <1>1 DEF ConversationTypes, PeersWait, Hearing
    <2>2. calls' \in Nat /\ calls <= calls' /\ UNCHANGED <<device, peers, tasks, watchers, slots, calls>>
      BY <1>5 DEF Hearing
    <2>3. IsQueue(pipe'[p]) /\ CallRecord(call'[p]) /\ call'[p].id \in 0 .. calls' /\ call'[p].id # 0
      BY <1>2, <1>3, <1>4, <1>7, <2>1, <2>2
    <2>4. call'[p].id = call[p].id
      BY <1>1, <1>4, <1>7
    <2> QED
      BY <1>7, <2>1, <2>2, <2>3, <2>4 DEF ClientStep
  <1>9. \A i \in 1 .. Len(new) : new[i] = old[i + 1]
    BY <1>3
  <1> QED
    BY <1>1, <1>2, <1>3, <1>4, <1>7, <1>8, <1>9

(* A message is heard: the call ends or waits on. *)
LEMMA HearKeepsCalls ==
    ASSUME ConversationsInv, NEW p \in Peers, Hear(p) PROVE ConversationsInv'
  <1>1. ConversationTypes
    BY DEF ConversationsInv
  <1>2. PICK next : next = AfterHearing(call[p].script, Head(pipe[p]).kind)
    OBVIOUS
  <1>3. Hearing(p, next) /\ inbox' = inbox /\ ~(ListsModules(p) /\ Head(pipe[p]).kind = "total_slots")
    <2>1. call' = [call EXCEPT ![p] = Heard(@, Head(pipe[p]), next)]
      <3>1. PICK c : c = call[p]
        OBVIOUS
      <3>2. call' = [call EXCEPT ![p] = Heard(c, Head(pipe[p]), AfterHearing(c.script, Head(pipe[p]).kind))]
        BY <3>1, Zenon DEF Hear
      <3> QED
        BY <1>2, <3>1, <3>2, Zenon
    <2> QED
      BY <2>1, Zenon DEF Hear, Hearing, ListsModules, serverVars
  <1>4. /\ ClientStep(p) /\ Head(pipe[p]) = pipe[p][1] /\ IsQueue(pipe[p]) /\ Len(pipe[p]) > 0
        /\ pipe'[p] = Tail(pipe[p]) /\ Len(pipe[p]) \in Nat
        /\ Len(pipe'[p]) = Len(pipe[p]) - 1 /\ \A i \in 1 .. Len(pipe'[p]) : pipe'[p][i] = pipe[p][i + 1]
        /\ call'[p].id = call[p].id /\ call'[p].name = call[p].name /\ call'[p].script = next
        /\ call'[p].clean = call[p].clean
        /\ ~call[p].mixed /\ pipe[p][1].id = call[p].id => ~call'[p].mixed
    BY <1>1, <1>3, HearingFacts
  <1>5. UNCHANGED <<device, peers, inbox, tasks, watchers, slots, calls>> /\ Waiting(p) /\ pipe[p] # <<>>
    BY <1>3 DEF Hearing
  <1>6. ASSUME call'[p].clean PROVE CleanCall(p)'
    <2>1. CleanCall(p) /\ StageOf(p) /\ ~call[p].mixed
      BY <1>4, <1>5, <1>6 DEF ConversationsInv, CleanCall
    <2>2. OwnNumber(p)'
      BY <1>1, <1>3, <1>4, <2>1, NumberIsKept DEF CleanCall
    <2>3. PICK old, new, id, kind, script, rest :
              /\ old = pipe[p] /\ new = pipe'[p] /\ id = call[p].id /\ kind = Head(pipe[p]).kind
              /\ script = call[p].script /\ rest = Rest[device]
      OBVIOUS
    <2>4. /\ IsQueue(old) /\ old # <<>> /\ new = Tail(old)
          /\ kind = old[1].kind /\ next = AfterHearing(script, kind)
      BY <1>2, <1>4, <1>5, <2>3
    <2>5. /\ OnlyInfos(p) => OnlyInfos(p)'
          /\ NoRequest(p)' = NoRequest(p) /\ TasksOf(p)' = TasksOf(p) /\ Quiet(p)' = Quiet(p)
          /\ ListsModules(p)' = ListsModules(p) /\ MayWaitInVain(p)' = MayWaitInVain(p)
      <3>1. \A i \in 1 .. Len(pipe'[p]) : i + 1 \in 1 .. Len(pipe[p])
        BY <1>4
      <3>2. OnlyInfos(p) => OnlyInfos(p)'
        BY <1>4, <3>1 DEF OnlyInfos, ListsModules
      <3> QED
        BY <1>4, <1>5, <3>2 DEF NoRequest, TasksOf, Quiet, ListsModules, MayWaitInVain
    <2>6. CASE Served(p)
      <3>1. /\ device \in DOMAIN Rest /\ rest # <<>> /\ AllOf(old, id)
            /\ Follows(script, old, Len(old), rest)
        BY <2>3, <2>6, RestWaits DEF Served
      <3>2. /\ old[1].id = id /\ next # <<>> /\ AllOf(new, id)
            /\ Follows(next, new, Len(new), rest)
        <4>1. old[1].id = id /\ WaitsWith(next, new, id, rest)
          <5>1. OwnSoFar(script, old, id, rest)
            BY <3>1 DEF OwnSoFar
          <5> QED
            BY <2>4, <5>1, OwnIsHeard
        <4> QED
          BY <4>1 DEF WaitsWith
      <3>3. Served(p)'
        BY <1>4, <1>5, <2>3, <2>5, <2>6, <3>2 DEF Served
      <3> QED
        BY <1>4, <1>5, <2>1, <2>2, <2>3, <3>2, <3>3 DEF CleanCall, StageOf, Waiting
    <2>7. CASE InVain(p)
      <3>1. PICK end : end # <<>> /\ Follows(script, old, Len(old), end)
        BY <2>3, <2>7 DEF InVain
      <3>2. AllOf(old, id)
        BY <2>3, <2>7 DEF InVain
      <3>3. /\ old[1].id = id /\ next # <<>> /\ AllOf(new, id)
            /\ Follows(next, new, Len(new), end)
        <4>1. old[1].id = id /\ WaitsWith(next, new, id, end)
          <5>1. OwnSoFar(script, old, id, end)
            BY <3>1, <3>2 DEF OwnSoFar
          <5> QED
            BY <2>4, <5>1, OwnIsHeard
        <4> QED
          BY <4>1 DEF WaitsWith
      <3>4. InVain(p)'
        BY <1>4, <2>3, <2>5, <2>7, <3>1, <3>3 DEF InVain
      <3> QED
        BY <1>4, <1>5, <2>1, <2>2, <2>3, <3>3, <3>4 DEF CleanCall, StageOf, Waiting
    <2>8. CASE Told(p)
      <3>1. Ends(script, old, id)
        BY <2>3, <2>8 DEF Told
      <3>2. /\ old[1].id = id
            /\ next = <<>> => \A i \in 1 .. Len(new) : new[i].id # id
            /\ next # <<>> => Ends(next, new, id)
        <4>1. old[1].id = id /\ EndsWith(next, new, id)
          BY <2>4, <3>1, EndsLater
        <4> QED
          BY <4>1 DEF EndsWith
      <3>3. ~call'[p].mixed
        BY <1>4, <2>1, <2>3, <3>2
      <3>4. CASE next # <<>>
        <4>1. Told(p)'
          BY <1>4, <2>3, <2>5, <2>8, <3>2, <3>4 DEF Told
        <4> QED
          BY <1>4, <1>5, <2>1, <2>2, <3>3, <3>4, <4>1 DEF CleanCall, StageOf, Waiting
      <3>5. CASE next = <<>>
        <4>1. \A i \in 1 .. Len(inbox) : inbox[i].id # call[p].id
          BY <2>1, <2>8 DEF Told, NoRequest, CleanCall, OwnNumber
        <4>2. \A t \in tasks : t.id # call[p].id
          BY <2>1, <2>8 DEF Told, TasksOf, CleanCall, OwnNumber
        <4>3. NothingLeft(p)'
          BY <1>4, <1>5, <2>3, <3>2, <3>5, <4>1, <4>2 DEF NothingLeft
        <4> QED
          BY <1>4, <1>5, <2>1, <2>2, <3>3, <3>5, <4>3 DEF CleanCall, Waiting
      <3> QED
        BY <3>4, <3>5
    <2>9. ~Asked(p) /\ ~Counted(p)
      BY <1>3, <1>4, <1>5 DEF Asked, Counted
    <2> QED
      BY <2>1, <2>6, <2>7, <2>8, <2>9 DEF StageOf
  <1> QED
    BY <1>4, <1>5, <1>6, ClientKeepsCalls

(* The number of slots is heard: the call asks for the modules. *)
LEMMA HearTotalSlotsKeepsCalls ==
    ASSUME ConversationsInv, NEW p \in Peers, HearTotalSlots(p) PROVE ConversationsInv'
  <1>1. ConversationTypes
    BY DEF ConversationsInv
  <1>2. PICK next : next = ExpectInfos(Head(pipe[p]).total)
    OBVIOUS
  <1>3. PICK r : r = [peer |-> p, id |-> call[p].id, name |-> "allModulesInfo"]
    OBVIOUS
  <1>4. Hearing(p, next) /\ inbox' = Append(inbox, r) /\ ListsModules(p) /\ Head(pipe[p]).kind = "total_slots"
    BY <1>2, <1>3, Zenon DEF HearTotalSlots, Hearing, ListsModules
  <1>5. /\ ClientStep(p) /\ Head(pipe[p]) = pipe[p][1] /\ IsQueue(pipe[p]) /\ Len(pipe[p]) > 0
        /\ pipe'[p] = Tail(pipe[p]) /\ Len(pipe[p]) \in Nat
        /\ Len(pipe'[p]) = Len(pipe[p]) - 1 /\ \A i \in 1 .. Len(pipe'[p]) : pipe'[p][i] = pipe[p][i + 1]
        /\ call'[p].id = call[p].id /\ call'[p].name = call[p].name /\ call'[p].script = next
        /\ call'[p].clean = call[p].clean
        /\ ~call[p].mixed /\ pipe[p][1].id = call[p].id => ~call'[p].mixed
    BY <1>1, <1>4, HearingFacts
  <1>6. UNCHANGED <<device, peers, tasks, watchers, slots, calls>> /\ Waiting(p) /\ pipe[p] # <<>>
    BY <1>4 DEF Hearing
  <1>7. Requests(p, r) /\ r.peer = p /\ r.id = call[p].id /\ r.name = "allModulesInfo"
    <2>1. p \in peers /\ call[p].id # 0
      BY <1>1, <1>6 DEF ConversationTypes, PeersWait
    <2> QED
      BY <1>3, <1>4, <1>5, <2>1 DEF Requests
  <1>8. ASSUME call'[p].clean PROVE CleanCall(p)'
    <2>1. CleanCall(p) /\ StageOf(p) /\ ~call[p].mixed
      BY <1>5, <1>6, <1>8 DEF ConversationsInv, CleanCall
    <2>2. OwnNumber(p)'
      BY <1>1, <1>5, <1>7, <2>1, NumberIsKept DEF CleanCall
    <2>3. Counted(p)
      <3>1. 1 \in 1 .. Len(pipe[p]) /\ pipe[p][1].kind = "total_slots"
        BY <1>4, <1>5
      <3>2. ~Asked(p) /\ ~Served(p)
        BY <1>4, <1>6 DEF Asked, Served
      <3>3. ~InVain(p)
        BY <1>4, <3>1 DEF InVain, AllOf, OnlyInfos
      <3>4. ~Told(p)
        <4>1. ASSUME Told(p) PROVE FALSE
          <5>1. PICK n \in 1 .. Len(pipe[p]) :
                    \A i \in 1 .. Len(pipe[p]) : i <= n <=> pipe[p][i].id = call[p].id
            BY <4>1 DEF Told, Ends
          <5>2. 1 <= n
            BY <1>5
          <5>3. pipe[p][1].id = call[p].id
            BY <3>1, <5>1, <5>2
          <5> QED
            BY <1>4, <3>1, <4>1, <5>3 DEF Told, OnlyInfos
        <4> QED
          BY <4>1
      <3> QED
        BY <2>1, <3>2, <3>3, <3>4 DEF StageOf
    <2>4. /\ pipe[p][1].id = call[p].id /\ Len(pipe[p]) = 1 /\ next = ExpectInfos(Len(slots))
          /\ Quiet(p) /\ NoRequest(p)
      BY <1>2, <1>5, <2>3 DEF Counted
    <2>5. next # <<>>
      <3>1. PICK n : n = Len(slots)
        OBVIOUS
      <3>2. n \in Nat /\ n > 0
        BY <1>1, <3>1, QueueFacts DEF ConversationTypes
      <3> QED
        BY <2>4, <3>1, <3>2, InfoIsUnderstood
    <2>6. pipe'[p] = <<>>
      <3>1. IsQueue(pipe'[p]) /\ Len(pipe'[p]) = 0
        BY <1>5, <2>4, EmptyQueue DEF ClientStep
      <3> QED
        BY <3>1 DEF IsQueue
    <2>7. OnlyRequest(p, "allModulesInfo")'
      <3>1. OnlyRequest(p, r.name)'
        <4>1. /\ IsQueue(inbox) /\ inbox' = Append(inbox, r)
              /\ r.peer = p /\ NoRequest(p) /\ call'[p].id = r.id
          BY <1>1, <1>4, <1>5, <1>7, <2>4 DEF ConversationTypes
        <4> QED
          BY <4>1, RequestIsMade
      <3> QED
        BY <1>7, <3>1
    <2>8. Asked(p)'
      BY <1>4, <1>5, <1>6, <2>4, <2>6, <2>7 DEF Asked, Quiet, TasksOf, ListsModules
    <2> QED
      BY <1>5, <1>6, <2>1, <2>2, <2>4, <2>5, <2>8 DEF CleanCall, StageOf, Waiting
  <1> QED
    BY <1>5, <1>7, <1>8, ClientKeepsCalls

-----------------------------------------------------------------------------
(* Conversations: the theorem *)

(* At the start no call has been made. *)
LEMMA ConversationsStart == ConversationsInit => ConversationsInv
  <1> SUFFICES ASSUME ConversationsInit PROVE ConversationsInv
    OBVIOUS
  <1>1. IsQueue(inbox) /\ IsQueue(slots) /\ Len(slots) = 1 /\ slots[1] = TRUE /\ Len(inbox) = 0
    BY EmptyQueue, SomeKinds DEF ConversationsInit
  <1>2. ASSUME NEW p \in Peers PROVE pipe[p] = <<>> /\ call[p] = NoCall
    BY DEF ConversationsInit
  <1>3. ConversationTypes
    <2>1. /\ device \in DOMAIN Calls /\ peers \subseteq Peers /\ calls \in Nat /\ calls = 0
          /\ tasks = {} /\ watchers = {}
          /\ pipe = [p \in Peers |-> pipe[p]] /\ call = [p \in Peers |-> call[p]]
      BY DEF ConversationsInit
    <2>2. Len(slots) > 0 /\ \A i \in 1 .. Len(slots) : slots[i] \in BOOLEAN
      <3>1. \A i \in 1 .. Len(slots) : i = 1
        BY <1>1
      <3>2. slots[1] \in BOOLEAN
        BY <1>1
      <3> QED
        BY <1>1, <3>1, <3>2
    <2>3. ASSUME NEW p \in Peers PROVE IsQueue(pipe[p]) /\ CallRecord(call[p]) /\ call[p].id \in 0 .. calls
      BY <1>2, <2>1, EmptyQueue, NoCallFacts
    <2>4. PeersWait
      BY <1>2, NoCallFacts DEF PeersWait, Waiting
    <2>5. \A i \in 1 .. Len(inbox) : inbox[i].peer \in peers /\ inbox[i].id \in 1 .. calls
      BY <1>1
    <2>6. tasks \subseteq [peer : peers, id : 0 .. calls, over : BOOLEAN] /\ watchers \subseteq peers
          /\ \A t, u \in tasks : t = u
      BY <2>1
    <2> QED
      BY <1>1, <2>1, <2>2, <2>3, <2>4, <2>5, <2>6, Zenon DEF ConversationTypes
  <1>4. \A p \in Peers : ~call[p].clean
    BY <1>2, NoCallFacts
  <1> QED
    BY <1>3, <1>4 DEF ConversationsInv

(* Every step keeps the calls in order. *)
LEMMA ConversationsStep == ConversationsInv /\ [ConversationsNext]_conversationVars => ConversationsInv'
  <1> SUFFICES ASSUME ConversationsInv, [ConversationsNext]_conversationVars PROVE ConversationsInv'
    OBVIOUS
  <1>1. ConversationTypes
    BY DEF ConversationsInv
  <1>2. ASSUME NEW p \in Peers,
               \/ \E name \in DOMAIN Calls[device] : StartCall(p, name)
               \/ device \in DOMAIN Waits /\ \E name \in DOMAIN Waits[device] : StartWaiting(p, name)
               \/ Hear(p) \/ HearTotalSlots(p) \/ Timeout(p) \/ DropQueuedMessage(p)
        PROVE  ConversationsInv'
    BY <1>2, StartCallKeepsCalls, StartWaitingKeepsCalls, HearKeepsCalls, HearTotalSlotsKeepsCalls,
       TimeoutKeepsCalls, DropQueuedMessageKeepsCalls
  <1>3. CASE Serve
    <2>1. PICK r : r = Head(inbox)
      OBVIOUS
    <2>2. Taking(r) /\ ((Handle(r) /\ call' = call) \/ Terminate(r))
      BY <1>3, <2>1 DEF Serve, Taking
    <2>3. CASE Handle(r) /\ call' = call
      <3>1. Handling(r) /\ slots' = slots
        BY <2>2, <2>3 DEF Handling, Taking
      <3> QED
        BY <1>1, <2>3, <3>1, HandleGoesOn, ServerKeepsCalls
    <2>4. CASE Terminate(r)
      BY <2>2, <2>4, TerminateKeepsCalls
    <2> QED
      BY <2>2, <2>3, <2>4
  <1>4. ASSUME NEW t \in tasks, Report(t) \/ Finish(t) \/ TicksAreOver(t) PROVE ConversationsInv'
    <2>1. call' = call /\ slots' = slots
      BY <1>4 DEF Report, Finish, TicksAreOver, serverVars
    <2>2. CallsGoOn
      BY <1>1, <1>4, ReportGoesOn, FinishGoesOn, TicksAreOverGoesOn
    <2> QED
      BY <2>1, <2>2, ServerKeepsCalls
  <1>5. CASE Update
    <2>1. call' = call /\ slots' = slots
      BY <1>5 DEF Update, serverVars
    <2> QED
      BY <1>1, <1>5, <2>1, UpdateGoesOn, ServerKeepsCalls
  <1>6. CASE ChangeSlots
    BY <1>6, ChangeSlotsKeepsCalls
  <1>9. ASSUME NEW t \in tasks, BuildIsFrozen(t) PROVE ConversationsInv'
    BY <1>9, BuildIsFrozenKeepsCalls
  <1>7. CASE UNCHANGED conversationVars
    BY <1>7 DEF conversationVars, ConversationsInv, ConversationTypes, PeersWait, CleanCall, OwnNumber,
                StageOf, Asked, Counted, Served, Told, InVain, NothingLeft, Quiet, TasksOf, NoRequest,
                OnlyRequest, ListsModules, OnlyInfos, MayWaitInVain, Waiting
  <1>8. ConversationsNext \/ UNCHANGED conversationVars
    OBVIOUS
  <1> QED
    BY <1>2, <1>3, <1>4, <1>5, <1>6, <1>7, <1>8, <1>9 DEF ConversationsNext

(* What the invariant says of clean calls *)
LEMMA CleanCallsAreInOrder == ConversationsInv => CleanCallIsWhole /\ NobodyWaitsInVain
  <1> SUFFICES ASSUME ConversationsInv PROVE CleanCallIsWhole /\ NobodyWaitsInVain
    OBVIOUS
  <1>1. \A p \in Peers : call[p].clean => CleanCall(p)
    BY DEF ConversationsInv
  <1>2. CleanCallIsWhole
    BY <1>1 DEF CleanCallIsWhole, CleanCall, NothingLeft
  <1>3. ASSUME NEW p \in Peers, Waiting(p), call[p].clean, pipe[p] = <<>>, ~MayWaitInVain(p)
        PROVE  \/ \E i \in 1 .. Len(inbox) : inbox[i].id = call[p].id
               \/ \E t \in tasks : t.id = call[p].id
    <2>1. StageOf(p) /\ ~InVain(p)
      BY <1>1, <1>3 DEF CleanCall, InVain
    <2>2. Len(pipe[p]) = 0
      BY <1>3, EmptyQueue
    <2>3. ~Counted(p) /\ ~Told(p)
      BY <2>2 DEF Counted, Told, Ends
    <2>4. Asked(p) => \E i \in 1 .. Len(inbox) : inbox[i].id = call[p].id
      BY DEF Asked, OnlyRequest
    <2>5. Served(p) => \E t \in tasks : t.id = call[p].id
      BY DEF Served, TasksOf
    <2> QED
      BY <2>1, <2>3, <2>4, <2>5 DEF StageOf
  <1>4. NobodyWaitsInVain
    BY <1>3 DEF NobodyWaitsInVain
  <1> QED
    BY <1>2, <1>4

(* A call that finds its session clean and is not disturbed hears its own
   messages only and, when it returns without a timeout, leaves none of them;
   while it waits with an empty pipe it is owed something, but for the calls
   that may wait in vain. *)
THEOREM CallsStayClean == ConversationsSpec => [](CleanCallIsWhole /\ NobodyWaitsInVain)
  <1>1. ConversationsInit => ConversationsInv
    BY ConversationsStart
  <1>2. ConversationsInv /\ [ConversationsNext]_conversationVars => ConversationsInv'
    BY ConversationsStep
  <1>3. ConversationsInv => CleanCallIsWhole /\ NobodyWaitsInVain
    BY CleanCallsAreInOrder
  <1> QED
    BY <1>1, <1>2, <1>3, PTL DEF ConversationsSpec

-----------------------------------------------------------------------------
(* What the run of MCWorld checks on its instance holds of every instance: cells, scans
   and screens are exact, the passive scanner overlooks nobody, and the calls of clients
   stay clean, in whatever order the parts of the server take their steps. *)
THEOREM ObservationStaysExact ==
    ObservationSpec => /\ []CellsAreExact /\ ScansAreExact /\ []ScreenIsExact /\ []NobodyIsOverlooked
                       /\ [](CleanCallIsWhole /\ NobodyWaitsInVain)
  <1>1. ObservationInit => ScannersInit /\ WorldInit /\ ScreenInit /\ PassiveInit /\ ConversationsInit
    BY DEF ObservationInit, ObserverInit, ScannersInit
  <1>2. [ScannersNext]_scannersVars => [WorldNext]_worldVars
    BY DEF ScannersNext, scannersVars, ScanRequest, BusyRequest, CloseCaller, ScanGoesOn, CelestialScanEnds, AsteroidScanEnds
  <1>3. [ObservationNext]_allVars
          => /\ [ScannersNext]_scannersVars /\ [ScreenNext]_screenVars /\ [PassiveNext]_passiveVars
             /\ [ConversationsNext]_conversationVars
    BY DEF ObservationNext, allVars
  <1>4. ObservationSpec => ScannersSpec
    BY <1>1, <1>3, PTL DEF ObservationSpec, ScannersSpec
  <1>5. ObservationSpec => WorldSpec
    BY <1>1, <1>2, <1>3, PTL DEF ObservationSpec, WorldSpec
  <1>6. ObservationSpec => ScreenSpec
    BY <1>1, <1>3, PTL DEF ObservationSpec, ScreenSpec
  <1>7. ObservationSpec => PassiveSpec
    BY <1>1, <1>3, PTL DEF ObservationSpec, PassiveSpec
  <1>8. ObservationSpec => ConversationsSpec
    BY <1>1, <1>3, PTL DEF ObservationSpec, ConversationsSpec
  <1> QED
    BY <1>4, <1>5, <1>6, <1>7, <1>8, CellsStayExact, ScansStayExact, ScreenStaysExact,
       NobodyIsEverOverlooked, CallsStayClean, PTL
=============================================================================
