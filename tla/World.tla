------------------------------- MODULE World -------------------------------
(***************************************************************************)
(* Where physical objects are: NewtonEngine moves them, in several threads *)
(* and each object by one of them, and keeps every object in the cell of   *)
(* the Grid it is in.  Other stages find objects through the cells only.   *)
(*                                                                         *)
(* Coordinates are doubles; the model has `Unit` positions to a metre.     *)
(* The forces and velocities are abstracted to an arbitrary movement.      *)
(***************************************************************************)
EXTENDS Integers, FiniteSets, FiniteSetsExt

CONSTANTS
    Objects,      \* the objects that exist, or will be spawned
    Movers,       \* the objects that are not at rest
    GridWidth,    \* m_width: cells in a row
    CellWidth,    \* m_cellWidth, in positions
    Unit,         \* positions per metre
    Speed,        \* how far an object moves in a cycle, in positions
    Margin        \* how far outside of the grid objects get, in positions

ASSUME WorldAssumption ==
    /\ GridWidth \in Nat \ {0} /\ Unit \in Nat \ {0} /\ Margin \in Nat
    /\ CellWidth \in Nat \ {0} /\ CellWidth \in {Unit * n : n \in 1..CellWidth}
    /\ (GridWidth * CellWidth) % 2 = 0

VARIABLES
    place,      \* PhysicalObject::m_position
    spawned,    \* objects registered in the GlobalContainer
    cell,       \* PhysicalObject::m_pCell
    members,    \* Cell::m_objectsIds
    leaving,    \* the cell that a thread in track() has still to lock
    toMove,     \* objects that no thread has fetched in this cycle
    stage,      \* "newton", or "modules": the rest of the cycle
    displaced   \* objects spawned or moved by an administrator since the newton stage

worldVars == <<place, spawned, cell, members, leaving, toMove, stage, displaced>>

NoCell == -1
Abs(n) == IF n < 0 THEN -n ELSE n
Cells == 0..(GridWidth * GridWidth - 1)
HalfSize == (GridWidth * CellWidth) \div 2
Coordinates == (-HalfSize - Margin)..(HalfSize + Margin - 1)
Places == [x : Coordinates, y : Coordinates]
Reachable(o) ==
    {p \in Places : LET reach == IF o \in Movers THEN Speed ELSE 0
                    IN  Abs(p.x - place[o].x) <= reach /\ Abs(p.y - place[o].y) <= reach}
(* Where administrators move objects to: into the grid and out of it *)
Destinations == {[x |-> 0, y |-> 0], [x |-> HalfSize, y |-> 0]} \cap Places

(* Grid::contains, and the index of the cell with a position in the grid *)
InGrid(x, y) == x \in -HalfSize..(HalfSize - 1) /\ y \in -HalfSize..(HalfSize - 1)

IndexOf(x, y) == ((y + HalfSize) \div CellWidth) * GridWidth + (x + HalfSize) \div CellWidth
GetCell(p) == IF InGrid(p.x, p.y) THEN IndexOf(p.x, p.y) ELSE NoCell

(* Cell::contains, with the left bottom corner that Grid::build gives a cell *)
CellContains(c, p) ==
    LET left == -HalfSize + (c % GridWidth) * CellWidth
        bottom == -HalfSize + (c \div GridWidth) * CellWidth
    IN  p.x \in left..(left + CellWidth - 1) /\ p.y \in bottom..(bottom + CellWidth - 1)

(* Grid::iterator: the cells it passes, row by row, from the first one of a
   rectangle of so many cells to its last *)
CellsFrom(first, width, height) ==
    {first + j * GridWidth + i : i \in 0..(width - 1), j \in 0..(height - 1)}

(* mutant: the far edge of the area is not included *)
RangeNoFarEdge(x, y, size) ==
    LET end(v) == Min({v + size, HalfSize - Unit})
        begin(v) == Max({v, -HalfSize})
        width(a, b) == (b + HalfSize) \div CellWidth - (a + HalfSize) \div CellWidth
    IN  IF \/ x >= HalfSize \/ x + size <= -HalfSize
           \/ y >= HalfSize \/ y + size <= -HalfSize
        THEN {}
        ELSE CellsFrom(IndexOf(begin(x), begin(y)), width(begin(x), end(x)), width(begin(y), end(y)))

(* Grid::range: the corners of the area are
   clamped to the grid, the far one to a metre less than its edge *)
RangeOf(x, y, size) ==
    LET end(v) == Min({v + size, HalfSize - Unit})
        begin(v) == Max({v, -HalfSize})
        first == IndexOf(begin(x), begin(y))
        last == IndexOf(end(x), end(y))
        width == (last % GridWidth) - (first % GridWidth) + 1
        height == (last \div GridWidth) - (first \div GridWidth) + 1
    IN  IF \/ x >= HalfSize \/ x + size <= -HalfSize
           \/ y >= HalfSize \/ y + size <= -HalfSize
        THEN {}
        ELSE CellsFrom(first, width, height)

-----------------------------------------------------------------------------
WorldInit ==
    /\ place \in [Objects -> Places]
    /\ spawned \in SUBSET Objects
    /\ cell = [o \in Objects |-> NoCell]
    /\ members = [c \in Cells |-> {}]
    /\ leaving = [o \in Objects |-> NoCell]
    /\ toMove = spawned
    /\ stage = "newton"
    /\ displaced = {}

(* The object moves; its new cell, if it has another one, gets it: the first
   critical section of Cell::track, or Grid::add.  A cell that it leaves has
   still to be locked. *)
MoveObject(o, p) ==
    /\ stage = "newton"
    /\ o \in toMove
    /\ toMove' = toMove \ {o}
    /\ place' = [place EXCEPT ![o] = p]
    /\ LET stays == cell[o] # NoCell /\ CellContains(cell[o], p)
           new == IF stays THEN cell[o] ELSE GetCell(p)
       IN  /\ cell' = [cell EXCEPT ![o] = new]
           /\ members' = IF stays \/ new = NoCell THEN members
                         ELSE [members EXCEPT ![new] = @ \cup {o}]
           /\ leaving' = [leaving EXCEPT ![o] = IF stays THEN NoCell ELSE cell[o]]
    /\ UNCHANGED <<spawned, stage, displaced>>

(* mutant: the old cell keeps an object that has left the grid *)
LeaveCellUnlessOutside(o) ==
    /\ leaving[o] # NoCell
    /\ members' = IF cell[o] = NoCell THEN members
                  ELSE [members EXCEPT ![leaving[o]] = @ \ {o}]
    /\ leaving' = [leaving EXCEPT ![o] = NoCell]
    /\ UNCHANGED <<place, spawned, cell, toMove, stage, displaced>>

(* The second critical section of track() *)
LeaveCell(o) ==
    /\ leaving[o] # NoCell
    /\ members' = [members EXCEPT ![leaving[o]] = @ \ {o}]
    /\ leaving' = [leaving EXCEPT ![o] = NoCell]
    /\ UNCHANGED <<place, spawned, cell, toMove, stage, displaced>>

EndNewton ==
    /\ stage = "newton"
    /\ toMove = {}
    /\ \A o \in Objects : leaving[o] = NoCell
    /\ stage' = "modules"
    /\ displaced' = {}
    /\ UNCHANGED <<place, spawned, cell, members, leaving, toMove>>

StartNewton ==
    /\ stage = "modules"
    /\ stage' = "newton"
    /\ toMove' = spawned
    /\ UNCHANGED <<place, spawned, cell, members, leaving, displaced>>

(* Objects that spawn (SpawnLogic, Shipyard) get into the grid in the next
   cycle, and BasicManipulator::moveObject leaves an object in its old cell. *)
SpawnObject(o) ==
    /\ stage = "modules"
    /\ o \notin spawned
    /\ spawned' = spawned \cup {o}
    /\ displaced' = displaced \cup {o}
    /\ UNCHANGED <<place, cell, members, leaving, toMove, stage>>

MoveByAdministrator(o, p) ==
    /\ stage = "modules"
    /\ o \in spawned
    /\ place' = [place EXCEPT ![o] = p]
    /\ displaced' = displaced \cup {o}
    /\ UNCHANGED <<spawned, cell, members, leaving, toMove, stage>>

WorldNext ==
    \/ \E o \in Objects : \E p \in Reachable(o) : MoveObject(o, p)
    \/ \E o \in Movers, p \in Destinations : MoveByAdministrator(o, p)
    \/ \E o \in Objects : LeaveCell(o) \/ SpawnObject(o)
    \/ EndNewton
    \/ StartNewton

WorldSpec == WorldInit /\ [][WorldNext]_worldVars

-----------------------------------------------------------------------------
(* Properties *)

(* An object is in the list of the cell that contains it and in no other, from
   the first cycle on that moves it and whatever way it leaves and enters the
   grid; a thread that moves it from cell to cell is the only exception, and
   then it is in both. *)
CellsAreExact ==
    \A o \in Objects :
        LET in == {c \in Cells : o \in members[c]}
        IN  /\ in = {cell[o], leaving[o]} \ {NoCell}
            /\ o \in spawned \ (toMove \cup displaced) =>
                  IF InGrid(place[o].x, place[o].y) THEN CellContains(cell[o], place[o])
                  ELSE cell[o] = NoCell
=============================================================================
