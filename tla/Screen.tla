------------------------------- MODULE Screen -------------------------------
(***************************************************************************)
(* administrator::Screen: an administrator moves a rectangle over the      *)
(* world and asks to show the objects of one type in it.  The request arms *)
(* a filter (tools::RectangeFilter), which all threads of the conveyor run *)
(* together in a stage of ObjectsFilteringManager; in the next cycle the   *)
(* screen sends what was filtered.                                         *)
(*                                                                         *)
(* A position of the rectangle is the set of objects that it touches, a    *)
(* type is the sequence of its objects in the container.                   *)
(***************************************************************************)
EXTENDS Integers, FiniteSets, SequencesExt, FiniteSetsExt

CONSTANTS
    Bodies,         \* physical objects
    TypesOfBodies,  \* sets of objects that a container may hold
    Viewports,      \* positions of the rectangle: the objects that it touches
    FilterThreads,
    BufferSize,     \* of a thread in PysicalObjectsFilter::proceed (64)
    Operators,      \* sessions of administrators
    NoOperator      \* gInvalidSessionId

ASSUME ScreenAssumption ==
    IsFiniteSet(Bodies) /\ TypesOfBodies \subseteq SUBSET Bodies

VARIABLES
    fstage,         \* "panel", "prephare" or "filter"
    m_rectangle,
    m_pObjectsContainer,
    armed,          \* m_eUpdatePolicy is eUpdateASAP
    m_nNextId,
    buffer,         \* of each thread
    quit,           \* threads that returned from proceed()
    m_filteredInstances,
    m_nSessionId,
    sent,           \* what the screen sends in this cycle
    wish,           \* history: who asked last, and for what, while no answer was sent
    shown           \* history: what the filter was to find when it ran for that request

screenVars == <<fstage, m_rectangle, m_pObjectsContainer, armed, m_nNextId, buffer,
                quit, m_filteredInstances, m_nSessionId, sent, wish, shown>>
foundVars == <<m_nNextId, buffer, quit, m_filteredInstances>>
filterVars == <<foundVars, wish, shown>>

Unsent == <<NoOperator, <<>>>>
NoWish == <<NoOperator, {}>>
NotRun == {}            \* otherwise "shown" is the set of the one thing to be found

ScreenInit ==
    /\ fstage = "panel"
    /\ m_rectangle = {} /\ m_pObjectsContainer = <<>>
    /\ armed = FALSE
    /\ m_nNextId = 1
    /\ buffer = [t \in FilterThreads |-> <<>>]
    /\ quit = {}
    /\ m_filteredInstances = <<>>
    /\ m_nSessionId = NoOperator
    /\ sent = Unsent
    /\ wish = NoWish
    /\ shown = NotRun

-----------------------------------------------------------------------------
(* Commands of administrators *)

MoveScreen(viewport) ==
    /\ fstage = "panel"
    /\ m_rectangle' = viewport
    /\ UNCHANGED <<fstage, m_pObjectsContainer, armed, filterVars, m_nSessionId, sent>>

(* show: whoever asked before and has no answer yet is forgotten *)
Show(s, type) ==
    /\ fstage = "panel"
    /\ m_pObjectsContainer' = SetToSeq(type)
    /\ armed' = TRUE
    /\ m_nSessionId' = s
    /\ wish' = <<s, type>> /\ shown' = NotRun
    /\ UNCHANGED <<fstage, m_rectangle, foundVars, sent>>

(* mutant: what an earlier request has found is sent while the filter is armed *)
HasAnswerStale == m_nSessionId # NoOperator
HasAnswer == m_nSessionId # NoOperator /\ ~armed

(* Screen::proceed: nothing is sent if nothing was found *)
SendScreen ==
    /\ fstage = "panel" /\ fstage' = "prephare"
    /\ \/ /\ HasAnswer
          /\ sent' = <<m_nSessionId, m_filteredInstances>>
          /\ m_nSessionId' = NoOperator
       \/ /\ ~HasAnswer
          /\ UNCHANGED <<sent, m_nSessionId>>
    /\ UNCHANGED <<m_rectangle, m_pObjectsContainer, armed, filterVars>>

(* history: the cycle goes on; a request that was answered is over *)
SentIsGone == sent' = Unsent
AskedIsOver ==
    IF sent = Unsent THEN UNCHANGED <<wish, shown>> ELSE wish' = NoWish /\ shown' = NotRun

-----------------------------------------------------------------------------
(* ObjectsFilteringManager *)

(* prephare: a filter that waits for its update is reset *)
PrephareFilter ==
    /\ fstage = "prephare" /\ armed
    /\ fstage' = "filter"
    /\ armed' = FALSE
    /\ m_nNextId' = 1
    /\ m_filteredInstances' = <<>>
    /\ buffer' = [t \in FilterThreads |-> <<>>]
    /\ quit' = {}
    /\ shown' = {m_rectangle \cap wish[2]} /\ UNCHANGED wish
    /\ SentIsGone
    /\ UNCHANGED <<m_rectangle, m_pObjectsContainer, m_nSessionId>>

SkipFilter ==
    /\ fstage = "prephare" /\ ~armed
    /\ fstage' = "panel"
    /\ SentIsGone /\ AskedIsOver
    /\ UNCHANGED <<m_rectangle, m_pObjectsContainer, armed, foundVars, m_nSessionId>>

(* A thread takes the next object and tests it; a full buffer is inserted
   into the result under the mutex *)
FilterNext(t) ==
    LET o == m_pObjectsContainer[m_nNextId]
        mine == IF o \in m_rectangle THEN Append(buffer[t], o) ELSE buffer[t]
        full == Len(mine) = BufferSize
    IN  /\ fstage = "filter" /\ t \notin quit
        /\ m_nNextId <= Len(m_pObjectsContainer)
        /\ m_nNextId' = m_nNextId + 1
        /\ buffer' = [buffer EXCEPT ![t] = IF full THEN <<>> ELSE mine]
        /\ m_filteredInstances' = IF full THEN m_filteredInstances \o mine ELSE m_filteredInstances
        /\ UNCHANGED <<fstage, m_rectangle, m_pObjectsContainer, armed, quit, m_nSessionId,
                       sent, wish, shown>>

(* mutant: only full buffers get into the result *)
FlushFull(t) == IF Len(buffer[t]) = BufferSize THEN buffer[t] ELSE <<>>
Flush(t) == buffer[t]

FilterEnds(t) ==
    /\ fstage = "filter" /\ t \notin quit
    /\ m_nNextId > Len(m_pObjectsContainer)
    /\ m_filteredInstances' = m_filteredInstances \o Flush(t)
    /\ buffer' = [buffer EXCEPT ![t] = <<>>]
    /\ quit' = quit \cup {t}
    /\ fstage' = IF quit' = FilterThreads THEN "panel" ELSE fstage
    /\ UNCHANGED <<m_rectangle, m_pObjectsContainer, armed, m_nNextId, m_nSessionId, sent,
                   wish, shown>>

ScreenNext ==
    \/ \E viewport \in Viewports : MoveScreen(viewport)
    \/ \E s \in Operators, type \in TypesOfBodies : Show(s, type)
    \/ SendScreen \/ PrephareFilter \/ SkipFilter
    \/ \E t \in FilterThreads : FilterNext(t) \/ FilterEnds(t)

ScreenSpec == ScreenInit /\ [][ScreenNext]_screenVars

-----------------------------------------------------------------------------
(* Properties *)

(* An answer goes to the administrator that asked last, in the cycle after a
   filter has run for that very request: nothing that was found for an earlier
   request, of whomever, is sent to who asks now, and nobody is answered twice.
   It has each object of the type asked for that was in the rectangle when the
   filter ran, and has it once, whichever threads tested the objects and
   inserted them. *)
ScreenIsExact ==
    sent # Unsent =>
        /\ sent[1] = wish[1]
        /\ IsInjective(sent[2])
        /\ shown = {Range(sent[2])}
=============================================================================
