---------------------------- MODULE IdAllocator ----------------------------
(***************************************************************************)
(* What a pool of identifiers promises to its users (GlobalObject's        *)
(* instance ids, ResourceContainer's port ids, UdpDispatcher's UDP ports): *)
(* an id is held by at most one user, and the id given out is always the   *)
(* smallest free one, so that vectors indexed by ids stay dense.           *)
(***************************************************************************)
EXTENDS Integers

CONSTANTS First, Last   \* the ids the pool may give out: First..Last

VARIABLE held           \* the ids given out and not released yet

Ids == First .. Last

AInit == held = {}

(* Get the smallest id that nobody holds. *)
AGet(id) ==
    /\ id \in Ids \ held
    /\ \A other \in Ids \ held : id <= other
    /\ held' = held \cup {id}

AGetAny == \E id \in Ids : AGet(id)

(* A user gives an id back. *)
ARelease ==
    \E id \in held : held' = held \ {id}

ANext == AGetAny \/ ARelease

ASpec == AInit /\ [][ANext]_held
=============================================================================
