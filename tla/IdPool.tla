------------------------------- MODULE IdPool -------------------------------
(***************************************************************************)
(* utils::SimpleIdPool (and ThreadSafeIdPool, which runs the same two      *)
(* operations under a mutex).  A high-water mark `next` plus a vector of   *)
(* released ids, kept sorted by descending value so that the smallest one  *)
(* is at the back.  `held` records the ids the users of the pool hold: the *)
(* pool itself does not know them, and relies on its users to release only *)
(* what they hold and to release it once.                                  *)
(***************************************************************************)
EXTENDS Integers, Sequences, Functions

CONSTANTS First,   \* m_nFirst
          Last     \* m_nLast

ASSUME PoolAssumption ==
    /\ First \in Int
    /\ Last \in Int
    /\ First <= Last

VARIABLES next,       \* m_nNext: every id from here on was never given out
          available,  \* m_avaliable
          held        \* the ids that users hold (not a variable of the pool)

vars == <<next, available, held>>

Ids == First .. Last

Init ==
    /\ next = First
    /\ available = <<>>
    /\ held = {}

(* mutant: the released id stays where push_back put it *)
DrawLastElementUnsorted(s, id) == Append(s, id)

(* drawLastElement: the element just pushed moves towards the front past every
   smaller one, and stops behind the first that is not smaller; the others, as
   the code assumes, are already sorted by descending value. *)
DrawLastElement(s, id) ==
    [i \in 1 .. Len(s) + 1 |->
        IF i <= Len(s) /\ s[i] >= id THEN s[i]
        ELSE IF i = 1 \/ s[i - 1] >= id THEN id
        ELSE s[i - 1]]

(* getNext: the last released id, or a new one, or (nobody gets anything)
   the invalid value when the pool is exhausted. *)
GetReleased ==
    /\ available # <<>>
    /\ held' = held \cup {available[Len(available)]}
    /\ available' = SubSeq(available, 1, Len(available) - 1)
    /\ UNCHANGED next

GetNew ==
    /\ available = <<>>
    /\ next <= Last
    /\ held' = held \cup {next}
    /\ next' = next + 1
    /\ UNCHANGED available

(* release(element), called by the user that holds it *)
Release(id) ==
    /\ held' = held \ {id}
    /\ \/ /\ id + 1 < next
          /\ available' = DrawLastElement(available, id)
          /\ UNCHANGED next
       \/ /\ id + 1 >= next
          /\ next' = next - 1
          /\ UNCHANGED available

Next ==
    \/ GetReleased
    \/ GetNew
    \/ \E id \in held : Release(id)

Spec == Init /\ [][Next]_vars

-----------------------------------------------------------------------------
(* Properties *)

TypeOK ==
    /\ next \in First .. Last + 1
    /\ available \in Seq(Ids)
    /\ held \subseteq Ids

(* The ids below the high-water mark are exactly those held by a user and
   those waiting in m_avaliable; no id is both, and none waits twice: release()
   and getNext() between them neither lose an id nor give one out twice. *)
Partition ==
    /\ held \cup Range(available) = First .. next - 1
    /\ held \cap Range(available) = {}
    /\ \A i, j \in DOMAIN available : i < j => available[j] < available[i]

(* SimpleIdPool implements the abstract allocator: getNext() always returns
   the smallest free id. *)
Allocator == INSTANCE IdAllocator
AllocatorSpec == Allocator!ASpec
=============================================================================
