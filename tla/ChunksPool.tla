----------------------------- MODULE ChunksPool -----------------------------
(***************************************************************************)
(* utils::ChunksPool as UdpSocket::send uses it: the body of a datagram is *)
(* copied into a chunk, which comes back when the asynchronous sending is  *)
(* over, in any order.  Chunks of three sizes lie in one arena; a chunk    *)
(* from the heap has an address outside of it.                             *)
(***************************************************************************)
EXTENDS Naturals, Sequences, Functions

CONSTANTS
    Counts,      \* <<small, medium, huge>>: number of chunks
    HeapBound    \* bound on the chunks from the heap in use

Kinds == 1..3                       \* small, medium, huge; a size is the kind that just fits
Arena(k) == IF k = 1 THEN Counts[1] ELSE IF k = 2 THEN Counts[1] + Counts[2]
            ELSE IF k = 3 THEN Counts[1] + Counts[2] + Counts[3] ELSE 0

ASSUME ChunksAssumption == Counts \in [Kinds -> Nat] /\ HeapBound \in Nat

VARIABLES
    free,    \* m_smallChunks, m_mediumChunks, m_hugeChunks
    sent     \* chunk -> the size it was asked for, for datagrams being sent

chunksVars == <<free, sent>>

(* the constructor: the arena is cut into chunks, numbered by their address *)
ChunksInit ==
    /\ free = [k \in Kinds |-> [i \in 1..Counts[k] |-> Arena(k - 1) + i]]
    /\ sent = <<>>

Top(s) == s[Len(s)]

(* get(): the smallest size that fits and has a chunk left, or the heap *)
GetChunk(size) ==
    LET fit == {k \in Kinds : size <= k /\ free[k] # <<>>}
        k   == CHOOSE x \in fit : \A y \in fit : x <= y
        heap == {p \in Arena(3) + 1 .. Arena(3) + HeapBound : p \notin DOMAIN sent}
    IN  \/ /\ fit # {}
           /\ sent' = [p \in DOMAIN sent \cup {Top(free[k])} |->
                          IF p = Top(free[k]) THEN size ELSE sent[p]]
           /\ free' = [free EXCEPT ![k] = SubSeq(@, 1, Len(@) - 1)]
        \/ /\ fit = {}
           /\ \E p \in heap :
                 sent' = [q \in DOMAIN sent \cup {p} |-> IF q = p THEN size ELSE sent[q]]
           /\ UNCHANGED free

(* release(): where the address lies tells the list *)
KindOf(p) == IF p <= Arena(1) THEN 1 ELSE IF p <= Arena(2) THEN 2
             ELSE IF p <= Arena(3) THEN 3 ELSE 0

ReleaseChunk(p) ==
    /\ sent' = [q \in DOMAIN sent \ {p} |-> sent[q]]
    /\ free' = IF KindOf(p) = 0 THEN free ELSE [free EXCEPT ![KindOf(p)] = Append(@, p)]

ChunksNext ==
    \/ \E size \in 1..4 : GetChunk(size)
    \/ \E p \in DOMAIN sent : ReleaseChunk(p)

ChunksSpec == ChunksInit /\ [][ChunksNext]_chunksVars

(* A chunk that is being sent is in no list and as large as was asked for;
   every other chunk of the arena is in the list of its size, once: nothing is
   overwritten while it is sent, and nothing is lost. *)
ChunksAreExact ==
    /\ \A p \in DOMAIN sent : /\ \A k \in Kinds : p \notin Range(free[k])
                              /\ \/ p > Arena(3)
                                 \/ \E k \in Kinds : sent[p] <= k /\ p > Arena(k - 1) /\ p <= Arena(k)
    /\ \A k \in Kinds : /\ IsInjective(free[k])
                        /\ Range(free[k]) = (Arena(k - 1) + 1 .. Arena(k)) \ DOMAIN sent
=============================================================================
