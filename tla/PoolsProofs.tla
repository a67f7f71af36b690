----------------------------- MODULE PoolsProofs -----------------------------
(***************************************************************************)
(* The pools that the threads share, for every range of ids and every size *)
(* of the lists.  SimpleIdPool neither loses an id nor gives one out twice *)
(* and implements IdAllocator: TypeOK and Partition together are           *)
(* inductive, for that the ids of m_avaliable are below the mark and       *)
(* sorted is what makes the last one the smallest free id.  The registry   *)
(* needs besides what is known of objects under construction.              *)
(***************************************************************************)
EXTENDS Registry, ChunksPool, WellFoundedInduction, FiniteSetTheorems, TLAPS


IdPoolInv == TypeOK /\ Partition

(* A set of natural numbers has a least element. *)
LEMMA LeastElement ==
    ASSUME NEW T, T \subseteq Nat, T # {}
    PROVE  \E x \in T : \A y \in T : x <= y
  <1> DEFINE R == OpToRel(<, Nat)
  <1>1. \A x, y \in Nat : y < x => <<y, x>> \in R
    BY DEF OpToRel
  <1>2. IsWellFoundedOn(R, Nat)
    BY NatLessThanWellFounded
  <1> HIDE DEF R
  <1>3. PICK x \in T : \A y \in T : <<y, x>> \notin R
    BY <1>2, WFMin
  <1>4. \A y \in T : ~(y < x)
    BY <1>1, <1>3
  <1> QED BY <1>3, <1>4

(* An element of a function is in its range, and the other way round. *)
LEMMA RangeElement ==
    ASSUME NEW f
    PROVE  /\ \A x \in DOMAIN f : f[x] \in Range(f)
           /\ \A y \in Range(f) : \E x \in DOMAIN f : f[x] = y
  BY DEF Range

(* drawLastElement, on a sorted vector that does not hold id: the result is a
   sorted vector with the same elements and id. *)
LEMMA DrawLastElementInserts ==
    ASSUME NEW s \in Seq(Int), NEW id \in Int,
           \A i, j \in DOMAIN s : i < j => s[j] < s[i],
           \A i \in DOMAIN s : s[i] # id
    PROVE  /\ DrawLastElement(s, id) \in Seq(Int)
           /\ Range(DrawLastElement(s, id)) = Range(s) \cup {id}
           /\ \A i, j \in DOMAIN DrawLastElement(s, id) :
                 i < j => DrawLastElement(s, id)[j] < DrawLastElement(s, id)[i]
  <1> DEFINE n == Len(s)
             t == DrawLastElement(s, id)
  <1>1. n \in Nat /\ DOMAIN s = 1 .. n /\ \A i \in 1 .. n : s[i] \in Int
    OBVIOUS
  <1>2. PICK m \in 1 .. n + 1 : /\ \A i \in 1 .. n : i < m => s[i] > id
                                /\ \A i \in 1 .. n : i >= m => s[i] < id
    <2> DEFINE T == {i \in 1 .. n + 1 : i = n + 1 \/ s[i] < id}
    <2>1. T \subseteq Nat /\ n + 1 \in T
      BY <1>1
    <2> HIDE DEF T
    <2>2. PICK m \in T : \A y \in T : m <= y
      BY <2>1, LeastElement
    <2> USE DEF T
    <2>3. \A i \in 1 .. n : i < m => s[i] > id
      BY <2>2, <1>1
    <2>4. ASSUME NEW i \in 1 .. n, i >= m PROVE s[i] < id
      <3>1. m \in 1 .. n /\ s[m] < id
        BY <1>1, <2>2, <2>4
      <3>2. i # m => s[i] < s[m]
        BY <1>1, <2>4, <3>1
      <3> QED
        BY <1>1, <3>1, <3>2
    <2> QED BY <2>2, <2>3, <2>4
  <1> HIDE DEF n
  <1>3. /\ DOMAIN t = 1 .. n + 1
        /\ \A i \in 1 .. n + 1 :
              t[i] = IF i <= n /\ s[i] >= id THEN s[i]
                     ELSE IF i = 1 \/ s[i - 1] >= id THEN id ELSE s[i - 1]
    BY <1>1 DEF DrawLastElement, n
  <1>4. t \in Seq(Int)
    <2>1. \A i \in 1 .. n + 1 : t[i] \in Int
      BY <1>1, <1>3
    <2> QED BY <1>1, <1>3, <2>1 DEF DrawLastElement, n
  <1> HIDE DEF t
  <1>5. \A i \in 1 .. n + 1 : t[i] = IF i < m THEN s[i] ELSE IF i = m THEN id ELSE s[i - 1]
    <2> TAKE i \in 1 .. n + 1
    <2>1. CASE i < m
      BY <1>1, <1>2, <1>3, <2>1
    <2>2. CASE i = m
      BY <1>1, <1>2, <1>3, <2>2
    <2>3. CASE i > m
      <3>1. i - 1 \in 1 .. n /\ s[i - 1] < id /\ i # 1
        BY <1>1, <1>2, <2>3
      <3>2. ~(i <= n /\ s[i] >= id)
        BY <1>1, <1>2, <2>3
      <3> QED BY <1>1, <1>3, <3>1, <3>2, <2>3
    <2> QED BY <2>1, <2>2, <2>3, <1>1
  <1>6. \A i, j \in 1 .. n + 1 : i < j => t[j] < t[i]
    <2> TAKE i, j \in 1 .. n + 1
    <2> HAVE i < j
    <2>1. CASE j < m
      BY <1>1, <1>5, <2>1
    <2>2. CASE j = m
      BY <1>1, <1>2, <1>5, <2>2
    <2>3. CASE j > m
      <3>1. t[j] = s[j - 1] /\ j - 1 \in 1 .. n /\ s[j - 1] < id
        BY <1>1, <1>2, <1>5, <2>3
      <3>2. CASE i < m
        BY <1>1, <1>2, <1>5, <3>1, <3>2
      <3>3. CASE i = m
        BY <1>1, <1>2, <1>5, <3>1, <3>3
      <3>4. CASE i > m
        <4>1. t[i] = s[i - 1] /\ i - 1 \in 1 .. n /\ i - 1 < j - 1
          BY <1>1, <1>5, <3>4
        <4> QED BY <3>1, <4>1, <1>1
      <3> QED BY <3>2, <3>3, <3>4, <1>1
    <2> QED BY <2>1, <2>2, <2>3, <1>1
  <1>7. \A x \in Range(s) : x \in Range(t)
    <2> TAKE x \in Range(s)
    <2>1. PICK i \in 1 .. n : s[i] = x
      BY <1>1, RangeElement
    <2>2. CASE i < m
      <3>1. i \in 1 .. n + 1 /\ t[i] = x
        BY <2>1, <2>2, <1>1, <1>5
      <3> QED BY <3>1, <1>3, RangeElement
    <2>3. CASE i >= m
      <3>1. i + 1 \in 1 .. n + 1 /\ t[i + 1] = x
        BY <2>1, <2>3, <1>1, <1>5
      <3> QED BY <3>1, <1>3, RangeElement
    <2> QED BY <2>2, <2>3, <1>1
  <1>8. id \in Range(t)
    <2>1. t[m] = id
      BY <1>1, <1>5
    <2> QED BY <2>1, <1>3, RangeElement
  <1>9. \A x \in Range(t) : x \in Range(s) \cup {id}
    <2> TAKE x \in Range(t)
    <2>0. \E i \in DOMAIN t : t[i] = x
      BY RangeElement
    <2>1. PICK i \in 1 .. n + 1 : t[i] = x
      BY <1>3, <2>0
    <2>2. CASE i < m
      <3>1. i \in 1 .. n /\ s[i] = x
        BY <2>1, <2>2, <1>1, <1>5
      <3> QED BY <3>1, <1>1, RangeElement
    <2>3. CASE i = m
      BY <2>1, <2>3, <1>1, <1>5
    <2>4. CASE i > m
      <3>1. i - 1 \in 1 .. n /\ s[i - 1] = x
        BY <2>1, <2>4, <1>1, <1>5
      <3> QED BY <3>1, <1>1, RangeElement
    <2> QED BY <2>2, <2>3, <2>4, <1>1
  <1> QED BY <1>3, <1>4, <1>6, <1>7, <1>8, <1>9 DEF t

(* The vector without its last element: what pop_back() leaves. *)
LEMMA PopBack ==
    ASSUME NEW s \in Seq(Int), s # <<>>,
           \A i, j \in DOMAIN s : i < j => s[j] < s[i]
    PROVE  LET t == SubSeq(s, 1, Len(s) - 1)
               x == s[Len(s)]
           IN  /\ Len(s) \in DOMAIN s
               /\ x \in Range(s)
               /\ \A y \in Range(s) : x <= y
               /\ t \in Seq(Int)
               /\ Range(t) = Range(s) \ {x}
               /\ \A i, j \in DOMAIN t : i < j => t[j] < t[i]
  <1> DEFINE n == Len(s)
             t == SubSeq(s, 1, n - 1)
             x == s[n]
  <1>1. n \in Nat /\ n >= 1 /\ DOMAIN s = 1 .. n /\ \A i \in 1 .. n : s[i] \in Int
    OBVIOUS
  <1>2. t \in Seq(Int) /\ DOMAIN t = 1 .. n - 1 /\ \A i \in 1 .. n - 1 : t[i] = s[i]
    BY <1>1
  <1> HIDE DEF n, t
  <1>3. x \in Range(s)
    BY <1>1, RangeElement
  <1>4. \A i \in 1 .. n : x <= s[i]
    BY <1>1
  <1>5. \A y \in Range(s) : x <= y
    <2> TAKE y \in Range(s)
    <2>1. \E i \in DOMAIN s : s[i] = y
      BY RangeElement
    <2> QED BY <2>1, <1>1, <1>4
  <1>6. \A y \in Range(t) : y \in Range(s) \ {x}
    <2> TAKE y \in Range(t)
    <2>1. \E i \in DOMAIN t : t[i] = y
      BY RangeElement
    <2>2. PICK i \in 1 .. n - 1 : t[i] = y
      BY <1>2, <2>1
    <2>3. i \in 1 .. n /\ s[i] = y /\ s[n] < s[i]
      BY <2>2, <1>1, <1>2
    <2>4. y # x
      BY <2>3, <1>1
    <2>5. y \in Range(s)
      BY <2>3, <1>1, RangeElement
    <2> QED BY <2>4, <2>5
  <1>7. \A y \in Range(s) \ {x} : y \in Range(t)
    <2> TAKE y \in Range(s) \ {x}
    <2>1. \E i \in DOMAIN s : s[i] = y
      BY RangeElement
    <2>2. PICK i \in 1 .. n : s[i] = y
      BY <1>1, <2>1
    <2>3. i \in 1 .. n - 1 /\ t[i] = y
      BY <2>2, <1>1, <1>2
    <2> QED BY <2>3, <1>2, RangeElement
  <1>8. Range(t) = Range(s) \ {x}
    BY <1>6, <1>7
  <1>9. \A i, j \in DOMAIN t : i < j => t[j] < t[i]
    BY <1>1, <1>2
  <1> QED BY <1>1, <1>2, <1>3, <1>5, <1>8, <1>9 DEF n, t

(* What the inductive invariant says of the vector, in the form the steps
   use: its elements are integers, below the mark, and nobody holds them. *)
LEMMA IdPoolFacts ==
    ASSUME IdPoolInv
    PROVE  /\ First \in Int /\ Last \in Int /\ next \in Int
           /\ available \in Seq(Int)
           /\ \A x \in Range(available) : x \in First .. next - 1
           /\ \A x \in held : x \in First .. next - 1
           /\ \A x \in First .. next - 1 : x \in held \/ x \in Range(available)
           /\ \A x \in held : x \notin Range(available)
           /\ \A i, j \in DOMAIN available : i < j => available[j] < available[i]
  <1>1. First \in Int /\ Last \in Int /\ next \in Int
    BY PoolAssumption DEF IdPoolInv, TypeOK
  <1>2. available \in Seq(Int)
    <2>1. available \in Seq(Ids) /\ Ids \subseteq Int
      BY <1>1 DEF IdPoolInv, TypeOK, Ids
    <2>2. \A i \in 1 .. Len(available) : available[i] \in Ids
      BY <2>1
    <2>3. \A i \in 1 .. Len(available) : available[i] \in Int
      BY <2>1, <2>2
    <2>4. Len(available) \in Nat /\ available = [i \in 1 .. Len(available) |-> available[i]]
      BY <2>1
    <2> QED BY <2>3, <2>4
  <1>3. /\ held \cup Range(available) = First .. next - 1
        /\ held \cap Range(available) = {}
        /\ \A i, j \in DOMAIN available : i < j => available[j] < available[i]
    BY DEF IdPoolInv, Partition
  <1> QED BY <1>1, <1>2, <1>3

(* A sequence of integers all of whose elements are in S is in Seq(S). *)
LEMMA SeqOf ==
    ASSUME NEW S, NEW s \in Seq(Int), \A x \in Range(s) : x \in S
    PROVE  s \in Seq(S)
  <1>1. \A i \in 1 .. Len(s) : s[i] \in S
    BY RangeElement
  <1> QED BY <1>1

(* A new pool has given out nothing. *)
LEMMA InitInv == Init => IdPoolInv
  <1> SUFFICES ASSUME Init PROVE IdPoolInv
    OBVIOUS
  <1>1. TypeOK
    BY PoolAssumption DEF Init, TypeOK
  <1>2. Range(available) = {}
    BY DEF Init, Range
  <1>3. held \cup Range(available) = First .. next - 1
    <2>1. \A y : y \notin First .. First - 1
      BY PoolAssumption
    <2>2. next = First /\ held = {}
      BY DEF Init
    <2> QED BY <1>2, <2>1, <2>2
  <1>4. DOMAIN available = {}
    BY DEF Init
  <1>5. Partition
    BY <1>2, <1>3, <1>4 DEF Partition
  <1> QED BY <1>1, <1>5 DEF IdPoolInv

(* getNext() with a released id at hand *)
LEMMA GetReleasedInv == ASSUME IdPoolInv, GetReleased PROVE IdPoolInv'
  <1> DEFINE x == available[Len(available)]
  <1>1. /\ x \in Range(available)
        /\ available' \in Seq(Int)
        /\ Range(available') = Range(available) \ {x}
        /\ \A i, j \in DOMAIN available' : i < j => available'[j] < available'[i]
    BY IdPoolFacts, PopBack DEF GetReleased
  <1> HIDE DEF x
  <1>2. held' = held \cup {x} /\ next' = next
    BY DEF GetReleased, x
  <1>3. next \in First .. Last + 1
    BY DEF IdPoolInv, TypeOK
  <1>4. \A y \in Range(available') : y \in Ids
    BY <1>1, <1>3, IdPoolFacts DEF Ids
  <1>5. available' \in Seq(Ids)
    BY <1>1, <1>4, SeqOf
  <1>6. held' \subseteq Ids
    BY <1>1, <1>2, <1>3, IdPoolFacts DEF Ids
  <1>7. TypeOK'
    BY <1>2, <1>3, <1>5, <1>6 DEF TypeOK, Ids
  <1>8. held' \cup Range(available') = First .. next' - 1
    BY <1>1, <1>2, IdPoolFacts
  <1>9. held' \cap Range(available') = {}
    BY <1>1, <1>2, IdPoolFacts
  <1> QED BY <1>1, <1>7, <1>8, <1>9 DEF IdPoolInv, Partition

(* getNext() with a new id *)
LEMMA GetNewInv == ASSUME IdPoolInv, GetNew PROVE IdPoolInv'
  <1>1. /\ available' = available /\ available = <<>>
        /\ held' = held \cup {next} /\ next' = next + 1 /\ next <= Last
    BY DEF GetNew
  <1>2. Range(available) = {}
    BY <1>1 DEF Range
  <1>3. next \in First .. Last + 1 /\ held \subseteq Ids
    BY DEF IdPoolInv, TypeOK
  <1>4. next' \in First .. Last + 1 /\ held' \subseteq Ids
    BY <1>1, <1>3, PoolAssumption DEF Ids
  <1>5. TypeOK'
    BY <1>1, <1>4 DEF TypeOK, Ids, IdPoolInv
  <1>6. held' \cup Range(available') = First .. next' - 1
    BY <1>1, <1>2, <1>3, IdPoolFacts
  <1>7. Partition'
    BY <1>1, <1>2, <1>6 DEF Partition
  <1> QED BY <1>5, <1>7 DEF IdPoolInv

(* release() of an id that is held *)
LEMMA ReleaseInv ==
    ASSUME IdPoolInv, NEW id \in held, Release(id) PROVE IdPoolInv'
  <1>0. id \in Int /\ id \in First .. next - 1 /\ id \notin Range(available)
    BY IdPoolFacts
  <1>1. held' = held \ {id}
    BY DEF Release
  <1>2. next \in First .. Last + 1 /\ held \subseteq Ids
    BY DEF IdPoolInv, TypeOK
  <1>3. CASE id + 1 < next
    <2>1. next' = next /\ available' = DrawLastElement(available, id)
      BY <1>0, <1>3, IdPoolFacts DEF Release
    <2>2. \A i \in DOMAIN available : available[i] # id
      BY <1>0, RangeElement
    <2>3. /\ available' \in Seq(Int)
          /\ Range(available') = Range(available) \cup {id}
          /\ \A i, j \in DOMAIN available' : i < j => available'[j] < available'[i]
      BY <1>0, <2>1, <2>2, IdPoolFacts, DrawLastElementInserts
    <2>4. \A y \in Range(available') : y \in Ids
      BY <1>0, <1>2, <2>3, IdPoolFacts DEF Ids
    <2>5. available' \in Seq(Ids)
      BY <2>3, <2>4, SeqOf
    <2>6. TypeOK'
      BY <1>1, <1>2, <2>1, <2>5 DEF TypeOK, Ids
    <2>7. held' \cup Range(available') = First .. next' - 1
      BY <1>0, <1>1, <2>1, <2>3, IdPoolFacts
    <2>8. held' \cap Range(available') = {}
      BY <1>1, <2>3, IdPoolFacts
    <2> QED BY <2>3, <2>6, <2>7, <2>8 DEF IdPoolInv, Partition
  <1>4. CASE id + 1 >= next
    <2>1. next' = next - 1 /\ available' = available /\ id = next - 1
      BY <1>0, <1>4, IdPoolFacts DEF Release
    <2>2. next' \in First .. Last + 1
      BY <1>0, <1>2, <2>1, IdPoolFacts
    <2>3. TypeOK'
      BY <1>1, <1>2, <2>1, <2>2 DEF TypeOK, Ids, IdPoolInv
    <2>4. held' \cup Range(available) = First .. next' - 1
      <3>1. \A y \in held' \cup Range(available) : y \in First .. next - 1 /\ y # id
        BY <1>0, <1>1, IdPoolFacts
      <3>2. \A y \in First .. next - 1 : y # id => y \in held' \cup Range(available)
        BY <1>1, IdPoolFacts
      <3>3. \A y : y \in First .. next' - 1 <=> y \in First .. next - 1 /\ y # id
        BY <1>0, <2>1, IdPoolFacts
      <3> QED BY <3>1, <3>2, <3>3
    <2>5. Partition'
      BY <1>1, <2>1, <2>4, IdPoolFacts DEF Partition
    <2> QED BY <2>3, <2>5 DEF IdPoolInv
  <1> QED BY <1>0, <1>3, <1>4, IdPoolFacts

(* Both parts of the inductive invariant hold in every state of the pool. *)
THEOREM IdPoolInvariant == Spec => []IdPoolInv
  <1>1. Init => IdPoolInv
    BY InitInv
  <1>2. IdPoolInv /\ [Next]_vars => IdPoolInv'
    <2> SUFFICES ASSUME IdPoolInv, [Next]_vars PROVE IdPoolInv'
      OBVIOUS
    <2>1. CASE GetReleased
      BY <2>1, GetReleasedInv
    <2>2. CASE GetNew
      BY <2>2, GetNewInv
    <2>3. CASE \E id \in held : Release(id)
      BY <2>3, ReleaseInv
    <2>4. CASE UNCHANGED vars
      BY <2>4 DEF vars, IdPoolInv, TypeOK, Partition
    <2> QED BY <2>1, <2>2, <2>3, <2>4 DEF Next
  <1> QED BY <1>1, <1>2, PTL DEF Spec

(* The pool gives out only ids of its range, and m_avaliable holds only such
   ids, whatever the range and the order of getNext() and release(). *)
THEOREM IdPoolTypeCorrect == Spec => []TypeOK
  <1>1. IdPoolInv => TypeOK
    BY DEF IdPoolInv
  <1> QED BY <1>1, IdPoolInvariant, PTL

(* SimpleIdPool loses no id and gives none out twice, and m_avaliable stays
   sorted, for every range of ids. *)
THEOREM IdPoolPartition == Spec => []Partition
  <1>1. IdPoolInv => Partition
    BY DEF IdPoolInv
  <1> QED BY <1>1, IdPoolInvariant, PTL

(* SimpleIdPool implements the abstract allocator, for every range of ids:
   getNext() returns the smallest id that nobody holds. *)
THEOREM IdPoolImplementsAllocator == Spec => AllocatorSpec
  <1>1. Init => Allocator!AInit
    BY DEF Init, Allocator!AInit
  <1>2. IdPoolInv /\ [Next]_vars => [Allocator!ANext]_held
    <2> SUFFICES ASSUME IdPoolInv, Next PROVE Allocator!ANext
      BY DEF vars
    <2>1. CASE GetReleased
      <3> DEFINE x == available[Len(available)]
      <3>1. x \in Range(available) /\ \A y \in Range(available) : x <= y
        BY <2>1, IdPoolFacts, PopBack DEF GetReleased
      <3> HIDE DEF x
      <3>2. next \in First .. Last + 1
        BY DEF IdPoolInv, TypeOK
      <3>3. x \in Ids \ held
        BY <3>1, <3>2, IdPoolFacts DEF Ids
      <3>4. \A other \in Ids \ held : x <= other
        BY <3>1, IdPoolFacts DEF Ids
      <3>5. held' = held \cup {x}
        BY <2>1 DEF GetReleased, x
      <3> QED BY <3>3, <3>4, <3>5
            DEF Ids, Allocator!ANext, Allocator!AGetAny, Allocator!AGet, Allocator!Ids
    <2>2. CASE GetNew
      <3>1. Range(available) = {}
        BY <2>2 DEF GetNew, Range
      <3>2. next \in First .. Last + 1
        BY DEF IdPoolInv, TypeOK
      <3>3. next \in Ids \ held
        BY <2>2, <3>2, IdPoolFacts DEF Ids, GetNew
      <3>4. \A other \in Ids \ held : next <= other
        BY <3>1, IdPoolFacts DEF Ids
      <3> QED BY <2>2, <3>3, <3>4
            DEF GetNew, Ids, Allocator!ANext, Allocator!AGetAny, Allocator!AGet, Allocator!Ids
    <2>3. CASE \E id \in held : Release(id)
      BY <2>3 DEF Release, Allocator!ANext, Allocator!ARelease
    <2> QED BY <2>1, <2>2, <2>3 DEF Next
  <1> QED BY <1>1, <1>2, IdPoolInvariant, PTL DEF Spec, AllocatorSpec, Allocator!ASpec

-----------------------------------------------------------------------------
(* Registry *)

Alive == held \ {creating[t] : t \in Builders}

RegistryTypeOK ==
    /\ IdPoolInv
    /\ team = Builders \/ \E t \in Builders : team = {t}
    /\ creating \in [Builders -> {0} \cup held]
    /\ named \in [Builders -> BOOLEAN]
    /\ instances \in Seq(BOOLEAN)
    /\ counter \in Nat
    /\ observed \in BOOLEAN
    /\ rabort \in BOOLEAN

(* An object under construction has an id of its own and a thread that runs; its null
   pointer is registered before the object is. *)
UnderConstruction ==
    /\ \A t \in Builders : creating[t] # 0 => t \in team
    /\ \A t \in Builders : named[t] => creating[t] # 0 /\ creating[t] <= Len(instances)
    /\ \A t, other \in Builders : t # other /\ creating[t] # 0 => creating[t] # creating[other]

(* Who is found where *)
Registered ==
    /\ \A id \in Alive : id <= Len(instances) /\ instances[id] = TRUE
    /\ \A id \in 1 .. Len(instances) : instances[id] = TRUE => id \in Alive
    /\ counter = Cardinality(Alive)

(* A thread that constructs alone registers the ids one after another: all that were
   given out are registered, but the one it has just taken. *)
AloneInOrder ==
    /\ \A t \in Builders :
          team = {t} =>
              /\ ~rabort
              /\ IF creating[t] = 0 \/ named[t] THEN next - 1 <= Len(instances)
                 ELSE /\ creating[t] <= Len(instances) + 1
                      /\ next - 1 <= Len(instances) \/ next - 1 = creating[t]
    /\ rabort => team # {}

RegistryInv == RegistryTypeOK /\ UnderConstruction /\ Registered /\ MirrorIsExact /\ AloneInOrder

(* A slot of the vector of instances is written, and the vector grows by one if it is at the end. *)
LEMMA PutAt ==
    ASSUME NEW v \in Seq(BOOLEAN), NEW id \in 1 .. Len(v) + 1, NEW x \in BOOLEAN
    PROVE  /\ Put(v, id, x) \in Seq(BOOLEAN)
           /\ Len(Put(v, id, x)) = IF id > Len(v) THEN id ELSE Len(v)
           /\ Put(v, id, x)[id] = x
           /\ \A i \in 1 .. Len(v) : i # id => Put(v, id, x)[i] = v[i]
  <1> DEFINE n == IF id > Len(v) THEN id ELSE Len(v)
             w == [i \in 1 .. n |-> IF i = id THEN x ELSE v[i]]
  <1>1. Put(v, id, x) = w
    BY DEF Put
  <1>2. n \in Nat /\ Len(v) \in Nat /\ id \in 1 .. n /\ \A i \in 1 .. n : i # id => i \in 1 .. Len(v)
    OBVIOUS
  <1>3. \A i \in 1 .. Len(v) : v[i] \in BOOLEAN
    OBVIOUS
  <1>4. \A i \in 1 .. n : (IF i = id THEN x ELSE v[i]) \in BOOLEAN
    BY <1>2, <1>3, Zenon
  <1>5. w \in [1 .. n -> BOOLEAN]
    BY <1>4, Zenon
  <1>6. w \in Seq(BOOLEAN) /\ Len(w) = n
    BY <1>2, <1>5
  <1>7. w[id] = x /\ \A i \in 1 .. n : i # id => w[i] = v[i]
    BY <1>2, Zenon
  <1>8. \A i \in 1 .. Len(v) : i \in 1 .. n
    BY <1>2
  <1> QED
    BY <1>1, <1>6, <1>7, <1>8, Zenon

(* Only ids that were given out are held, so the objects can be counted. *)
LEMMA AliveIsFinite ==
    ASSUME RegistryTypeOK
    PROVE  IsFiniteSet(Alive) /\ Cardinality(Alive) \in Nat /\ held \subseteq 1 .. next - 1 /\ next \in Int
  <1>1. held \subseteq 1 .. next - 1 /\ next \in Int
    BY IdPoolFacts, RegistryAssumption DEF RegistryTypeOK
  <1>2. IsFiniteSet(1 .. next - 1)
    BY <1>1, FS_Interval
  <1>3. Alive \subseteq 1 .. next - 1
    BY <1>1 DEF Alive
  <1> QED
    BY <1>1, <1>2, <1>3, FS_Subset, FS_CardinalityType

(* getNext() gives one id that nobody holds, and the mark moves by one only when all
   ids below it are held. *)
LEMMA OneIdIsTaken ==
    ASSUME IdPoolInv, GetReleased \/ GetNew
    PROVE  /\ IdPoolInv'
           /\ \E x \in 1 .. next : /\ held' = held \cup {x} /\ x \notin held
                                   /\ (CHOOSE id \in held' : id \notin held) = x
                                   /\ \/ next' = next /\ x < next
                                      \/ next' = next + 1 /\ x = next
  <1>0. First = 1 /\ next \in Int
    BY RegistryAssumption, IdPoolFacts
  <1>1. IdPoolInv'
    BY GetReleasedInv, GetNewInv
  <1>2. CASE GetReleased
    <2> DEFINE x == available[Len(available)]
    <2>1. available \in Seq(Int) /\ available # <<>>
      BY <1>2, IdPoolFacts DEF GetReleased
    <2>2. Len(available) \in DOMAIN available
      BY <2>1
    <2>3. x \in Range(available)
      BY <2>2, RangeElement
    <2>4. x \in 1 .. next - 1 /\ x \notin held
      BY <1>0, <2>3, IdPoolFacts
    <2>5. held' = held \cup {x} /\ next' = next
      BY <1>2 DEF GetReleased
    <2> HIDE DEF x
    <2>6. (CHOOSE id \in held' : id \notin held) = x
      BY <2>4, <2>5
    <2> QED
      BY <1>0, <1>1, <2>4, <2>5, <2>6
  <1>3. CASE GetNew
    <2>1. next \notin held
      BY <1>0, IdPoolFacts
    <2>2. held' = held \cup {next} /\ next' = next + 1
      BY <1>3 DEF GetNew
    <2>3. (CHOOSE id \in held' : id \notin held) = next
      BY <2>1, <2>2
    <2>4. next \in 1 .. next
      BY <1>0, PoolAssumption DEF IdPoolInv, TypeOK
    <2> QED
      BY <1>1, <2>1, <2>2, <2>3, <2>4
  <1> QED
    BY <1>2, <1>3

(* A constructor takes an id from the pool (GlobalObject::GlobalObject). *)
LEMMA TakeIdStep ==
    ASSUME RegistryInv, NEW t \in Builders, TakeId(t) PROVE RegistryInv'
  <1>0. /\ RegistryTypeOK /\ IdPoolInv /\ ~rabort /\ t \in team /\ creating[t] = 0
        /\ held \subseteq 1 .. next - 1 /\ next \in Int
        /\ creating \in [Builders -> {0} \cup held] /\ Len(instances) \in Nat
    BY AliveIsFinite DEF RegistryInv, RegistryTypeOK, TakeId
  <1>1. /\ IdPoolInv' /\ UNCHANGED <<team, named, instances, counter, mirror, observed, rabort>>
    BY <1>0, OneIdIsTaken DEF TakeId
  <1>2. PICK x \in 1 .. next : /\ held' = held \cup {x} /\ x \notin held
                               /\ (CHOOSE id \in held' : id \notin held) = x
                               /\ \/ next' = next /\ x < next
                                  \/ next' = next + 1 /\ x = next
    BY <1>0, OneIdIsTaken DEF TakeId
  <1>3. creating' = [creating EXCEPT ![t] = x]
    BY <1>2 DEF TakeId
  <1>4. creating' \in [Builders -> {0} \cup held']
    BY <1>0, <1>2, <1>3
  <1>5. RegistryTypeOK'
    BY <1>1, <1>4 DEF RegistryInv, RegistryTypeOK
  <1>6. x # 0 /\ creating'[t] = x /\ \A u \in Builders : u # t => creating'[u] = creating[u] /\ creating[u] # x
    BY <1>0, <1>2, <1>3
  <1>7. ~named[t]
    BY <1>0 DEF RegistryInv, UnderConstruction
  <1>8. UnderConstruction'
    BY <1>0, <1>1, <1>6, <1>7 DEF RegistryInv, UnderConstruction
  <1>9. Alive' = Alive
    BY <1>0, <1>2, <1>6 DEF Alive
  <1>10. Registered' /\ MirrorIsExact'
    BY <1>1, <1>9 DEF RegistryInv, Registered, MirrorIsExact
  <1>11. AloneInOrder'
    <2>1. ASSUME NEW u \in Builders, team = {u}
          PROVE  /\ u = t /\ next - 1 <= Len(instances) /\ ~rabort
      BY <1>0, <2>1 DEF RegistryInv, AloneInOrder
    <2>2. ASSUME team = {t}
          PROVE  x <= Len(instances) + 1 /\ (next' - 1 <= Len(instances) \/ next' - 1 = x)
      BY <1>0, <1>2, <2>1, <2>2
    <2> QED
      BY <1>0, <1>1, <1>6, <1>7, <2>1, <2>2 DEF AloneInOrder
  <1> QED
    BY <1>5, <1>8, <1>10, <1>11 DEF RegistryInv

(* It puts itself into its slot (registerSelf). *)
LEMMA RegisterSelfStep ==
    ASSUME RegistryInv, NEW t \in Builders, RegisterSelf(t) PROVE RegistryInv'
  <1> DEFINE id == creating[t]
             n == Len(instances)
  <1>0. /\ RegistryTypeOK /\ IdPoolInv /\ ~rabort /\ t \in team /\ id # 0 /\ id \in held
        /\ held \subseteq 1 .. next - 1 /\ next \in Int
        /\ creating \in [Builders -> {0} \cup held] /\ n \in Nat /\ id \in Nat
        /\ instances \in Seq(BOOLEAN) /\ named \in [Builders -> BOOLEAN] /\ counter \in Nat
    BY AliveIsFinite DEF RegistryInv, RegistryTypeOK, UnderConstruction, RegisterSelf
  <1>1. UNCHANGED <<next, available, held, team, observed>>
    BY DEF RegisterSelf
  <1>2. IdPoolInv'
    BY <1>0, <1>1 DEF IdPoolInv, TypeOK, Partition
  <1>3. CASE id > n + 1
    <2>1. rabort' = TRUE /\ UNCHANGED <<creating, named, instances, counter, mirror>>
      BY <1>0, <1>3 DEF RegisterSelf
    <2>2. ~ named[t]
      BY <1>0, <1>3 DEF RegistryInv, UnderConstruction
    <2>3. \A u \in Builders : team # {u}
      BY <1>0, <1>3, <2>2 DEF RegistryInv, AloneInOrder
    <2>4. RegistryTypeOK'
      BY <1>1, <1>2, <2>1 DEF RegistryInv, RegistryTypeOK
    <2>5. UnderConstruction' /\ Registered' /\ MirrorIsExact'
      BY <1>1, <2>1 DEF RegistryInv, UnderConstruction, Registered, Alive, MirrorIsExact
    <2>6. AloneInOrder'
      BY <1>0, <1>1, <2>1, <2>3 DEF AloneInOrder
    <2> QED
      BY <2>4, <2>5, <2>6 DEF RegistryInv
  <1>4. CASE id <= n + 1
    <2>0. \A u \in Builders : creating[u] \in Nat
      <3>1. creating \in [Builders -> {0} \cup held] /\ held \subseteq 1 .. next - 1 /\ next \in Int
        BY <1>0
      <3>2. {0} \cup held \subseteq Nat
        BY <3>1
      <3> QED
        BY <3>1, <3>2
    <2>1. /\ instances' = Put(instances, id, named[t])
          /\ mirror' = IF observed THEN Put(mirror, id, named[t]) ELSE mirror
          /\ counter' = IF named[t] THEN counter + 1 ELSE counter
          /\ named' = [named EXCEPT ![t] = ~@]
          /\ creating' = IF named[t] THEN [creating EXCEPT ![t] = 0] ELSE creating
          /\ rabort' = rabort
      BY <1>0, <1>4 DEF RegisterSelf
    <2>2. id \in 1 .. n + 1 /\ named[t] \in BOOLEAN /\ id \in 1 .. next - 1
      BY <1>0, <1>4
    <2>3. /\ instances' \in Seq(BOOLEAN) /\ Len(instances') = (IF id > n THEN id ELSE n)
          /\ instances'[id] = named[t] /\ \A i \in 1 .. n : i # id => instances'[i] = instances[i]
      <3>1. instances \in Seq(BOOLEAN) /\ id \in 1 .. Len(instances) + 1 /\ named[t] \in BOOLEAN
        BY <1>0, <2>2
      <3> DEFINE x == named[t]
                 v == instances
      <3>2. instances' = Put(v, id, x)
        BY <2>1
      <3> HIDE DEF id, x, v
      <3>3. v \in Seq(BOOLEAN) /\ id \in 1 .. Len(v) + 1 /\ x \in BOOLEAN
        BY <3>1 DEF v, x
      <3>4. /\ Put(v, id, x) \in Seq(BOOLEAN)
            /\ Len(Put(v, id, x)) = IF id > Len(v) THEN id ELSE Len(v)
            /\ Put(v, id, x)[id] = x
            /\ \A i \in 1 .. Len(v) : i # id => Put(v, id, x)[i] = v[i]
        BY <3>3, PutAt
      <3> QED
        BY <3>2, <3>4, Zenon DEF v, x
    <2>4. MirrorIsExact'
      BY <1>1, <2>1 DEF RegistryInv, MirrorIsExact
    <2>5. id \notin Alive
      BY DEF Alive
    <2>6. \A u \in Builders : u # t => creating[u] # id /\ creating'[u] = creating[u] /\ named'[u] = named[u]
      BY <1>0, <2>1 DEF RegistryInv, UnderConstruction
    <2>7. named' \in [Builders -> BOOLEAN] /\ (named'[t] <=> ~named[t])
      BY <1>0, <2>1, Zenon
    <2>8. CASE named[t]
      <3>0. named[t] = TRUE
        BY <1>0, <2>8, Zenon
      <3>1. creating' = [creating EXCEPT ![t] = 0] /\ creating'[t] = 0 /\ counter' = counter + 1 /\ ~named'[t]
        BY <1>0, <2>1, <2>7, <2>8
      <3>2. id <= n
        BY <2>8 DEF RegistryInv, UnderConstruction
      <3>3. Len(instances') = n
        BY <1>0, <2>3, <3>2
      <3>4. creating' \in [Builders -> {0} \cup held']
        BY <1>0, <1>1, <3>1
      <3>5. Alive' = Alive \cup {id}
        BY <1>0, <1>1, <2>6, <3>1 DEF Alive
      <3>6. Cardinality(Alive') = Cardinality(Alive) + 1
        BY <1>0, <2>5, <3>5, AliveIsFinite, FS_AddElement
      <3>7. RegistryTypeOK'
        BY <1>0, <1>1, <1>2, <2>1, <2>3, <2>7, <3>1, <3>4 DEF RegistryTypeOK
      <3>8. UnderConstruction'
        BY <1>1, <2>6, <3>1, <3>3 DEF RegistryInv, UnderConstruction
      <3>9. Registered'
        <4>1. ASSUME NEW i \in Alive' PROVE i <= n /\ instances'[i] = TRUE
          <5>1. CASE i = id
            BY <2>3, <3>0, <3>2, <5>1, Zenon
          <5>2. CASE i # id
            <6>1. i \in Alive /\ i <= n /\ instances[i] = TRUE
              BY <3>5, <5>2 DEF RegistryInv, Registered
            <6>2. i \in 1 .. n
              BY <1>0, <6>1, AliveIsFinite DEF Alive
            <6> QED
              BY <2>3, <5>2, <6>1, <6>2, Zenon
          <5> QED
            BY <5>1, <5>2
        <4>2. ASSUME NEW i \in 1 .. n, instances'[i] = TRUE PROVE i \in Alive'
          BY <2>3, <3>5, <4>2 DEF RegistryInv, Registered
        <4> QED
          BY <3>1, <3>3, <3>6, <4>1, <4>2 DEF RegistryInv, Registered
      <3>10. AloneInOrder'
        <4>1. ASSUME NEW u \in Builders, team = {u} PROVE u = t /\ next - 1 <= n
          BY <1>0, <2>8, <4>1 DEF RegistryInv, AloneInOrder
        <4> QED
          BY <1>0, <1>1, <2>1, <3>1, <3>3, <4>1 DEF AloneInOrder
      <3> QED
        BY <2>4, <3>7, <3>8, <3>9, <3>10 DEF RegistryInv
    <2>9. CASE ~named[t]
      <3>0. named[t] = FALSE
        BY <1>0, <2>9, Zenon
      <3>1. creating' = creating /\ counter' = counter /\ named'[t]
        BY <2>1, <2>7, <2>9
      <3>2. Len(instances') \in Nat /\ id <= Len(instances') /\ n <= Len(instances')
        BY <1>0, <2>3
      <3>3. Alive' = Alive
        BY <1>1, <3>1 DEF Alive
      <3>4. RegistryTypeOK'
        BY <1>0, <1>1, <1>2, <2>1, <2>3, <2>7, <3>1 DEF RegistryTypeOK
      <3>5. UnderConstruction'
        <4>1. \A u \in Builders : named'[u] => creating'[u] # 0 /\ creating'[u] <= Len(instances')
          <5> SUFFICES ASSUME NEW u \in Builders, named'[u]
                       PROVE  creating[u] # 0 /\ creating[u] <= Len(instances')
            BY <3>1
          <5>1. CASE u = t
            BY <1>0, <3>2, <5>1
          <5>2. CASE u # t
            <6>1. creating[u] # 0 /\ creating[u] <= n
              BY <2>6, <5>2 DEF RegistryInv, UnderConstruction
            <6>2. creating[u] \in Nat
              BY <2>0
            <6> QED
              BY <1>0, <3>2, <6>1, <6>2
          <5> QED
            BY <5>1, <5>2
        <4> QED
          BY <1>1, <3>1, <4>1 DEF RegistryInv, UnderConstruction
      <3>6. Registered'
        <4>1. ASSUME NEW i \in Alive PROVE i <= Len(instances') /\ instances'[i] = TRUE
          <5>1. i \in 1 .. n /\ instances[i] = TRUE /\ i # id
            BY <1>0, <2>5, AliveIsFinite DEF RegistryInv, Registered, Alive
          <5> QED
            BY <1>0, <2>3, <3>2, <5>1
        <4>2. ASSUME NEW i \in 1 .. Len(instances'), instances'[i] = TRUE PROVE i \in Alive
          <5>1. i # id
            BY <2>3, <3>0, <4>2
          <5>2. i \in 1 .. n
            BY <1>0, <2>2, <2>3, <5>1
          <5> QED
            BY <2>3, <4>2, <5>1, <5>2 DEF RegistryInv, Registered
        <4> QED
          BY <3>1, <3>3, <4>1, <4>2 DEF RegistryInv, Registered
      <3>7. AloneInOrder'
        <4>1. ASSUME NEW u \in Builders, team = {u} PROVE u = t /\ next - 1 <= Len(instances')
          <5>1. u = t
            BY <1>0, <4>1
          <5>2. next - 1 <= n \/ next - 1 = id
            BY <1>0, <2>9, <4>1, <5>1 DEF RegistryInv, AloneInOrder
          <5> QED
            BY <1>0, <3>2, <5>1, <5>2
        <4> QED
          BY <1>0, <1>1, <2>1, <3>1, <4>1 DEF AloneInOrder
      <3> QED
        BY <2>4, <3>4, <3>5, <3>6, <3>7 DEF RegistryInv
    <2> QED
      BY <2>8, <2>9
  <1> QED
    BY <1>0, <1>3, <1>4

(* A destructor empties the slot and gives the id back. *)
LEMMA DestroyStep ==
    ASSUME RegistryInv, NEW id \in held, Destroy(id) PROVE RegistryInv'
  <1> DEFINE n == Len(instances)
  <1>0. /\ RegistryTypeOK /\ IdPoolInv /\ ~rabort /\ n \in Nat
        /\ held \subseteq 1 .. next - 1 /\ next \in Int /\ creating \in [Builders -> {0} \cup held]
        /\ instances \in Seq(BOOLEAN) /\ counter \in Nat
    BY AliveIsFinite DEF RegistryInv, RegistryTypeOK, Destroy
  <1>1. \A t \in Builders : creating[t] = 0 /\ ~named[t]
    BY DEF Destroy, Quiet, RegistryInv, UnderConstruction
  <1>2. /\ UNCHANGED <<team, creating, named, observed, rabort>>
        /\ instances' = [instances EXCEPT ![id] = FALSE] /\ counter' = counter - 1
        /\ mirror' = IF observed THEN [mirror EXCEPT ![id] = FALSE] ELSE mirror
        /\ Release(id)
    BY DEF Destroy
  <1>3. IdPoolInv' /\ held' = held \ {id} /\ (next' = next \/ next' = next - 1)
    BY <1>0, <1>2, ReleaseInv DEF Release
  <1>4. Alive = held /\ Alive' = held \ {id}
    BY <1>0, <1>1, <1>2, <1>3 DEF Alive
  <1>5. id \in 1 .. n
    BY <1>0, <1>4 DEF RegistryInv, Registered
  <1>6. /\ \A i \in 1 .. n : i # id => instances'[i] = instances[i]
        /\ instances'[id] = FALSE
    <2>1. DOMAIN instances = 1 .. n
      BY <1>0
    <2> QED
      BY <1>2, <1>5, <2>1, Zenon
  <1>7. instances' \in Seq(BOOLEAN) /\ Len(instances') = n
    <2>1. \A i \in 1 .. n : instances[i] \in BOOLEAN
      BY <1>0
    <2>2. DOMAIN instances = 1 .. n
      BY <1>0
    <2>3. instances' \in [1 .. n -> BOOLEAN]
      BY <1>0, <1>2, <2>1, <2>2, Zenon
    <2> QED
      BY <1>0, <2>3
  <1>8. Cardinality(Alive') = Cardinality(Alive) - 1 /\ Cardinality(Alive) \in Nat
    BY <1>0, <1>4, AliveIsFinite, FS_RemoveElement
  <1>9. Cardinality(Alive') \in Nat
    BY <1>0, <1>4, AliveIsFinite, FS_RemoveElement, FS_CardinalityType
  <1>10. creating' \in [Builders -> {0} \cup held']
    BY <1>0, <1>1, <1>2
  <1>11. counter' = Cardinality(Alive')
    BY <1>2, <1>8 DEF RegistryInv, Registered
  <1>12. RegistryTypeOK'
    BY <1>0, <1>2, <1>3, <1>7, <1>9, <1>10, <1>11 DEF RegistryTypeOK
  <1>13. UnderConstruction' /\ MirrorIsExact'
    BY <1>1, <1>2, <1>7 DEF RegistryInv, UnderConstruction, MirrorIsExact
  <1>14. Registered'
    <2>1. ASSUME NEW i \in Alive' PROVE i <= n /\ instances'[i] = TRUE
      <3>1. i \in Alive /\ i # id
        BY <1>4
      <3>2. i \in 1 .. n /\ i <= n /\ instances[i] = TRUE
        BY <1>0, <1>4, <3>1 DEF RegistryInv, Registered
      <3> QED
        BY <1>6, <3>1, <3>2, Zenon
    <2>2. ASSUME NEW i \in 1 .. n, instances'[i] = TRUE PROVE i \in Alive'
      <3>1. i # id /\ instances[i] = TRUE
        BY <1>6, <2>2
      <3> QED
        BY <1>4, <3>1 DEF RegistryInv, Registered
    <2> QED
      BY <1>7, <1>11, <2>1, <2>2 DEF Registered
  <1>15. AloneInOrder'
    <2>1. ASSUME NEW u \in Builders, team = {u} PROVE next' - 1 <= n
      BY <1>0, <1>1, <1>3, <2>1 DEF RegistryInv, AloneInOrder
    <2> QED
      BY <1>0, <1>1, <1>2, <1>7, <2>1 DEF AloneInOrder
  <1> QED
    BY <1>12, <1>13, <1>14, <1>15 DEF RegistryInv

(* Containers of objects come and go. *)
LEMMA ContainersStep ==
    ASSUME RegistryInv, GetContainer \/ DropContainer \/ UNCHANGED registryVars PROVE RegistryInv'
  <1>1. UNCHANGED <<next, available, held, team, creating, named, instances, counter, rabort>>
    BY DEF GetContainer, DropContainer, registryVars, objectVars
  <1>2. observed' \in BOOLEAN /\ MirrorIsExact'
    <2>1. CASE GetContainer
      BY <2>1, Zenon DEF GetContainer, MirrorIsExact
    <2>2. CASE DropContainer
      BY <2>2, Zenon DEF DropContainer, MirrorIsExact
    <2>3. CASE UNCHANGED registryVars
      BY <2>3 DEF registryVars, objectVars, MirrorIsExact, RegistryInv, RegistryTypeOK
    <2> QED
      BY <2>1, <2>2, <2>3
  <1>3. RegistryTypeOK'
    BY <1>1, <1>2 DEF RegistryInv, RegistryTypeOK, IdPoolInv, TypeOK, Partition
  <1>4. UnderConstruction' /\ Registered' /\ AloneInOrder'
    BY <1>1 DEF RegistryInv, UnderConstruction, Registered, AloneInOrder, Alive
  <1> QED
    BY <1>2, <1>3, <1>4 DEF RegistryInv

(* The invariant holds of an empty registry. *)
LEMMA NoObjectsAtFirst ==
    ASSUME RegistryInit PROVE RegistryInv
  <1>1. IdPoolInv
    BY InitInv DEF RegistryInit
  <1>2. Alive = {} /\ Cardinality(Alive) = 0
    BY FS_EmptySet DEF RegistryInit, Init, Alive
  <1>3. instances = <<>> /\ Len(instances) = 0 /\ instances \in Seq(BOOLEAN) /\ next - 1 = 0
    BY RegistryAssumption DEF RegistryInit, Init
  <1>4. observed \in BOOLEAN /\ rabort \in BOOLEAN
    BY DEF RegistryInit
  <1>5. RegistryTypeOK
    BY <1>1, <1>3, <1>4 DEF RegistryInit, RegistryTypeOK
  <1>6. UnderConstruction /\ MirrorIsExact
    BY DEF RegistryInit, UnderConstruction, MirrorIsExact
  <1>7. Registered
    BY <1>2, <1>3 DEF RegistryInit, Registered
  <1>8. AloneInOrder
    BY <1>3 DEF RegistryInit, AloneInOrder
  <1> QED
    BY <1>5, <1>6, <1>7, <1>8 DEF RegistryInv

(* For every range of ids and every set of threads: ids are neither lost nor shared, each
   object that is constructed is found at its id and nowhere else, the containers mirror
   the registry, and one thread alone never trips the assertion of registerSelf
   (GlobalContainer, ConcreteObjectsContainer). *)
THEOREM ObjectsStayExact == RegistrySpec => []ObjectsAreExact
  <1>1. ASSUME RegistryInv, [RegistryNext]_registryVars PROVE RegistryInv'
    BY <1>1, TakeIdStep, RegisterSelfStep, DestroyStep, ContainersStep DEF RegistryNext
  <1>2. ASSUME RegistryInv PROVE ObjectsAreExact
    <2>1. Partition
      BY <1>2 DEF RegistryInv, RegistryTypeOK, IdPoolInv
    <2>2. RegistryIsExact
      <3>1. \A id \in 1 .. Len(instances) : instances[id] \in BOOLEAN
        BY <1>2 DEF RegistryInv, RegistryTypeOK
      <3>2. \A id \in 1 .. Len(instances) : instances[id] => instances[id] = TRUE
        BY <3>1, Zenon
      <3> QED
        BY <1>2, <3>2 DEF RegistryInv, Registered, RegistryIsExact, Alive
    <2>3. RegisteredInOrder
      <3> SUFFICES ASSUME rabort PROVE Cardinality(team) > 1
        BY DEF RegisteredInOrder
      <3>1. team # {} /\ (\A t \in Builders : team # {t}) /\ team = Builders
        BY <1>2 DEF RegistryInv, RegistryTypeOK, AloneInOrder
      <3>2. IsFiniteSet(team) /\ Cardinality(team) \in Nat
        BY <3>1, RegistryAssumption, FS_CardinalityType
      <3>3. Cardinality(team) # 0
        BY <3>1, <3>2, FS_EmptySet
      <3>4. \A x : team # {x}
        BY <3>1
      <3>5. Cardinality(team) # 1
        BY <3>2, <3>4, FS_Singleton, Zenon
      <3> QED
        BY <3>2, <3>3, <3>5
    <2> QED
      BY <1>2, <2>1, <2>2, <2>3 DEF RegistryInv, ObjectsAreExact
  <1> QED
    BY <1>1, <1>2, NoObjectsAtFirst, PTL DEF RegistrySpec

(* The registry is a correct user of the pool: it releases what it holds, once, so that
   what is proved of the pool holds of the ids of objects (GlobalObject). *)
THEOREM RegistryUsesThePool == RegistrySpec => Spec
  <1>1. RegistryInit => Init
    BY DEF RegistryInit
  <1>2. [RegistryNext]_registryVars => [Next]_vars
    <2> SUFFICES ASSUME [RegistryNext]_registryVars PROVE [Next]_vars
      OBVIOUS
    <2>1. ASSUME NEW t \in Builders, TakeId(t) PROVE Next
      BY <2>1 DEF TakeId, Next
    <2>2. ASSUME NEW id \in held, Destroy(id) PROVE Next
      BY <2>2 DEF Destroy, Next
    <2>3. ASSUME NEW t \in Builders, RegisterSelf(t) PROVE UNCHANGED vars
      BY <2>3 DEF RegisterSelf, vars
    <2>4. ASSUME GetContainer \/ DropContainer \/ UNCHANGED registryVars PROVE UNCHANGED vars
      BY <2>4 DEF GetContainer, DropContainer, registryVars, vars
    <2> QED
      BY <2>1, <2>2, <2>3, <2>4 DEF RegistryNext
  <1> QED
    BY <1>1, <1>2, PTL DEF RegistrySpec, Spec

-----------------------------------------------------------------------------
(* ChunksPool *)

Chunks(k) == Arena(k - 1) + 1 .. Arena(k)

(* ChunksAreExact, of any values of the lists and of what is being sent, with types *)
ExactLists(f, s) ==
    /\ f \in [Kinds -> Seq(Nat)] /\ DOMAIN s \subseteq Nat /\ s = [p \in DOMAIN s |-> s[p]]
    /\ \A k \in Kinds : IsInjective(f[k]) /\ Range(f[k]) = Chunks(k) \ DOMAIN s
    /\ \A p \in DOMAIN s : p > Arena(3) \/ \E k \in Kinds : s[p] <= k /\ p \in Chunks(k)

ChunksInv == ExactLists(free, sent)

(* The chunks of a size lie together; the address of a chunk tells its size. *)
LEMMA ArenaFacts ==
    /\ \A k \in Kinds : /\ Arena(k) \in Nat /\ Arena(k - 1) \in Nat /\ Arena(k - 1) <= Arena(k)
                        /\ Arena(k) <= Arena(3) /\ k \in Nat /\ Arena(k) = Arena(k - 1) + Counts[k]
    /\ \A k \in Kinds, p \in Nat : p \in Chunks(k) => KindOf(p) = k
    /\ \A p \in Nat : p > Arena(3) => KindOf(p) = 0
  BY ChunksAssumption DEF Arena, Kinds, Chunks, KindOf

(* A chunk belongs to the list of one size only. *)
LEMMA OtherChunks ==
    ASSUME NEW k \in Kinds, NEW l \in Kinds, k # l, NEW p \in Chunks(k)
    PROVE  p \notin Chunks(l) /\ p \in Nat /\ p <= Arena(3) /\ p > Arena(k - 1) /\ p <= Arena(k)
  <1>0. Arena(k - 1) \in Nat /\ Arena(k) \in Nat /\ Arena(k) <= Arena(3) /\ Arena(3) \in Nat
    BY ArenaFacts DEF Kinds
  <1>1. p \in Nat /\ p <= Arena(3) /\ p > Arena(k - 1) /\ p <= Arena(k)
    BY <1>0 DEF Chunks
  <1> QED
    BY <1>1, ArenaFacts

(* A chunk from the heap belongs to no list. *)
LEMMA BeyondTheArena ==
    ASSUME NEW p \in Nat, p > Arena(3), NEW l \in Kinds PROVE p \notin Chunks(l)
  <1>1. Arena(l - 1) \in Nat /\ Arena(l) \in Nat /\ Arena(l) <= Arena(3) /\ Arena(3) \in Nat
    BY ArenaFacts DEF Kinds
  <1> QED
    BY <1>1 DEF Chunks

(* back() and pop_back() of a list without duplicates *)
LEMMA TakenFromList ==
    ASSUME NEW s \in Seq(Nat), IsInjective(s), s # <<>>
    PROVE  LET t == SubSeq(s, 1, Len(s) - 1)
           IN  /\ t \in Seq(Nat) /\ IsInjective(t)
               /\ Top(s) \in Range(s) /\ Range(t) = Range(s) \ {Top(s)}
  <1> DEFINE n == Len(s)
             t == SubSeq(s, 1, n - 1)
  <1>1. n \in Nat /\ n > 0 /\ n \in DOMAIN s /\ DOMAIN s = 1 .. n
    OBVIOUS
  <1>2. t \in Seq(Nat) /\ DOMAIN t = 1 .. n - 1 /\ \A i \in 1 .. n - 1 : t[i] = s[i]
    BY <1>1
  <1>3. \A i, j \in 1 .. n : s[i] = s[j] => i = j
    BY <1>1 DEF IsInjective
  <1> HIDE DEF t
  <1>4. IsInjective(t)
    <2>1. \A i \in 1 .. n - 1 : i \in 1 .. n
      BY <1>1
    <2> QED
      BY <1>2, <1>3, <2>1 DEF IsInjective
  <1>5. Top(s) \in Range(s) /\ Top(s) = s[n]
    BY <1>1 DEF Top, Range
  <1>6. ASSUME NEW x \in Range(t) PROVE x \in Range(s) \ {s[n]}
    <2>1. PICK i \in 1 .. n - 1 : x = s[i]
      BY <1>2 DEF Range
    <2> QED
      BY <1>1, <1>3, <2>1 DEF Range
  <1>7. ASSUME NEW x \in Range(s), x # s[n] PROVE x \in Range(t)
    <2>1. PICK i \in 1 .. n : x = s[i]
      BY <1>1 DEF Range
    <2>2. i \in 1 .. n - 1
      BY <1>1, <1>7, <2>1
    <2> QED
      BY <1>2, <2>1, <2>2 DEF Range
  <1>8. Range(t) = Range(s) \ {s[n]}
    BY <1>6, <1>7
  <1> QED
    BY <1>2, <1>4, <1>5, <1>8 DEF t

(* push_back() of what is not in the list *)
LEMMA PutIntoList ==
    ASSUME NEW s \in Seq(Nat), IsInjective(s), NEW p \in Nat, p \notin Range(s)
    PROVE  /\ Append(s, p) \in Seq(Nat) /\ IsInjective(Append(s, p))
           /\ Range(Append(s, p)) = Range(s) \cup {p}
  <1> DEFINE n == Len(s)
             t == Append(s, p)
  <1>1. /\ n \in Nat /\ DOMAIN s = 1 .. n /\ t \in Seq(Nat) /\ DOMAIN t = 1 .. n + 1
        /\ t[n + 1] = p /\ \A i \in 1 .. n : t[i] = s[i]
    OBVIOUS
  <1> HIDE DEF t
  <1>2. \A i, j \in 1 .. n : s[i] = s[j] => i = j
    BY <1>1 DEF IsInjective
  <1>3. \A i \in 1 .. n : s[i] # p
    BY <1>1 DEF Range
  <1>4. IsInjective(t)
    <2> SUFFICES ASSUME NEW i \in 1 .. n + 1, NEW j \in 1 .. n + 1, t[i] = t[j] PROVE i = j
      BY <1>1 DEF IsInjective
    <2>1. (i = n + 1 \/ i \in 1 .. n) /\ (j = n + 1 \/ j \in 1 .. n)
      BY <1>1
    <2> QED
      BY <1>1, <1>2, <1>3, <2>1
  <1>5. ASSUME NEW x \in Range(t) PROVE x \in Range(s) \cup {p}
    <2>1. PICK i \in 1 .. n + 1 : x = t[i]
      BY <1>1 DEF Range
    <2>2. i = n + 1 \/ i \in 1 .. n
      BY <1>1
    <2> QED
      BY <1>1, <2>1, <2>2 DEF Range
  <1>6. ASSUME NEW x \in Range(s) PROVE x \in Range(t)
    <2>1. PICK i \in 1 .. n : x = s[i]
      BY <1>1 DEF Range
    <2>2. i \in 1 .. n + 1
      BY <1>1
    <2> QED
      BY <1>1, <2>1, <2>2 DEF Range
  <1>7. p \in Range(t)
    BY <1>1 DEF Range
  <1> QED
    BY <1>1, <1>4, <1>5, <1>6, <1>7 DEF t

(* What the invariant says of each list and each datagram. *)
LEMMA ChunksFacts ==
    ASSUME ChunksInv
    PROVE  /\ \A k \in Kinds : /\ free[k] \in Seq(Nat) /\ IsInjective(free[k])
                               /\ Range(free[k]) = Chunks(k) \ DOMAIN sent
           /\ \A p \in DOMAIN sent : /\ p \in Nat
                                     /\ p > Arena(3) \/ \E k \in Kinds : sent[p] <= k /\ p \in Chunks(k)
  BY DEF ChunksInv, ExactLists

(* The invariant gives ChunksAreExact. *)
LEMMA ChunksOfExactLists ==
    ASSUME NEW f, NEW s, ExactLists(f, s)
    PROVE  /\ \A p \in DOMAIN s :
                 /\ \A k \in Kinds : p \notin Range(f[k])
                 /\ p > Arena(3) \/ \E k \in Kinds : s[p] <= k /\ p > Arena(k - 1) /\ p <= Arena(k)
           /\ \A k \in Kinds : /\ IsInjective(f[k])
                               /\ Range(f[k]) = (Arena(k - 1) + 1 .. Arena(k)) \ DOMAIN s
  <1>1. \A k \in Kinds, p \in Nat : p \in Chunks(k) => p > Arena(k - 1) /\ p <= Arena(k)
    BY ArenaFacts DEF Chunks
  <1>2. \A p \in DOMAIN s : \A k \in Kinds : p \notin Range(f[k])
    BY DEF ExactLists
  <1>3. \A p \in DOMAIN s : \/ p > Arena(3)
                            \/ \E k \in Kinds : s[p] <= k /\ p > Arena(k - 1) /\ p <= Arena(k)
    BY <1>1 DEF ExactLists
  <1>4. \A k \in Kinds : IsInjective(f[k]) /\ Range(f[k]) = (Arena(k - 1) + 1 .. Arena(k)) \ DOMAIN s
    BY DEF ExactLists, Chunks
  <1> QED
    BY <1>2, <1>3, <1>4

(* get() takes a chunk from the first list of large enough chunks that has one, or from the heap. *)
LEMMA GetChunkStep ==
    ASSUME ChunksInv, NEW size \in 1 .. 4, GetChunk(size) PROVE ChunksInv'
  <1> DEFINE fit == {k \in Kinds : size <= k /\ free[k] # <<>>}
             k == CHOOSE x \in fit : \A y \in fit : x <= y
             heap == {p \in Arena(3) + 1 .. Arena(3) + HeapBound : p \notin DOMAIN sent}
  <1>1. free \in [Kinds -> Seq(Nat)] /\ DOMAIN sent \subseteq Nat
    BY DEF ChunksInv, ExactLists
  <1>2. CASE fit # {}
    <2>1. k \in fit
      <3>1. \E x \in fit : \A y \in fit : x <= y
        BY <1>2 DEF Kinds
      <3> HIDE DEF fit
      <3> QED
        BY <3>1
    <2>2. /\ sent' = [p \in DOMAIN sent \cup {Top(free[k])} |->
                         IF p = Top(free[k]) THEN size ELSE sent[p]]
          /\ free' = [free EXCEPT ![k] = SubSeq(@, 1, Len(@) - 1)]
      BY <1>2 DEF GetChunk
    <2>3. k \in Kinds /\ size <= k /\ free[k] # <<>>
      BY <2>1
    <2> HIDE DEF k, fit, heap
    <2> DEFINE x == Top(free[k])
               t == SubSeq(free[k], 1, Len(free[k]) - 1)
    <2>4. t \in Seq(Nat) /\ IsInjective(t) /\ x \in Range(free[k]) /\ Range(t) = Range(free[k]) \ {x}
      BY <2>3, ChunksFacts, TakenFromList
    <2>5. /\ sent' = [p \in DOMAIN sent \cup {x} |-> IF p = x THEN size ELSE sent[p]]
          /\ free' = [free EXCEPT ![k] = t]
      BY <2>2
    <2> HIDE DEF x, t
    <2>6. x \in Chunks(k) /\ x \notin DOMAIN sent /\ x \in Nat
      BY <2>3, <2>4, ChunksFacts, ArenaFacts DEF Chunks
    <2>7. /\ DOMAIN sent' = DOMAIN sent \cup {x} /\ sent'[x] = size
          /\ \A p \in DOMAIN sent : sent'[p] = sent[p]
      BY <2>5, <2>6
    <2>8. free' \in [Kinds -> Seq(Nat)] /\ free'[k] = t /\ \A l \in Kinds : l # k => free'[l] = free[l]
      BY <1>1, <2>3, <2>4, <2>5
    <2>9. ASSUME NEW l \in Kinds PROVE IsInjective(free'[l]) /\ Range(free'[l]) = Chunks(l) \ DOMAIN sent'
      <3>1. CASE l = k
        BY <2>3, <2>4, <2>7, <2>8, <3>1, ChunksFacts
      <3>2. CASE l # k
        <4>1. x \notin Chunks(l)
          BY <2>3, <2>6, <3>2, OtherChunks
        <4> QED
          BY <2>7, <2>8, <3>2, <4>1, ChunksFacts
      <3> QED
        BY <3>1, <3>2
    <2>10. ASSUME NEW p \in DOMAIN sent'
           PROVE  p > Arena(3) \/ \E l \in Kinds : sent'[p] <= l /\ p \in Chunks(l)
      BY <2>3, <2>6, <2>7, ChunksFacts
    <2>11. DOMAIN sent' \subseteq Nat /\ sent' = [p \in DOMAIN sent' |-> sent'[p]]
      BY <1>1, <2>5, <2>6, <2>7
    <2> QED
      BY <2>8, <2>9, <2>10, <2>11 DEF ChunksInv, ExactLists
  <1>3. CASE fit = {}
    <2>1. PICK p \in heap : /\ sent' = [q \in DOMAIN sent \cup {p} |-> IF q = p THEN size ELSE sent[q]]
                            /\ free' = free
      BY <1>3 DEF GetChunk
    <2>2. p \in Nat /\ p > Arena(3) /\ p \notin DOMAIN sent
      BY ArenaFacts, ChunksAssumption DEF Kinds
    <2> HIDE DEF k, fit, heap
    <2>3. DOMAIN sent' = DOMAIN sent \cup {p} /\ \A q \in DOMAIN sent : sent'[q] = sent[q]
      BY <2>1, <2>2
    <2>4. \A l \in Kinds : p \notin Chunks(l)
      BY <2>2, BeyondTheArena
    <2>5. ASSUME NEW l \in Kinds PROVE IsInjective(free'[l]) /\ Range(free'[l]) = Chunks(l) \ DOMAIN sent'
      BY <2>1, <2>3, <2>4, ChunksFacts
    <2>6. ASSUME NEW q \in DOMAIN sent'
          PROVE  q > Arena(3) \/ \E l \in Kinds : sent'[q] <= l /\ q \in Chunks(l)
      BY <2>2, <2>3, ChunksFacts
    <2>7. DOMAIN sent' \subseteq Nat /\ sent' = [q \in DOMAIN sent' |-> sent'[q]] /\ free' \in [Kinds -> Seq(Nat)]
      BY <1>1, <2>1, <2>2, <2>3
    <2> QED
      BY <2>5, <2>6, <2>7 DEF ChunksInv, ExactLists
  <1> QED
    BY <1>2, <1>3

(* release() returns it to the list its address belongs to. *)
LEMMA ReleaseChunkStep ==
    ASSUME ChunksInv, NEW p \in DOMAIN sent, ReleaseChunk(p) PROVE ChunksInv'
  <1>1. free \in [Kinds -> Seq(Nat)] /\ DOMAIN sent \subseteq Nat /\ p \in Nat
    BY DEF ChunksInv, ExactLists
  <1>2. /\ sent' = [q \in DOMAIN sent \ {p} |-> sent[q]]
        /\ free' = IF KindOf(p) = 0 THEN free ELSE [free EXCEPT ![KindOf(p)] = Append(@, p)]
    BY DEF ReleaseChunk
  <1>3. DOMAIN sent' = DOMAIN sent \ {p} /\ \A q \in DOMAIN sent' : sent'[q] = sent[q]
    BY <1>2
  <1>4. DOMAIN sent' \subseteq Nat /\ sent' = [q \in DOMAIN sent' |-> sent'[q]]
    BY <1>1, <1>2, <1>3
  <1>5. ASSUME NEW q \in DOMAIN sent'
        PROVE  q > Arena(3) \/ \E l \in Kinds : sent'[q] <= l /\ q \in Chunks(l)
    BY <1>3, ChunksFacts
  <1>6. CASE p > Arena(3)
    <2>1. free' = free
      BY <1>1, <1>2, <1>6, ArenaFacts
    <2>2. \A l \in Kinds : p \notin Chunks(l)
      BY <1>1, <1>6, BeyondTheArena
    <2>3. ASSUME NEW l \in Kinds PROVE IsInjective(free'[l]) /\ Range(free'[l]) = Chunks(l) \ DOMAIN sent'
      BY <1>3, <2>1, <2>2, ChunksFacts
    <2> QED
      BY <1>1, <1>4, <1>5, <2>1, <2>3 DEF ChunksInv, ExactLists
  <1>7. ASSUME NEW k \in Kinds, p \in Chunks(k) PROVE ChunksInv'
    <2>1. KindOf(p) = k /\ k # 0
      BY <1>1, <1>7, ArenaFacts DEF Kinds
    <2>2. free' = [free EXCEPT ![k] = Append(free[k], p)]
      BY <1>2, <2>1
    <2>3. free[k] \in Seq(Nat) /\ IsInjective(free[k]) /\ p \notin Range(free[k])
      BY ChunksFacts
    <2>4. /\ Append(free[k], p) \in Seq(Nat) /\ IsInjective(Append(free[k], p))
          /\ Range(Append(free[k], p)) = Range(free[k]) \cup {p}
      BY <1>1, <2>3, PutIntoList
    <2>5. free' \in [Kinds -> Seq(Nat)] /\ free'[k] = Append(free[k], p) /\ \A l \in Kinds : l # k => free'[l] = free[l]
      BY <1>1, <2>2, <2>4
    <2>6. ASSUME NEW l \in Kinds PROVE IsInjective(free'[l]) /\ Range(free'[l]) = Chunks(l) \ DOMAIN sent'
      <3>1. CASE l = k
        <4>1. IsInjective(free'[k]) /\ Range(free'[k]) = Range(free[k]) \cup {p}
          BY <2>4, <2>5
        <4>2. Range(free[k]) = Chunks(k) \ DOMAIN sent
          BY ChunksFacts
        <4>3. (Chunks(k) \ DOMAIN sent) \cup {p} = Chunks(k) \ DOMAIN sent'
          BY <1>3, <1>7
        <4> QED
          BY <3>1, <4>1, <4>2, <4>3
      <3>2. CASE l # k
        <4>1. p \notin Chunks(l)
          BY <1>7, <3>2, OtherChunks
        <4> QED
          BY <1>3, <2>5, <3>2, <4>1, ChunksFacts
      <3> QED
        BY <3>1, <3>2
    <2> QED
      BY <1>4, <1>5, <2>5, <2>6 DEF ChunksInv, ExactLists
  <1> QED
    BY <1>6, <1>7, ChunksFacts

(* A new pool has all its chunks in their lists. *)
LEMMA AllChunksAreFreeAtFirst ==
    ASSUME ChunksInit PROVE ChunksInv
  <1>1. sent = <<>> /\ DOMAIN sent = {} /\ sent = [p \in DOMAIN sent |-> sent[p]]
    BY DEF ChunksInit
  <1>2. ASSUME NEW k \in Kinds
        PROVE  free[k] \in Seq(Nat) /\ IsInjective(free[k]) /\ Range(free[k]) = Chunks(k)
    <2> DEFINE a == Arena(k - 1)
               c == Counts[k]
               s == [i \in 1 .. c |-> a + i]
    <2>1. a \in Nat /\ c \in Nat /\ Chunks(k) = a + 1 .. a + c
      BY ArenaFacts, ChunksAssumption DEF Chunks
    <2>2. free[k] = s
      BY DEF ChunksInit
    <2> HIDE DEF a, c
    <2>3. s \in [1 .. c -> Nat]
      BY <2>1
    <2>4. s \in Seq(Nat) /\ DOMAIN s = 1 .. c /\ \A i \in 1 .. c : s[i] = a + i
      BY <2>1, <2>3
    <2> HIDE DEF s
    <2>5. IsInjective(s)
      BY <2>1, <2>4 DEF IsInjective
    <2>6. Range(s) = a + 1 .. a + c
      <3>1. ASSUME NEW x \in Range(s) PROVE x \in a + 1 .. a + c
        BY <2>1, <2>4 DEF Range
      <3>2. ASSUME NEW x \in a + 1 .. a + c PROVE x \in Range(s)
        <4>1. x - a \in 1 .. c /\ a + (x - a) = x
          BY <2>1
        <4> QED
          BY <2>4, <4>1 DEF Range
      <3> QED
        BY <3>1, <3>2
    <2> QED
      BY <2>1, <2>2, <2>4, <2>5, <2>6
  <1>3. free \in [Kinds -> Seq(Nat)]
    <2>1. free = [k \in Kinds |-> free[k]]
      BY DEF ChunksInit
    <2> QED
      BY <1>2, <2>1
  <1> QED
    BY <1>1, <1>2, <1>3 DEF ChunksInv, ExactLists

(* For all sizes of the three lists and of the heap: a chunk that is being sent is in no
   list and large enough, and every other chunk of the arena is in the list of its size,
   once (ChunksPool, UdpSocket::send). *)
THEOREM ChunksStayExact == ChunksSpec => []ChunksAreExact
  <1>1. ASSUME ChunksInv, [ChunksNext]_chunksVars PROVE ChunksInv'
    <2>1. CASE UNCHANGED chunksVars
      BY <1>1, <2>1 DEF chunksVars, ChunksInv
    <2> QED
      BY <1>1, <2>1, GetChunkStep, ReleaseChunkStep DEF ChunksNext
  <1>2. ChunksInv => ChunksAreExact
    BY ChunksOfExactLists DEF ChunksInv, ChunksAreExact
  <1> QED
    BY <1>1, <1>2, AllChunksAreFreeAtFirst, PTL DEF ChunksSpec
=============================================================================
