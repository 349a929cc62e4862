------------------------- MODULE PacketMemory_proof -------------------------
(***************************************************************************)
(* Proofs about PacketMemory.  A handler is a chain of small moves of one  *)
(* reference: a pool gives it out, a holder takes it over or lets go of    *)
(* it, the pool takes it back.  Good(m, h) says that pools and nodes are   *)
(* consistent and that no buffer is counted more often than it is held,    *)
(* while h is the one buffer in hand, of which a reference may be counted  *)
(* that no holder has yet, or has no more.  Every move keeps it, also a    *)
(* free of a buffer that was freed before; between calls nothing is in     *)
(* hand.                                                                   *)
(***************************************************************************)
EXTENDS PacketMemory, FiniteSetTheorems, WellFoundedInduction, TLAPS

-----------------------------------------------------------------------------
(* Numbers, words and classes. *)

LEMMA LeastNatural ==
    ASSUME NEW S \in SUBSET Nat, S # {}
    PROVE  \E m \in S : \A n \in S : m <= n
<1>1. \E R : /\ \A x, y \in Nat : <<x, y>> \in R <=> x < y
             /\ \E m \in S : \A n \in S : ~(<<n, m>> \in R)
  <2>1. \E m \in S : \A n \in S : ~(<<n, m>> \in OpToRel(<, Nat))
    BY NatLessThanWellFounded, WFMin
  <2>2. \A x, y \in Nat : <<x, y>> \in OpToRel(<, Nat) <=> x < y
    BY DEF OpToRel
  <2>3. QED  BY <2>1, <2>2, Zenon
<1>2. PICK R : /\ \A x, y \in Nat : <<x, y>> \in R <=> x < y
               /\ \E m \in S : \A n \in S : ~(<<n, m>> \in R)
  BY <1>1
<1>3. PICK m \in S : \A n \in S : ~(<<n, m>> \in R)
  BY <1>2
<1>4. \A n \in S : ~(n < m)
  BY <1>2, <1>3
<1>5. QED  BY <1>4

LEMMA MinFacts ==
    ASSUME NEW S \in SUBSET Nat, S # {}
    PROVE  Min(S) \in S /\ \A n \in S : Min(S) <= n
BY LeastNatural DEF Min

LEMMA WordFacts == Word \in Nat /\ Word >= 1
BY MemoryAssumption

\* Position i lies in word i \div Word and in no other.
LEMMA InItsWord ==
    ASSUME NEW i \in Nat
    PROVE  i \div Word \in Nat /\ i \in InWord(i \div Word)
<1>1. Word \in Nat /\ Word >= 1
  BY WordFacts
<1>2. i = Word * (i \div Word) + (i % Word) /\ (i % Word) \in 0 .. Word - 1 /\ i \div Word \in Nat
  BY <1>1
<1>3. QED  BY <1>1, <1>2 DEF InWord

LEMMA WordIn ==
    ASSUME NEW w \in Nat, NEW n \in Nat, w < n
    PROVE  InWord(w) \subseteq 0 .. n * Word - 1 /\ InWord(w) # {}
           /\ \A i \in InWord(w) : i \in Nat /\ i \div Word = w
<1>1. Word \in Nat /\ Word >= 1
  BY WordFacts
<1>2. w * Word \in Nat /\ n * Word \in Nat /\ (w + 1) * Word <= n * Word
  BY <1>1
<1>3. (w + 1) * Word = w * Word + Word
  BY <1>1
<1>4. InWord(w) \subseteq 0 .. n * Word - 1 /\ InWord(w) # {}
  <2>1. w * Word \in InWord(w)
    BY <1>1, <1>2 DEF InWord
  <2>2. ASSUME NEW i \in InWord(w)  PROVE i \in 0 .. n * Word - 1
    <3>1. i \in Int /\ w * Word <= i /\ i < w * Word + Word
      BY <1>1, <1>2 DEF InWord
    <3> DEFINE a == w * Word
               b == n * Word
    <3>2. /\ i \in Int /\ a <= i /\ i < a + Word /\ a \in Nat /\ b \in Nat /\ a + Word <= b
          /\ Word \in Nat
      BY <1>1, <1>2, <1>3, <3>1
    <3> HIDE DEF a, b
    <3>3. i \in 0 .. b - 1
      BY <3>2
    <3>4. QED  BY <3>3 DEF b
  <2>3. QED  BY <2>1, <2>2
<1>5. ASSUME NEW i \in InWord(w)  PROVE i \in Nat /\ i \div Word = w
  <2>1. i \in Int /\ w * Word <= i /\ i < w * Word + Word
    BY <1>1, <1>2 DEF InWord
  <2>2. i - w * Word \in 0 .. Word - 1 /\ i = w * Word + (i - w * Word)
    BY <1>1, <1>2, <2>1
  <2>3. QED  BY <1>1, <1>2, <2>1, <2>2
<1>6. QED  BY <1>4, <1>5

LEMMA WordBelow ==
    ASSUME NEW n \in Nat, NEW i \in 0 .. n * Word - 1
    PROVE  i \in Nat /\ i \div Word \in 0 .. n - 1 /\ i \in InWord(i \div Word)
<1>1. Word \in Nat /\ Word >= 1 /\ n * Word \in Nat
  BY WordFacts
<1>2. i \in Nat /\ i \div Word \in Nat /\ i \in InWord(i \div Word)
  BY <1>1, InItsWord
<1> DEFINE w == i \div Word
<1>3. w * Word <= i /\ w \in Nat
  BY <1>1, <1>2 DEF InWord
<1> HIDE DEF w
<1>4. w < n
  <2>1. SUFFICES ASSUME w >= n PROVE FALSE
    BY <1>3
  <2>2. n * Word <= w * Word
    BY <1>1, <1>3, <2>1
  <2>3. QED  BY <1>1, <1>2, <1>3, <2>2
<1>5. QED  BY <1>2, <1>3, <1>4 DEF w

LEMMA ClassFacts ==
    ASSUME NEW k \in Classes
    PROVE  /\ Sizes[k] \in Nat /\ Words(k) \in Nat
           /\ Words(k) * Word \in Nat /\ Words(k) * Word <= Sizes[k]
<1>1. Word \in Nat /\ Word >= 1 /\ Sizes[k] \in Nat
  BY MemoryAssumption DEF Classes
<1> DEFINE s == Sizes[k]
<1> HIDE DEF s
<1>2. s = Word * (s \div Word) + (s % Word) /\ (s % Word) \in 0 .. Word - 1
      /\ s \div Word \in Nat
  BY <1>1 DEF s
<1>3. Word * (s \div Word) = (s \div Word) * Word /\ (s \div Word) * Word \in Nat
  BY <1>1, <1>2
<1>4. QED  BY <1>1, <1>2, <1>3 DEF Words, s

LEMMA CellIs == \A c : c \in Cells <=>
                        \E k \in Classes : \E i \in Positions(k) : c = <<k, i>>
BY DEF Cells

LEMMA CellFacts ==
    ASSUME NEW c \in Cells
    PROVE  c[1] \in Classes /\ c[2] \in Positions(c[1]) /\ c = <<c[1], c[2]>> /\ c # Empty
<1>1. PICK k \in Classes : \E i \in Positions(k) : c = <<k, i>>
  BY CellIs
<1>2. QED  BY <1>1 DEF Empty

-----------------------------------------------------------------------------
(* TranMemPool: one pool of class k. *)

PoolType(k) ==
    [bits : SUBSET Nat, used : SUBSET Nat, ref : [Positions(k) -> Nat],
     last : Nat, usedNum : Nat, freeNum : Int]

\* The words the search looks at: those of the bitmap, and the first one of a pool
\* that has no bitmap.
Searched(w, k) == w < Words(k) \/ (Words(k) = 0 /\ w = 0)
Covered(k) == {i \in Positions(k) : Searched(i \div Word, k)}

\* Bitmap, flags, references and counters agree.  All buffers in use, and the
\* position the next search starts from, lie in words that are searched.
PoolOk(p, k) ==
    /\ p \in PoolType(k)
    /\ Searched(p.last \div Word, k)
    /\ p.used \subseteq p.bits /\ (Words(k) > 0 => p.bits = p.used)
    /\ p.used = {i \in Positions(k) : p.ref[i] > 0}
    /\ p.used \subseteq Covered(k)
    /\ p.usedNum = Cardinality(p.used)
    /\ p.freeNum = Sizes[k] - p.usedNum

LEMMA UsedFinite ==
    ASSUME NEW k \in Classes, NEW p, PoolOk(p, k)
    PROVE  IsFiniteSet(p.used) /\ p.used \subseteq Nat
<1>1. Sizes[k] \in Nat
  BY ClassFacts
<1>2. IsFiniteSet(Positions(k)) /\ Positions(k) \subseteq Nat
  BY <1>1, FS_Interval DEF Positions
<1>3. p.used \subseteq Positions(k)
  BY DEF PoolOk, Covered
<1>4. QED  BY <1>2, <1>3, FS_Subset

\* The search finds a free position, and finds none only when all words are full.
LEMMA FreeElementFacts ==
    ASSUME NEW k \in Classes, NEW p, PoolOk(p, k)
    PROVE  /\ \A i \in FreeElement(p, k) : i \in Covered(k) /\ i \in Positions(k) /\ i \notin p.bits
           /\ FreeElement(p, k) = {} => 0 .. Words(k) * Word - 1 \subseteq p.used
<1> DEFINE words == IF FullWord(p.bits, p.last \div Word)
                    THEN {w \in 0 .. Words(k) - 1 : ~FullWord(p.bits, w)}
                    ELSE {p.last \div Word}
           n == Words(k)
<1>1. /\ n \in Nat /\ n * Word \in Nat /\ Sizes[k] \in Nat /\ n * Word <= Sizes[k]
      /\ (n > 0 => p.bits = p.used) /\ p.last \in Nat /\ Searched(p.last \div Word, k)
  BY ClassFacts DEF PoolOk, PoolType
<1>2. p.last \div Word \in Nat
  BY <1>1, InItsWord
<1>3. words \subseteq Nat /\ \A w \in words : ~FullWord(p.bits, w) /\ Searched(w, k)
  BY <1>1, <1>2 DEF Searched
<1>4. FreeElement(p, k)
        = IF words = {} THEN {} ELSE {Min(InWord(Min(words)) \ p.bits)} \cap Positions(k)
  BY DEF FreeElement
<1>5. CASE words # {}
  <2> DEFINE w == Min(words)
             free == InWord(w) \ p.bits
  <2>1. w \in words
    BY <1>3, <1>5, MinFacts
  <2>2. w \in Nat /\ Searched(w, k) /\ ~FullWord(p.bits, w)
    BY <1>3, <2>1
  <2>3. FreeElement(p, k) = {Min(free)} \cap Positions(k)
    BY <1>4, <1>5
  <2> HIDE DEF w, words
  <2>4. \A i \in InWord(w) : i \in Nat /\ i \div Word = w
    <3>1. w + 1 \in Nat /\ w < w + 1
      BY <2>2
    <3>2. QED  BY <2>2, <3>1, WordIn
  <2>5. free \subseteq Nat /\ free # {}
    BY <2>2, <2>4 DEF FullWord
  <2>6. Min(free) \in InWord(w) /\ Min(free) \notin p.bits
    BY <2>5, MinFacts
  <2>7. Min(free) \div Word = w
    BY <2>4, <2>6
  <2> HIDE DEF free
  <2>8. \A i \in FreeElement(p, k) : i \in Covered(k) /\ i \in Positions(k) /\ i \notin p.bits
    BY <2>2, <2>3, <2>6, <2>7 DEF Covered
  <2>9. ASSUME n > 0  PROVE FreeElement(p, k) # {}
    <3>1. w < n
      BY <1>1, <2>2, <2>9 DEF Searched
    <3>2. Min(free) \in 0 .. n * Word - 1
      BY <1>1, <2>2, <2>6, <3>1, WordIn
    <3>3. Min(free) \in Positions(k)
      BY <1>1, <3>2 DEF Positions
    <3>4. QED  BY <2>3, <3>3
  <2>10. ASSUME n = 0  PROVE 0 .. n * Word - 1 = {}
    BY <2>10, WordFacts
  <2>11. n > 0 \/ n = 0
    BY <1>1
  <2>12. QED  BY <2>8, <2>9, <2>10, <2>11
<1>6. CASE words = {}
  <2>1. \A w \in 0 .. n - 1 : FullWord(p.bits, w)
    BY <1>1, <1>6
  <2>2. ASSUME NEW i \in 0 .. n * Word - 1  PROVE i \in p.used
    <3>1. i \div Word \in 0 .. n - 1 /\ i \in InWord(i \div Word)
      BY <1>1, WordBelow
    <3>2. n > 0
      BY <1>1, <3>1
    <3>3. QED  BY <1>1, <2>1, <3>1, <3>2 DEF FullWord
  <2>3. QED  BY <1>4, <1>6, <2>2
<1>7. QED  BY <1>5, <1>6

LEMMA PoolFields ==
    ASSUME NEW k, NEW p \in PoolType(k)
    PROVE  /\ p.bits \subseteq Nat /\ p.used \subseteq Nat /\ p.ref \in [Positions(k) -> Nat]
           /\ p.last \in Nat /\ p.usedNum \in Nat /\ p.freeNum \in Int
BY DEF PoolType

LEMMA PoolMade ==
    ASSUME NEW k, NEW b \in SUBSET Nat, NEW u \in SUBSET Nat, NEW r \in [Positions(k) -> Nat],
           NEW l \in Nat, NEW n \in Nat, NEW f \in Int
    PROVE  [bits |-> b, used |-> u, ref |-> r, last |-> l, usedNum |-> n, freeNum |-> f]
             \in PoolType(k)
BY DEF PoolType

LEMMA RefFields ==
    ASSUME NEW k, NEW p \in PoolType(k), NEW i \in Positions(k), NEW n \in Nat
    PROVE  LET q == [p EXCEPT !.ref[i] = n] IN
           /\ q.bits = p.bits /\ q.used = p.used /\ q.last = p.last /\ q.usedNum = p.usedNum
           /\ q.freeNum = p.freeNum /\ q.ref = [p.ref EXCEPT ![i] = n] /\ q.ref[i] = n
           /\ q \in PoolType(k)
BY DEF PoolType

LEMMA TakeOk ==
    ASSUME NEW k \in Classes, NEW p, PoolOk(p, k), NEW i \in FreeElement(p, k)
    PROVE  /\ PoolOk(TakeElement(p, i), k) /\ i \in Positions(k)
           /\ TakeElement(p, i).ref = [p.ref EXCEPT ![i] = 1]
<1>1. i \in Covered(k) /\ i \in Positions(k) /\ i \notin p.bits
  BY FreeElementFacts
<1>2. /\ p \in PoolType(k) /\ p.used \subseteq p.bits /\ (Words(k) > 0 => p.bits = p.used)
      /\ p.usedNum = Cardinality(p.used)
      /\ p.used = {j \in Positions(k) : p.ref[j] > 0} /\ Sizes[k] \in Nat
      /\ p.freeNum = Sizes[k] - p.usedNum /\ p.used \subseteq Covered(k)
  BY ClassFacts DEF PoolOk
<1>3. /\ p.used \subseteq Nat /\ p.bits \subseteq Nat /\ p.ref \in [Positions(k) -> Nat]
      /\ p.usedNum \in Nat /\ p.freeNum \in Int
  BY <1>2, PoolFields
<1>4. i \in Nat
  BY <1>1 DEF Positions
<1> DEFINE q == TakeElement(p, i)
<1>5. /\ q.bits = p.bits \cup {i} /\ q.used = p.used \cup {i} /\ q.ref = [p.ref EXCEPT ![i] = 1]
      /\ q.last = i /\ q.usedNum = p.usedNum + 1 /\ q.freeNum = p.freeNum - 1
  BY DEF TakeElement
<1>6. q \in PoolType(k)
  <2>1. p.used \cup {i} \in SUBSET Nat /\ p.bits \cup {i} \in SUBSET Nat
    BY <1>3, <1>4
  <2>2. [p.ref EXCEPT ![i] = 1] \in [Positions(k) -> Nat]
    BY <1>3
  <2>3. p.usedNum + 1 \in Nat /\ p.freeNum - 1 \in Int
    <3>1. p.usedNum \in Nat /\ p.freeNum \in Int
      BY <1>3
    <3>2. QED  BY <3>1
  <2>4. q = [bits |-> p.bits \cup {i}, used |-> p.used \cup {i}, ref |-> [p.ref EXCEPT ![i] = 1],
             last |-> i, usedNum |-> p.usedNum + 1, freeNum |-> p.freeNum - 1]
    BY DEF TakeElement
  <2> HIDE DEF q
  <2>5. QED  BY <1>4, <2>1, <2>2, <2>3, <2>4, PoolMade, Zenon
<1> HIDE DEF q
<1>7. Cardinality(q.used) = Cardinality(p.used) + 1
  <2>1. IsFiniteSet(p.used)
    BY UsedFinite
  <2>2. Cardinality(p.used \cup {i}) = Cardinality(p.used) + 1
    BY <1>1, <1>2, <2>1, FS_AddElement
  <2>3. QED  BY <1>5, <2>2, Zenon
<1>8. q.used = {j \in Positions(k) : q.ref[j] > 0}
  BY <1>1, <1>2, <1>3, <1>5
<1>9. q.freeNum = Sizes[k] - q.usedNum /\ q.usedNum = Cardinality(q.used)
  <2>1. /\ q.freeNum = p.freeNum - 1 /\ q.usedNum = p.usedNum + 1 /\ p.freeNum = Sizes[k] - p.usedNum
        /\ p.usedNum \in Nat /\ p.freeNum \in Int /\ Sizes[k] \in Nat
    BY <1>2, <1>3, <1>5, Zenon
  <2>2. q.freeNum = Sizes[k] - q.usedNum
    BY <2>1
  <2>3. q.usedNum = Cardinality(q.used)
    BY <1>2, <1>5, <1>7, Zenon
  <2>4. QED  BY <2>2, <2>3
<1>10. /\ Searched(q.last \div Word, k) /\ q.used \subseteq Covered(k)
       /\ q.used \subseteq q.bits /\ (Words(k) > 0 => q.bits = q.used)
  BY <1>1, <1>2, <1>5 DEF Covered
<1>11. PoolOk(q, k)
  BY <1>6, <1>8, <1>9, <1>10 DEF PoolOk
<1>12. QED  BY <1>1, <1>5, <1>11 DEF q

\* A count of references may go up and down as long as it stays above zero.
LEMMA CountOk ==
    ASSUME NEW k \in Classes, NEW p, PoolOk(p, k), NEW i \in Positions(k), p.ref[i] > 0,
           NEW n \in Nat, n > 0
    PROVE  LET q == [p EXCEPT !.ref[i] = n] IN
           PoolOk(q, k) /\ q.ref = [p.ref EXCEPT ![i] = n]
<1>1. p \in PoolType(k) /\ p.used = {j \in Positions(k) : p.ref[j] > 0}
  BY DEF PoolOk
<1>2. p.ref \in [Positions(k) -> Nat]
  BY <1>1, PoolFields
<1> DEFINE q == [p EXCEPT !.ref[i] = n]
<1>3. /\ q.bits = p.bits /\ q.used = p.used /\ q.last = p.last /\ q.usedNum = p.usedNum
      /\ q.freeNum = p.freeNum /\ q.ref = [p.ref EXCEPT ![i] = n] /\ q \in PoolType(k)
  BY <1>1, RefFields
<1> HIDE DEF q
<1>4. q.used = {j \in Positions(k) : q.ref[j] > 0}
  BY <1>1, <1>2, <1>3
<1>5. PoolOk(q, k)
  BY <1>3, <1>4 DEF PoolOk
<1>6. QED  BY <1>3, <1>5 DEF q

\* A reference more, of a buffer in use; others keep the count 0.
LEMMA AddOk ==
    ASSUME NEW k \in Classes, NEW p, PoolOk(p, k), NEW i \in Positions(k)
    PROVE  \E n \in 0 .. p.ref[i] + 1 :
              LET q == AddElementRef(p, i) IN PoolOk(q, k) /\ q.ref = [p.ref EXCEPT ![i] = n]
<1>1. p.ref \in [Positions(k) -> Nat] /\ p.used = {j \in Positions(k) : p.ref[j] > 0}
  BY PoolFields DEF PoolOk
<1>2. p.ref[i] \in Nat
  BY <1>1
<1>3. CASE i \in p.used
  <2> DEFINE n == p.ref[i] + 1
  <2>1. n \in Nat /\ n > 0 /\ p.ref[i] > 0 /\ n \in 0 .. p.ref[i] + 1
    BY <1>1, <1>2, <1>3
  <2> HIDE DEF n
  <2>2. LET q == [p EXCEPT !.ref[i] = n] IN PoolOk(q, k) /\ q.ref = [p.ref EXCEPT ![i] = n]
    BY <2>1, CountOk
  <2>3. AddElementRef(p, i) = [p EXCEPT !.ref[i] = n]
    BY <1>3 DEF n, AddElementRef
  <2>4. QED  BY <2>1, <2>2, <2>3
<1>4. CASE i \notin p.used
  <2> DEFINE n == p.ref[i]
  <2>1. n \in 0 .. p.ref[i] + 1
    BY <1>2
  <2>2. p.ref = [p.ref EXCEPT ![i] = n]
    BY <1>1
  <2>3. AddElementRef(p, i) = p
    BY <1>4 DEF AddElementRef
  <2> HIDE DEF n
  <2>4. QED  BY <2>1, <2>2, <2>3
<1>5. QED  BY <1>3, <1>4

\* The last reference goes: the buffer is free again.
LEMMA LastOk ==
    ASSUME NEW k \in Classes, NEW p, PoolOk(p, k), NEW i \in p.used, p.ref[i] = 1
    PROVE  /\ PoolOk(FreeElementRef(p, i), k)
           /\ FreeElementRef(p, i).ref = [p.ref EXCEPT ![i] = 0]
<1>1. /\ p \in PoolType(k) /\ p.used \subseteq p.bits /\ (Words(k) > 0 => p.bits = p.used)
      /\ p.usedNum = Cardinality(p.used)
      /\ p.used = {j \in Positions(k) : p.ref[j] > 0} /\ Sizes[k] \in Nat
      /\ p.freeNum = Sizes[k] - p.usedNum /\ p.used \subseteq Covered(k)
  BY ClassFacts DEF PoolOk
<1>2. /\ p.used \subseteq Nat /\ p.bits \subseteq Nat /\ p.ref \in [Positions(k) -> Nat]
      /\ p.usedNum \in Nat /\ p.freeNum \in Int
  BY <1>1, PoolFields
<1>3. i \in Nat /\ i \in Covered(k) /\ Searched(i \div Word, k)
  BY <1>1, <1>2 DEF Covered
<1> DEFINE z == FreeElementRef(p, i)
<1>4. /\ z.bits = p.bits \ {i} /\ z.used = p.used \ {i} /\ z.ref = [p.ref EXCEPT ![i] = 0]
      /\ z.last = i /\ z.usedNum = p.usedNum - 1 /\ z.freeNum = p.freeNum + 1
      /\ z = [bits |-> p.bits \ {i}, used |-> p.used \ {i}, ref |-> [p.ref EXCEPT ![i] = 0],
              last |-> i, usedNum |-> p.usedNum - 1, freeNum |-> p.freeNum + 1]
  <2>1. ~(p.ref[i] > 1)
    OBVIOUS
  <2>2. QED  BY <2>1 DEF FreeElementRef
<1> HIDE DEF z
<1>5. IsFiniteSet(p.used)
  BY UsedFinite
<1>6. Cardinality(p.used \ {i}) = Cardinality(p.used) - 1
  BY <1>5, FS_RemoveElement
<1>7. p.usedNum - 1 \in Nat
  <2>1. Cardinality(p.used) # 0
    BY <1>5, FS_EmptySet
  <2>2. QED  BY <1>1, <1>2, <2>1
<1>8. z \in PoolType(k)
  <2>1. p.used \ {i} \in SUBSET Nat /\ p.bits \ {i} \in SUBSET Nat
    BY <1>2
  <2>2. [p.ref EXCEPT ![i] = 0] \in [Positions(k) -> Nat]
    BY <1>2
  <2>3. p.freeNum + 1 \in Int
    <3>1. p.freeNum \in Int
      BY <1>2
    <3>2. QED  BY <3>1
  <2>4. z = [bits |-> p.bits \ {i}, used |-> p.used \ {i}, ref |-> [p.ref EXCEPT ![i] = 0],
             last |-> i, usedNum |-> p.usedNum - 1, freeNum |-> p.freeNum + 1]
    BY <1>4
  <2>5. QED  BY <1>3, <1>7, <2>1, <2>2, <2>3, <2>4, PoolMade, Zenon
<1>9. z.used = {j \in Positions(k) : z.ref[j] > 0}
  BY <1>1, <1>2, <1>4
<1>10. z.freeNum = Sizes[k] - z.usedNum /\ z.usedNum = Cardinality(z.used)
  <2>1. /\ z.freeNum = p.freeNum + 1 /\ z.usedNum = p.usedNum - 1 /\ p.freeNum = Sizes[k] - p.usedNum
        /\ p.usedNum \in Nat /\ p.freeNum \in Int /\ Sizes[k] \in Nat
    BY <1>1, <1>2, <1>4, Zenon
  <2>2. z.freeNum = Sizes[k] - z.usedNum
    BY <2>1
  <2>3. z.usedNum = Cardinality(z.used)
    BY <1>1, <1>4, <1>6, Zenon
  <2>4. QED  BY <2>2, <2>3
<1>11. /\ Searched(z.last \div Word, k) /\ z.used \subseteq Covered(k)
       /\ z.used \subseteq z.bits /\ (Words(k) > 0 => z.bits = z.used)
  BY <1>1, <1>3, <1>4
<1>12. PoolOk(z, k)
  BY <1>8, <1>9, <1>10, <1>11 DEF PoolOk
<1>13. QED  BY <1>4, <1>12 DEF z

\* A reference less, or still none.
LEMMA FreeOk ==
    ASSUME NEW k \in Classes, NEW p, PoolOk(p, k), NEW i \in Positions(k)
    PROVE  \E n \in Nat :
              /\ n = 0 \/ n + 1 = p.ref[i]
              /\ LET q == FreeElementRef(p, i) IN PoolOk(q, k) /\ q.ref = [p.ref EXCEPT ![i] = n]
<1>1. p.ref \in [Positions(k) -> Nat] /\ p.used = {j \in Positions(k) : p.ref[j] > 0}
  BY PoolFields DEF PoolOk
<1>2. p.ref[i] \in Nat
  BY <1>1
<1>3. CASE p.ref[i] > 1
  <2> DEFINE n == p.ref[i] - 1
  <2>1. n \in Nat /\ n > 0 /\ p.ref[i] > 0 /\ n + 1 = p.ref[i]
    BY <1>2, <1>3
  <2>3. FreeElementRef(p, i) = [p EXCEPT !.ref[i] = n]
    BY <1>3 DEF n, FreeElementRef
  <2> HIDE DEF n
  <2>2. LET q == [p EXCEPT !.ref[i] = n] IN PoolOk(q, k) /\ q.ref = [p.ref EXCEPT ![i] = n]
    BY <2>1, CountOk
  <2>4. QED  BY <2>1, <2>2, <2>3
<1>4. CASE p.ref[i] = 1
  <2>1. i \in p.used
    BY <1>1, <1>4
  <2>2. /\ PoolOk(FreeElementRef(p, i), k)
        /\ FreeElementRef(p, i).ref = [p.ref EXCEPT ![i] = 0]
    BY <1>4, <2>1, LastOk
  <2>3. QED  BY <2>2
<1>5. CASE p.ref[i] = 0
  <2>1. i \notin p.used /\ ~(p.ref[i] > 1)
    BY <1>1, <1>5
  <2>2. FreeElementRef(p, i) = p
    BY <2>1 DEF FreeElementRef
  <2>3. p.ref = [p.ref EXCEPT ![i] = 0]
    BY <1>1, <1>5
  <2>4. QED  BY <2>2, <2>3
<1>6. p.ref[i] > 1 \/ p.ref[i] = 1 \/ p.ref[i] = 0
  BY <1>2
<1>7. QED  BY <1>3, <1>4, <1>5, <1>6, Zenon

-----------------------------------------------------------------------------
(* The state of an instance. *)

IsMem(m) == m = [pool |-> m.pool, node |-> m.node, app |-> m.app, arq |-> m.arq, at |-> m.at]

LEMMA SetPool ==
    ASSUME NEW m, IsMem(m), NEW v
    PROVE  LET q == [m EXCEPT !.pool = v] IN
           IsMem(q) /\ q.pool = v /\ q.node = m.node /\ q.app = m.app /\ q.arq = m.arq /\ q.at = m.at
BY DEF IsMem

LEMMA SetNode ==
    ASSUME NEW m, IsMem(m), NEW v
    PROVE  LET q == [m EXCEPT !.node = v] IN
           IsMem(q) /\ q.pool = m.pool /\ q.node = v /\ q.app = m.app /\ q.arq = m.arq /\ q.at = m.at
BY DEF IsMem

LEMMA SetApp ==
    ASSUME NEW m, IsMem(m), NEW v
    PROVE  LET q == [m EXCEPT !.app = v] IN
           IsMem(q) /\ q.pool = m.pool /\ q.node = m.node /\ q.app = v /\ q.arq = m.arq /\ q.at = m.at
BY DEF IsMem

LEMMA SetArq ==
    ASSUME NEW m, IsMem(m), NEW v
    PROVE  LET q == [m EXCEPT !.arq = v] IN
           IsMem(q) /\ q.pool = m.pool /\ q.node = m.node /\ q.app = m.app /\ q.arq = v /\ q.at = m.at
BY DEF IsMem

LEMMA SetAt ==
    ASSUME NEW m, IsMem(m), NEW v
    PROVE  LET q == [m EXCEPT !.at = v] IN
           IsMem(q) /\ q.pool = m.pool /\ q.node = m.node /\ q.app = m.app /\ q.arq = m.arq /\ q.at = v
BY DEF IsMem

\* Only the pool of cell c changes: its record becomes p.
PoolIs(z, m, c, p) ==
    /\ IsMem(z) /\ z.pool = [m.pool EXCEPT ![c[1]] = p]
    /\ z.node = m.node /\ z.app = m.app /\ z.arq = m.arq /\ z.at = m.at

LEMMA TakenFields ==
    ASSUME NEW m, IsMem(m), NEW c
    PROVE  PoolIs(Taken(m, c), m, c, TakeElement(m.pool[c[1]], c[2]))
<1> DEFINE v == [m.pool EXCEPT ![c[1]] = TakeElement(m.pool[c[1]], c[2])]
<1>1. Taken(m, c) = [m EXCEPT !.pool = v]
  BY DEF Taken
<1> HIDE DEF v
<1>2. LET q == [m EXCEPT !.pool = v] IN
      IsMem(q) /\ q.pool = v /\ q.node = m.node /\ q.app = m.app /\ q.arq = m.arq /\ q.at = m.at
  BY SetPool
<1>3. QED  BY <1>1, <1>2 DEF PoolIs, v

LEMMA AddedFields ==
    ASSUME NEW m, IsMem(m), NEW c
    PROVE  PoolIs(RefAddOne(m, c), m, c, AddElementRef(m.pool[c[1]], c[2]))
<1> DEFINE v == [m.pool EXCEPT ![c[1]] = AddElementRef(m.pool[c[1]], c[2])]
<1>1. RefAddOne(m, c) = [m EXCEPT !.pool = v]
  BY DEF RefAddOne
<1> HIDE DEF v
<1>2. LET q == [m EXCEPT !.pool = v] IN
      IsMem(q) /\ q.pool = v /\ q.node = m.node /\ q.app = m.app /\ q.arq = m.arq /\ q.at = m.at
  BY SetPool
<1>3. QED  BY <1>1, <1>2 DEF PoolIs, v

LEMMA FreedFields ==
    ASSUME NEW m, IsMem(m), NEW c
    PROVE  PoolIs(FreeTranBuf(m, c), m, c, FreeElementRef(m.pool[c[1]], c[2]))
<1> DEFINE v == [m.pool EXCEPT ![c[1]] = FreeElementRef(m.pool[c[1]], c[2])]
<1>1. FreeTranBuf(m, c) = [m EXCEPT !.pool = v]
  BY DEF FreeTranBuf
<1> HIDE DEF v
<1>2. LET q == [m EXCEPT !.pool = v] IN
      IsMem(q) /\ q.pool = v /\ q.node = m.node /\ q.app = m.app /\ q.arq = m.arq /\ q.at = m.at
  BY SetPool
<1>3. QED  BY <1>1, <1>2 DEF PoolIs, v

-----------------------------------------------------------------------------
(* The inductive invariant: pools, holders, nodes, and the counts of both. *)

PoolsOk(m) ==
    /\ m.pool = [k \in Classes |-> m.pool[k]]
    /\ \A k \in Classes : PoolOk(m.pool[k], k)

HoldersOk(m) ==
    /\ m.app \in [Cells -> Nat]
    /\ m.arq \subseteq [node : Nodes, cell : Cells] /\ IsFiniteSet(m.arq)
    /\ m.at \in [Places -> Cells \cup {Empty}]

\* A node is listed once, and the node pool knows exactly the listed ones.
NodesOk(n, arq) ==
    /\ n.quote \in [Nodes -> Nat] /\ n.last \in Nodes
    /\ n.bits = n.used /\ n.used = {e.node : e \in arq}
    /\ \A i \in n.used : n.quote[i] = 1
    /\ n.using = Cardinality(arq) /\ n.using = Cardinality(n.used)
    /\ \A e, f \in arq : e.node = f.node => e = f

InHand(c, h) == IF c = h THEN 1 ELSE 0
CountsOk(m, h) == \A c \in Cells : RefIn(m, c) <= HoldersIn(m, c) + InHand(c, h)

Good(m, h) ==
    /\ IsMem(m) /\ PoolsOk(m) /\ HoldersOk(m) /\ NodesOk(m.node, m.arq)
    /\ h \in Cells \cup {Empty} /\ CountsOk(m, h)

\* Nothing is in hand between calls.
Inv == Good(mem, Empty)

LEMMA PlacesFinite == IsFiniteSet(Places)
<1>1. IsFiniteSet(Slots)
  BY MemoryAssumption
<1>2. IsFiniteSet({"parity", "line", "reorder"})
  <2>1. {"parity", "line", "reorder"} = ({"parity"} \cup {"line"}) \cup {"reorder"}
    OBVIOUS
  <2>2. IsFiniteSet({"parity"}) /\ IsFiniteSet({"line"}) /\ IsFiniteSet({"reorder"})
    BY FS_Singleton
  <2>3. IsFiniteSet({"parity"} \cup {"line"})
    BY <2>2, FS_Union
  <2>4. IsFiniteSet(({"parity"} \cup {"line"}) \cup {"reorder"})
    BY <2>2, <2>3, FS_Union, Zenon
  <2>5. QED  BY <2>1, <2>4, Zenon
<1>3. QED  BY <1>1, <1>2, FS_Union DEF Places

LEMMA HoldersNat ==
    ASSUME NEW m, HoldersOk(m), NEW c \in Cells
    PROVE  /\ m.app[c] \in Nat /\ IsFiniteSet({e \in m.arq : e.cell = c})
           /\ IsFiniteSet({x \in Places : m.at[x] = c})
           /\ Cardinality({e \in m.arq : e.cell = c}) \in Nat
           /\ Cardinality({x \in Places : m.at[x] = c}) \in Nat
           /\ HoldersIn(m, c) \in Nat /\ HoldersIn(m, c) >= m.app[c]
<1>1. m.app[c] \in Nat
  BY DEF HoldersOk
<1>2. IsFiniteSet({e \in m.arq : e.cell = c}) /\ IsFiniteSet({x \in Places : m.at[x] = c})
  <2>1. IsFiniteSet(m.arq) /\ IsFiniteSet(Places)
    BY PlacesFinite DEF HoldersOk
  <2>2. {e \in m.arq : e.cell = c} \subseteq m.arq /\ {x \in Places : m.at[x] = c} \subseteq Places
    OBVIOUS
  <2>3. QED  BY <2>1, <2>2, FS_Subset
<1> DEFINE a == Cardinality({e \in m.arq : e.cell = c})
           b == Cardinality({x \in Places : m.at[x] = c})
<1>3. a \in Nat /\ b \in Nat
  BY <1>2, FS_CardinalityType
<1>4. HoldersIn(m, c) = m.app[c] + a + b
  BY DEF HoldersIn
<1> DEFINE n == m.app[c]
<1>5. HoldersIn(m, c) = n + a + b /\ n \in Nat
  BY <1>1, <1>4
<1> HIDE DEF a, b, n
<1>6. HoldersIn(m, c) \in Nat /\ HoldersIn(m, c) >= n
  BY <1>3, <1>5
<1>7. QED  BY <1>1, <1>2, <1>3, <1>6 DEF a, b, n

-----------------------------------------------------------------------------
(* Moves of one reference. *)

\* p is the pool of c with count v for c.
Recounted(p, m, c, v) == PoolOk(p, c[1]) /\ p.ref = [m.pool[c[1]].ref EXCEPT ![c[2]] = v]

\* The pool of c gets another count for c and keeps those of all other cells.
LEMMA PoolMove ==
    ASSUME NEW m, PoolsOk(m), NEW c \in Cells, NEW p, NEW v, Recounted(p, m, c, v),
           NEW z, PoolIs(z, m, c, p)
    PROVE  PoolsOk(z) /\ RefIn(z, c) = v /\ \A d \in Cells : d # c => RefIn(z, d) = RefIn(m, d)
<1>1. c[1] \in Classes /\ c[2] \in Positions(c[1]) /\ c = <<c[1], c[2]>>
  BY CellFacts
<1>2. m.pool = [k \in Classes |-> m.pool[k]] /\ z.pool = [m.pool EXCEPT ![c[1]] = p]
  BY DEF PoolsOk, PoolIs
<1>3. z.pool[c[1]] = p /\ \A k \in Classes : k # c[1] => z.pool[k] = m.pool[k]
  BY <1>1, <1>2
<1>4. z.pool = [k \in Classes |-> z.pool[k]]
  BY <1>1, <1>2
<1>5. PoolsOk(z)
  <2>1. ASSUME NEW k \in Classes  PROVE PoolOk(z.pool[k], k)
    BY <1>3 DEF PoolsOk, Recounted
  <2>2. QED  BY <1>4, <2>1 DEF PoolsOk
<1> DEFINE r == m.pool[c[1]].ref
<1>6. r \in [Positions(c[1]) -> Nat]
  BY <1>1, PoolFields DEF PoolsOk, PoolOk
<1> HIDE DEF r
<1>7. p.ref = [r EXCEPT ![c[2]] = v]
  BY DEF r, Recounted
<1>8. RefIn(z, c) = v
  BY <1>1, <1>3, <1>6, <1>7 DEF RefIn
<1>9. ASSUME NEW d \in Cells, d # c  PROVE RefIn(z, d) = RefIn(m, d)
  <2>1. d[1] \in Classes /\ d[2] \in Positions(d[1]) /\ d = <<d[1], d[2]>>
    BY CellFacts
  <2>2. CASE d[1] # c[1]
    BY <1>3, <2>1, <2>2 DEF RefIn
  <2>3. CASE d[1] = c[1]
    <3>1. d[2] # c[2]
      BY <1>1, <1>9, <2>1, <2>3
    <3>2. p.ref[d[2]] = r[d[2]]
      BY <1>6, <1>7, <2>1, <2>3, <3>1
    <3>3. QED  BY <1>3, <2>3, <3>2 DEF RefIn, r
  <2>4. QED  BY <2>2, <2>3
<1>10. QED  BY <1>5, <1>8, <1>9

LEMMA Recount ==
    ASSUME NEW m, NEW h, Good(m, h), NEW c \in Cells, NEW p, NEW v, Recounted(p, m, c, v),
           NEW z, PoolIs(z, m, c, p), NEW g \in Cells \cup {Empty},
           v <= HoldersIn(m, c) + InHand(c, g),
           \A d \in Cells : d # c => InHand(d, g) = InHand(d, h)
    PROVE  Good(z, g)
<1>1. PoolsOk(m)
  BY DEF Good
<1>2. PoolsOk(z) /\ RefIn(z, c) = v /\ \A d \in Cells : d # c => RefIn(z, d) = RefIn(m, d)
  BY <1>1, PoolMove
<1>3. IsMem(z) /\ z.node = m.node /\ z.app = m.app /\ z.arq = m.arq /\ z.at = m.at
  BY DEF PoolIs
<1>4. HoldersOk(z) /\ NodesOk(z.node, z.arq)
  BY <1>3 DEF Good, HoldersOk
<1>5. \A d \in Cells : HoldersIn(z, d) = HoldersIn(m, d)
  BY <1>3 DEF HoldersIn
<1>6. CountsOk(z, g)
  <2>1. SUFFICES ASSUME NEW d \in Cells
                 PROVE  RefIn(z, d) <= HoldersIn(z, d) + InHand(d, g)
    BY DEF CountsOk
  <2>2. CASE d = c
    BY <1>2, <1>5, <2>2
  <2>3. CASE d # c
    <3>1. RefIn(m, d) <= HoldersIn(m, d) + InHand(d, h)
      BY DEF Good, CountsOk
    <3>2. QED  BY <1>2, <1>5, <2>3, <3>1
  <2>4. QED  BY <2>2, <2>3
<1>7. QED  BY <1>2, <1>3, <1>4, <1>6 DEF Good

LEMMA PoolAt ==
    ASSUME NEW m, NEW h, Good(m, h), NEW c \in Cells
    PROVE  /\ c[1] \in Classes /\ c[2] \in Positions(c[1]) /\ PoolOk(m.pool[c[1]], c[1])
           /\ m.pool[c[1]].ref[c[2]] <= HoldersIn(m, c) + InHand(c, h)
           /\ m.pool[c[1]].ref[c[2]] \in Nat
           /\ HoldersIn(m, c) \in Nat /\ IsMem(m) /\ HoldersOk(m)
<1>1. c[1] \in Classes /\ c[2] \in Positions(c[1])
  BY CellFacts
<1>2. PoolsOk(m) /\ IsMem(m) /\ HoldersOk(m) /\ CountsOk(m, h)
  BY DEF Good
<1>3. PoolOk(m.pool[c[1]], c[1])
  BY <1>1, <1>2 DEF PoolsOk
<1>4. m.pool[c[1]].ref[c[2]] <= HoldersIn(m, c) + InHand(c, h)
  BY <1>2 DEF CountsOk, RefIn
<1>5. HoldersIn(m, c) \in Nat
  BY <1>2, HoldersNat
<1> DEFINE r == m.pool[c[1]].ref
<1>6. r \in [Positions(c[1]) -> Nat]
  BY <1>3, PoolFields DEF PoolOk
<1> HIDE DEF r
<1>7. r[c[2]] \in Nat
  BY <1>1, <1>6
<1>8. QED  BY <1>1, <1>2, <1>3, <1>4, <1>5, <1>7 DEF r

LEMMA NotInHand ==
    ASSUME NEW c \in Cells
    PROVE  /\ InHand(c, Empty) = 0 /\ InHand(c, c) = 1
           /\ \A d \in Cells : InHand(d, Empty) = 0
           /\ \A d \in Cells : d # c => InHand(d, c) = InHand(d, Empty)
<1>1. c # Empty /\ \A d \in Cells : d # Empty
  BY CellFacts
<1>2. QED  BY <1>1 DEF InHand

\* MallocTranBuf: a cell nobody holds comes into the hand.
LEMMA MallocFacts ==
    ASSUME NEW m, NEW h, Good(m, h), NEW k \in Classes, NEW c \in MallocTranBuf(m, k)
    PROVE  c \in Cells /\ c[2] \in FreeElement(m.pool[c[1]], c[1])
<1> DEFINE ready == {j \in Classes : j >= k /\ FreeElement(m.pool[j], j) # {}}
           j == Min(ready)
<1>1. ready # {} /\ \E i \in FreeElement(m.pool[j], j) : c = <<j, i>>
  BY DEF MallocTranBuf
<1>2. Classes \subseteq Nat
  BY MemoryAssumption DEF Classes
<1>3. j \in ready
  BY <1>1, <1>2, MinFacts
<1>4. j \in Classes
  BY <1>3
<1> HIDE DEF j
<1>5. PICK i \in FreeElement(m.pool[j], j) : c = <<j, i>>
  BY <1>1
<1>6. PoolOk(m.pool[j], j)
  BY <1>4 DEF Good, PoolsOk
<1>7. i \in Positions(j)
  BY <1>4, <1>6, FreeElementFacts
<1>8. QED  BY <1>4, <1>5, <1>7, CellIs

LEMMA MoveTake ==
    ASSUME NEW m, Good(m, Empty), NEW k \in Classes, NEW c \in MallocTranBuf(m, k)
    PROVE  c \in Cells /\ Good(Taken(m, c), c) /\ Taken(m, c).app = m.app
           /\ Taken(m, c).arq = m.arq /\ Taken(m, c).at = m.at /\ Taken(m, c).node = m.node
<1>1. c \in Cells /\ c[2] \in FreeElement(m.pool[c[1]], c[1])
  BY MallocFacts
<1>2. c[1] \in Classes /\ PoolOk(m.pool[c[1]], c[1]) /\ IsMem(m) /\ HoldersIn(m, c) \in Nat
  BY <1>1, PoolAt
<1> DEFINE p == TakeElement(m.pool[c[1]], c[2])
<1>3. Recounted(p, m, c, 1)
  <2> DEFINE q == m.pool[c[1]]
             i == c[2]
  <2>1. c[1] \in Classes /\ PoolOk(q, c[1]) /\ i \in FreeElement(q, c[1])
    BY <1>1, <1>2
  <2> HIDE DEF q, i
  <2>2. PoolOk(TakeElement(q, i), c[1]) /\ TakeElement(q, i).ref = [q.ref EXCEPT ![i] = 1]
    BY <2>1, TakeOk
  <2>3. QED  BY <2>2 DEF Recounted, q, i
<1>4. PoolIs(Taken(m, c), m, c, p)
  BY <1>2, TakenFields
<1>5. 1 <= HoldersIn(m, c) + InHand(c, c) /\ \A d \in Cells : d # c => InHand(d, c) = InHand(d, Empty)
  BY <1>1, <1>2, NotInHand
<1> HIDE DEF p
<1>6. Good(Taken(m, c), c)
  BY <1>1, <1>3, <1>4, <1>5, Recount
<1>7. QED  BY <1>1, <1>4, <1>6 DEF PoolIs

\* TranBufUseRefAddOne, also on a cell that is not in use any more.
LEMMA MoveAdd ==
    ASSUME NEW m, Good(m, Empty), NEW c \in Cells
    PROVE  Good(RefAddOne(m, c), c) /\ RefAddOne(m, c).app = m.app
           /\ RefAddOne(m, c).arq = m.arq /\ RefAddOne(m, c).at = m.at
           /\ RefAddOne(m, c).node = m.node
<1>1. /\ c[1] \in Classes /\ c[2] \in Positions(c[1]) /\ PoolOk(m.pool[c[1]], c[1]) /\ IsMem(m)
      /\ m.pool[c[1]].ref[c[2]] <= HoldersIn(m, c) + InHand(c, Empty)
      /\ m.pool[c[1]].ref[c[2]] \in Nat /\ HoldersIn(m, c) \in Nat
  BY PoolAt
<1>2. InHand(c, Empty) = 0 /\ InHand(c, c) = 1
  BY NotInHand
<1> DEFINE p == AddElementRef(m.pool[c[1]], c[2])
           old == m.pool[c[1]].ref[c[2]]
<1>3. PICK v \in 0 .. old + 1 : Recounted(p, m, c, v)
  <2> DEFINE q == m.pool[c[1]]
             i == c[2]
  <2>1. c[1] \in Classes /\ PoolOk(q, c[1]) /\ i \in Positions(c[1])
    BY <1>1
  <2> HIDE DEF q, i
  <2>2. \E n \in 0 .. q.ref[i] + 1 :
           PoolOk(AddElementRef(q, i), c[1]) /\ AddElementRef(q, i).ref = [q.ref EXCEPT ![i] = n]
    BY <2>1, AddOk
  <2>3. QED  BY <2>2 DEF Recounted, q, i
<1>4. PoolIs(RefAddOne(m, c), m, c, p)
  BY <1>1, AddedFields
<1>5. old \in Nat /\ old <= HoldersIn(m, c)
  BY <1>1, <1>2
<1> HIDE DEF p, old
<1>6. v <= HoldersIn(m, c) + InHand(c, c)
  BY <1>1, <1>2, <1>3, <1>5
<1>7. \A d \in Cells : d # c => InHand(d, c) = InHand(d, Empty)
  BY NotInHand
<1>8. Good(RefAddOne(m, c), c)
  BY <1>3, <1>4, <1>6, <1>7, Recount
<1>9. QED  BY <1>4, <1>8 DEF PoolIs

\* FreeTranBuf: the hand is empty afterwards, whether it held the buffer before or
\* the buffer is freed once too often.
LEMMA MoveFreeAny ==
    ASSUME NEW m, NEW c \in Cells, NEW h \in {c, Empty}, Good(m, h)
    PROVE  Good(FreeTranBuf(m, c), Empty) /\ FreeTranBuf(m, c).app = m.app
           /\ FreeTranBuf(m, c).arq = m.arq /\ FreeTranBuf(m, c).at = m.at
<1>1. /\ c[1] \in Classes /\ c[2] \in Positions(c[1]) /\ PoolOk(m.pool[c[1]], c[1]) /\ IsMem(m)
      /\ m.pool[c[1]].ref[c[2]] <= HoldersIn(m, c) + InHand(c, h)
      /\ m.pool[c[1]].ref[c[2]] \in Nat /\ HoldersIn(m, c) \in Nat
  BY PoolAt
<1>2. InHand(c, Empty) = 0 /\ InHand(c, h) \in {0, 1}
  BY NotInHand
<1> DEFINE p == FreeElementRef(m.pool[c[1]], c[2])
           old == m.pool[c[1]].ref[c[2]]
<1>3. PICK v \in Nat : (v = 0 \/ v + 1 = old) /\ Recounted(p, m, c, v)
  <2> DEFINE q == m.pool[c[1]]
             i == c[2]
  <2>1. c[1] \in Classes /\ PoolOk(q, c[1]) /\ i \in Positions(c[1])
    BY <1>1
  <2> HIDE DEF q, i
  <2>2. \E n \in Nat :
           /\ n = 0 \/ n + 1 = q.ref[i]
           /\ PoolOk(FreeElementRef(q, i), c[1]) /\ FreeElementRef(q, i).ref = [q.ref EXCEPT ![i] = n]
    BY <2>1, FreeOk
  <2>3. QED  BY <2>2 DEF Recounted, q, i
<1>4. PoolIs(FreeTranBuf(m, c), m, c, p)
  BY <1>1, FreedFields
<1>5. old \in Nat /\ old <= HoldersIn(m, c) + InHand(c, h)
  BY <1>1
<1> HIDE DEF p, old
<1>6. v <= HoldersIn(m, c) + InHand(c, Empty)
  BY <1>1, <1>2, <1>3, <1>5
<1>7. \A d \in Cells : d # c => InHand(d, Empty) = InHand(d, h)
  BY NotInHand
<1>8. Good(FreeTranBuf(m, c), Empty)
  <2>1. Empty \in Cells \cup {Empty}
    OBVIOUS
  <2>2. QED  BY <1>3, <1>4, <1>6, <1>7, <2>1, Recount
<1>9. QED  BY <1>4, <1>8 DEF PoolIs

LEMMA MoveFree ==
    ASSUME NEW m, NEW c \in Cells, Good(m, c)
    PROVE  Good(FreeTranBuf(m, c), Empty) /\ FreeTranBuf(m, c).app = m.app
           /\ FreeTranBuf(m, c).arq = m.arq /\ FreeTranBuf(m, c).at = m.at
<1>1. c \in {c, Empty}
  OBVIOUS
<1>2. QED  BY <1>1, MoveFreeAny

\* A place takes what is in hand and gives up what it had.
LEMMA PutFields ==
    ASSUME NEW m, IsMem(m), NEW x, NEW c
    PROVE  LET q == Put(m, x, c) IN
           /\ IsMem(q) /\ q.pool = m.pool /\ q.node = m.node /\ q.app = m.app /\ q.arq = m.arq
           /\ q.at = [m.at EXCEPT ![x] = c]
<1> DEFINE v == [m.at EXCEPT ![x] = c]
<1>1. Put(m, x, c) = [m EXCEPT !.at = v]
  BY DEF Put
<1> HIDE DEF v
<1>2. LET q == [m EXCEPT !.at = v] IN
      IsMem(q) /\ q.pool = m.pool /\ q.node = m.node /\ q.app = m.app /\ q.arq = m.arq /\ q.at = v
  BY SetAt
<1>3. QED  BY <1>1, <1>2 DEF v

LEMMA PutCount ==
    ASSUME NEW a \in [Places -> Cells \cup {Empty}], NEW x \in Places, NEW h \in Cells \cup {Empty},
           NEW c \in Cells
    PROVE  LET b == [a EXCEPT ![x] = h] IN
           Cardinality({y \in Places : b[y] = c}) + InHand(c, a[x])
             = Cardinality({y \in Places : a[y] = c}) + InHand(c, h)
<1> DEFINE b == [a EXCEPT ![x] = h]
           A == {y \in Places : a[y] = c}
           B == {y \in Places : b[y] = c}
<1>1. IsFiniteSet(A) /\ Cardinality(A) \in Nat
  BY PlacesFinite, FS_Subset, FS_CardinalityType
<1>2. CASE a[x] = c /\ h = c
  <2>1. A = B
    BY <1>2
  <2>2. QED  BY <1>2, <2>1
<1>3. CASE a[x] = c /\ h # c
  <2>1. B = A \ {x} /\ x \in A
    BY <1>3
  <2> HIDE DEF A, B
  <2>2. Cardinality(B) = Cardinality(A) - 1
    BY <1>1, <2>1, FS_RemoveElement
  <2>3. InHand(c, a[x]) = 1 /\ InHand(c, h) = 0
    BY <1>3 DEF InHand
  <2>4. Cardinality(B) + InHand(c, a[x]) = Cardinality(A) + InHand(c, h)
    BY <1>1, <2>2, <2>3
  <2>5. QED  BY <2>4 DEF A, B
<1>4. CASE a[x] # c /\ h = c
  <2>1. B = A \cup {x} /\ x \notin A
    BY <1>4
  <2> HIDE DEF A, B
  <2>2. Cardinality(B) = Cardinality(A) + 1
    BY <1>1, <2>1, FS_AddElement
  <2>3. InHand(c, a[x]) = 0 /\ InHand(c, h) = 1
    BY <1>4 DEF InHand
  <2>4. Cardinality(B) + InHand(c, a[x]) = Cardinality(A) + InHand(c, h)
    BY <1>1, <2>2, <2>3
  <2>5. QED  BY <2>4 DEF A, B
<1>5. CASE a[x] # c /\ h # c
  <2>1. A = B
    BY <1>5
  <2>2. InHand(c, a[x]) = 0 /\ InHand(c, h) = 0
    BY <1>5 DEF InHand
  <2>3. QED  BY <2>1, <2>2
<1>6. QED  BY <1>2, <1>3, <1>4, <1>5

LEMMA MovePut ==
    ASSUME NEW m, NEW h, Good(m, h), NEW x \in Places
    PROVE  LET q == Put(m, x, h) IN
           Good(q, m.at[x]) /\ q.app = m.app /\ q.arq = m.arq /\ q.at = [m.at EXCEPT ![x] = h]
<1> DEFINE q == Put(m, x, h)
           g == m.at[x]
<1>1. IsMem(m) /\ PoolsOk(m) /\ HoldersOk(m) /\ NodesOk(m.node, m.arq) /\ CountsOk(m, h)
      /\ h \in Cells \cup {Empty}
  BY DEF Good
<1>2. /\ IsMem(q) /\ q.pool = m.pool /\ q.node = m.node /\ q.app = m.app /\ q.arq = m.arq
      /\ q.at = [m.at EXCEPT ![x] = h]
  BY <1>1, PutFields
<1> HIDE DEF q
<1>3. m.at \in [Places -> Cells \cup {Empty}] /\ g \in Cells \cup {Empty}
  BY <1>1 DEF HoldersOk
<1>4. PoolsOk(q) /\ HoldersOk(q) /\ NodesOk(q.node, q.arq)
  <2>1. PoolsOk(q)
    BY <1>1, <1>2 DEF PoolsOk
  <2>2. q.at \in [Places -> Cells \cup {Empty}]
    BY <1>1, <1>2, <1>3
  <2>3. HoldersOk(q)
    BY <1>1, <1>2, <2>2 DEF HoldersOk
  <2>4. QED  BY <1>1, <1>2, <2>1, <2>3
<1>5. CountsOk(q, g)
  <2>1. SUFFICES ASSUME NEW c \in Cells
                 PROVE  RefIn(q, c) <= HoldersIn(q, c) + InHand(c, g)
    BY DEF CountsOk
  <2> DEFINE e == Cardinality({y \in m.arq : y.cell = c})
             a == Cardinality({y \in Places : m.at[y] = c})
             b == Cardinality({y \in Places : q.at[y] = c})
             n == m.app[c]
  <2>2. RefIn(q, c) = RefIn(m, c) /\ RefIn(m, c) <= HoldersIn(m, c) + InHand(c, h)
    BY <1>1, <1>2 DEF RefIn, CountsOk
  <2>3. HoldersIn(m, c) = n + e + a /\ HoldersIn(q, c) = n + e + b
    BY <1>2 DEF HoldersIn
  <2>4. n \in Nat /\ e \in Nat /\ a \in Nat
    BY <1>1, HoldersNat
  <2>5. b \in Nat
    BY <1>4, HoldersNat
  <2>6. b + InHand(c, g) = a + InHand(c, h)
    BY <1>1, <1>2, <1>3, PutCount
  <2>7. InHand(c, g) \in Nat /\ InHand(c, h) \in Nat
    BY DEF InHand
  <2> HIDE DEF n, e, a, b, g
  <2>8. QED  BY <2>2, <2>3, <2>4, <2>5, <2>6, <2>7
<1>6. QED  BY <1>2, <1>3, <1>4, <1>5 DEF Good, q

\* The application keeps what is in hand, or gives one of its references into it.
AppIs(q, m, c, v) ==
    /\ IsMem(q) /\ q.pool = m.pool /\ q.node = m.node /\ q.arq = m.arq /\ q.at = m.at
    /\ q.app = [m.app EXCEPT ![c] = v]

LEMMA AppFields ==
    ASSUME NEW m, IsMem(m), NEW c
    PROVE  AppIs(Keep(m, c), m, c, m.app[c] + 1) /\ AppIs(Give(m, c), m, c, m.app[c] - 1)
<1> DEFINE f == [m.app EXCEPT ![c] = m.app[c] + 1]
           g == [m.app EXCEPT ![c] = m.app[c] - 1]
<1>1. Keep(m, c) = [m EXCEPT !.app = f] /\ Give(m, c) = [m EXCEPT !.app = g]
  BY DEF Keep, Give
<1> HIDE DEF f, g
<1>2. LET q == [m EXCEPT !.app = f] IN
      IsMem(q) /\ q.pool = m.pool /\ q.node = m.node /\ q.app = f /\ q.arq = m.arq /\ q.at = m.at
  BY SetApp
<1>3. LET q == [m EXCEPT !.app = g] IN
      IsMem(q) /\ q.pool = m.pool /\ q.node = m.node /\ q.app = g /\ q.arq = m.arq /\ q.at = m.at
  BY SetApp
<1>4. AppIs(Keep(m, c), m, c, m.app[c] + 1)
  BY <1>1, <1>2 DEF AppIs, f
<1>5. AppIs(Give(m, c), m, c, m.app[c] - 1)
  BY <1>1, <1>3 DEF AppIs, g
<1>6. QED  BY <1>4, <1>5

LEMMA AppCount ==
    ASSUME NEW m, HoldersOk(m), NEW c \in Cells, NEW v \in Nat, NEW q, AppIs(q, m, c, v)
    PROVE  /\ IsMem(q) /\ q.pool = m.pool /\ q.node = m.node /\ q.arq = m.arq /\ HoldersOk(q)
           /\ HoldersIn(q, c) = v + (HoldersIn(m, c) - m.app[c])
           /\ \A d \in Cells : d # c => HoldersIn(q, d) = HoldersIn(m, d)
<1>2. /\ IsMem(q) /\ q.pool = m.pool /\ q.node = m.node /\ q.app = [m.app EXCEPT ![c] = v]
      /\ q.arq = m.arq /\ q.at = m.at
  BY DEF AppIs
<1>3. m.app \in [Cells -> Nat]
  BY DEF HoldersOk
<1>4. q.app \in [Cells -> Nat] /\ q.app[c] = v /\ \A d \in Cells : d # c => q.app[d] = m.app[d]
  BY <1>2, <1>3
<1>5. HoldersOk(q)
  BY <1>2, <1>4 DEF HoldersOk
<1>6. \A d \in Cells : d # c => HoldersIn(q, d) = HoldersIn(m, d)
  BY <1>2, <1>4 DEF HoldersIn
<1> DEFINE e == Cardinality({y \in m.arq : y.cell = c})
           a == Cardinality({y \in Places : m.at[y] = c})
           n == m.app[c]
<1>7. HoldersIn(m, c) = n + e + a /\ HoldersIn(q, c) = v + e + a
  BY <1>2, <1>4 DEF HoldersIn
<1>8. n \in Nat /\ e \in Nat /\ a \in Nat
  BY HoldersNat
<1> HIDE DEF n, e, a
<1>9. HoldersIn(q, c) = v + (HoldersIn(m, c) - n)
  BY <1>7, <1>8
<1>10. QED  BY <1>2, <1>5, <1>6, <1>9 DEF n

LEMMA MoveKeep ==
    ASSUME NEW m, NEW c \in Cells, Good(m, c)
    PROVE  Good(Keep(m, c), Empty)
<1> DEFINE q == Keep(m, c)
           v == m.app[c] + 1
<1>1. IsMem(m) /\ PoolsOk(m) /\ HoldersOk(m) /\ NodesOk(m.node, m.arq) /\ CountsOk(m, c)
  BY DEF Good
<1>2. m.app[c] \in Nat /\ HoldersIn(m, c) \in Nat
  BY <1>1, HoldersNat
<1>10. v \in Nat
  BY <1>2
<1>3. AppIs(q, m, c, v)
  BY <1>1, AppFields
<1> HIDE DEF q, v
<1>4. /\ IsMem(q) /\ q.pool = m.pool /\ q.node = m.node /\ q.arq = m.arq /\ HoldersOk(q)
      /\ HoldersIn(q, c) = v + (HoldersIn(m, c) - m.app[c])
      /\ \A d \in Cells : d # c => HoldersIn(q, d) = HoldersIn(m, d)
  BY <1>1, <1>10, <1>3, AppCount
<1>5. PoolsOk(q) /\ NodesOk(q.node, q.arq)
  BY <1>1, <1>4 DEF PoolsOk
<1>6. \A d \in Cells : RefIn(q, d) <= HoldersIn(m, d) + InHand(d, c)
  BY <1>1, <1>4 DEF RefIn, CountsOk
<1>7. \A d \in Cells : InHand(d, Empty) = 0
  BY CellFacts DEF InHand
<1>8. CountsOk(q, Empty)
  <2>1. SUFFICES ASSUME NEW d \in Cells  PROVE RefIn(q, d) <= HoldersIn(q, d) + InHand(d, Empty)
    BY DEF CountsOk
  <2>2. CASE d = c
    <3>1. InHand(d, c) = 1
      BY <2>2 DEF InHand
    <3>2. HoldersIn(q, c) = HoldersIn(m, c) + 1
      BY <1>2, <1>4 DEF v
    <3>3. QED  BY <1>2, <1>6, <1>7, <2>2, <3>1, <3>2
  <2>3. CASE d # c
    <3>1. InHand(d, c) = 0
      BY <2>3 DEF InHand
    <3>2. QED  BY <1>4, <1>6, <1>7, <2>3, <3>1
  <2>4. QED  BY <2>2, <2>3
<1>9. QED  BY <1>4, <1>5, <1>8 DEF Good, q

LEMMA MoveGive ==
    ASSUME NEW m, NEW c \in Cells, Good(m, Empty), m.app[c] > 0
    PROVE  Good(Give(m, c), c)
<1> DEFINE q == Give(m, c)
           v == m.app[c] - 1
<1>1. IsMem(m) /\ PoolsOk(m) /\ HoldersOk(m) /\ NodesOk(m.node, m.arq) /\ CountsOk(m, Empty)
  BY DEF Good
<1>2. m.app[c] \in Nat /\ HoldersIn(m, c) \in Nat
  BY <1>1, HoldersNat
<1>3. v \in Nat
  BY <1>2
<1>4. AppIs(q, m, c, v)
  BY <1>1, AppFields
<1> HIDE DEF q, v
<1>5. /\ IsMem(q) /\ q.pool = m.pool /\ q.node = m.node /\ q.arq = m.arq /\ HoldersOk(q)
      /\ HoldersIn(q, c) = v + (HoldersIn(m, c) - m.app[c])
      /\ \A d \in Cells : d # c => HoldersIn(q, d) = HoldersIn(m, d)
  BY <1>1, <1>3, <1>4, AppCount
<1>6. PoolsOk(q) /\ NodesOk(q.node, q.arq)
  BY <1>1, <1>5 DEF PoolsOk
<1>7. \A d \in Cells : InHand(d, Empty) = 0
  BY CellFacts DEF InHand
<1>8. \A d \in Cells : RefIn(q, d) <= HoldersIn(m, d) + InHand(d, Empty)
  BY <1>1, <1>5 DEF RefIn, CountsOk
<1>9. CountsOk(q, c)
  <2>1. SUFFICES ASSUME NEW d \in Cells  PROVE RefIn(q, d) <= HoldersIn(q, d) + InHand(d, c)
    BY DEF CountsOk
  <2>2. CASE d = c
    <3>1. InHand(d, c) = 1
      BY <2>2 DEF InHand
    <3>2. HoldersIn(q, c) = HoldersIn(m, c) - 1
      BY <1>2, <1>5 DEF v
    <3>3. QED  BY <1>2, <1>7, <1>8, <2>2, <3>1, <3>2
  <2>3. CASE d # c
    <3>1. InHand(d, c) = 0
      BY <2>3 DEF InHand
    <3>2. QED  BY <1>5, <1>7, <1>8, <2>3, <3>1
  <2>4. QED  BY <2>2, <2>3
<1>10. QED  BY <1>5, <1>6, <1>9 DEF Good, q

-----------------------------------------------------------------------------
(* GtpMemPool: the nodes. *)

LEMMA NodeWords ==
    /\ NodeNum \in Nat /\ NodeNum >= 1 /\ NodeNum \div Word \in Nat
    /\ NodeNum = (NodeNum \div Word) * Word
<1>1. Word \in Nat /\ Word >= 1 /\ NodeNum \in Nat /\ NodeNum >= 1 /\ NodeNum % Word = 0
  BY MemoryAssumption
<1>2. NodeNum = Word * (NodeNum \div Word) + (NodeNum % Word) /\ NodeNum \div Word \in Nat
  BY <1>1
<1> DEFINE d == NodeNum \div Word
<1>3. d \in Nat /\ NodeNum = Word * d
  BY <1>1, <1>2
<1> HIDE DEF d
<1>4. NodeNum = d * Word
  BY <1>1, <1>3
<1>5. QED  BY <1>1, <1>2, <1>4 DEF d

LEMMA NodesFinite == IsFiniteSet(Nodes) /\ Cardinality(Nodes) = NodeNum /\ Nodes \subseteq Nat
<1>1. NodeNum \in Nat /\ NodeNum >= 1
  BY NodeWords
<1>2. IsFiniteSet(0 .. NodeNum - 1) /\ Cardinality(0 .. NodeNum - 1) = NodeNum
  BY <1>1, FS_Interval
<1>3. QED  BY <1>1, <1>2 DEF Nodes

LEMMA FreeItemFacts ==
    ASSUME NEW n, NEW arq, NodesOk(n, arq), arq \subseteq [node : Nodes, cell : Cells]
    PROVE  /\ \A i \in FreeItemPos(n) : i \in Nodes /\ i \notin n.used
           /\ FreeItemPos(n) = {} => Cardinality(arq) = NodeNum
<1> DEFINE near == InWord(n.last \div Word) \ n.bits
           N == NodeNum \div Word
           words == {w \in 0 .. N - 1 : ~FullWord(n.bits, w)}
<1>1. /\ NodeNum \in Nat /\ N \in Nat /\ NodeNum = N * Word
      /\ IsFiniteSet(Nodes) /\ Cardinality(Nodes) = NodeNum
  BY NodeWords, NodesFinite
<1>2. n.bits = n.used /\ n.last \in Nodes /\ n.using = Cardinality(arq) /\ n.using = Cardinality(n.used)
  BY DEF NodesOk
<1>3. n.used \subseteq Nodes
  BY DEF NodesOk
<1>4. IsFiniteSet(n.used) /\ Cardinality(n.used) \in Nat /\ Cardinality(n.used) <= NodeNum
  BY <1>1, <1>3, FS_Subset, FS_CardinalityType
<1>5. n.last \in 0 .. N * Word - 1
  BY <1>1, <1>2 DEF Nodes
<1>6. n.last \div Word \in 0 .. N - 1
  BY <1>1, <1>5, WordBelow
<1>7. ASSUME NEW w \in 0 .. N - 1  PROVE InWord(w) \subseteq Nodes /\ InWord(w) \subseteq Nat
  BY <1>1, WordIn DEF Nodes
<1> HIDE DEF N
<1>8. CASE n.using >= NodeNum
  <2>1. FreeItemPos(n) = {}
    BY <1>1, <1>2, <1>4, <1>8 DEF FreeItemPos
  <2>2. QED  BY <1>1, <1>2, <1>4, <1>8, <2>1
<1>9. CASE n.using < NodeNum /\ n.last \notin n.used
  <2>1. FreeItemPos(n) = {n.last}
    BY <1>9, <1>1, <1>2, <1>4 DEF FreeItemPos
  <2>2. QED  BY <1>2, <1>9, <2>1
<1>10. CASE n.using < NodeNum /\ n.last \in n.used /\ near \ n.used # {}
  <2>1. FreeItemPos(n) = {Min(near \ n.used)}
    BY <1>10, <1>1, <1>2, <1>4 DEF FreeItemPos
  <2>2. near \subseteq Nodes /\ near \ n.used \subseteq Nat
    BY <1>6, <1>7
  <2>3. Min(near \ n.used) \in near \ n.used
    BY <1>10, <2>2, MinFacts
  <2>4. QED  BY <2>1, <2>2, <2>3
<1>11. CASE n.using < NodeNum /\ n.last \in n.used /\ near \ n.used = {}
  <2>1. FreeItemPos(n) = IF words = {} THEN {} ELSE {Min(InWord(Min(words)) \ n.bits)}
    BY <1>11, <1>1, <1>2, <1>4 DEF FreeItemPos, N
  <2>2. CASE words = {}
    <3>1. ASSUME NEW i \in Nodes  PROVE i \in n.used
      <4>1. i \div Word \in 0 .. N - 1 /\ i \in InWord(i \div Word)
        BY <1>1, WordBelow DEF Nodes
      <4>2. FullWord(n.bits, i \div Word)
        BY <2>2, <4>1
      <4>3. QED  BY <1>2, <4>1, <4>2 DEF FullWord
    <3>2. n.used = Nodes
      BY <1>3, <3>1
    <3>3. QED  BY <1>1, <1>2, <2>1, <2>2, <3>2
  <2>3. CASE words # {}
    <3> DEFINE w == Min(words)
               free == InWord(w) \ n.bits
    <3>1. words \subseteq Nat
      BY <1>1
    <3>2. w \in words
      BY <2>3, <3>1, MinFacts
    <3>3. w \in 0 .. N - 1 /\ ~FullWord(n.bits, w)
      BY <3>2
    <3>4. FreeItemPos(n) = {Min(free)}
      BY <2>1, <2>3
    <3> HIDE DEF w, words
    <3>5. free # {} /\ free \subseteq Nat /\ free \subseteq Nodes
      BY <1>7, <3>3 DEF FullWord
    <3>6. Min(free) \in free
      BY <3>5, MinFacts
    <3>7. QED  BY <1>2, <3>4, <3>5, <3>6
  <2>4. QED  BY <2>2, <2>3
<1>12. n.using >= NodeNum \/ n.using < NodeNum
  BY <1>1, <1>2, <1>4
<1>13. QED  BY <1>8, <1>9, <1>10, <1>11, <1>12

NodeTaken(z, n, i) ==
    /\ z.bits = n.bits \cup {i} /\ z.used = n.used \cup {i} /\ z.quote = [n.quote EXCEPT ![i] = 1]
    /\ z.last = i /\ z.using = n.using + 1

LEMMA ItemTaken ==
    ASSUME NEW n, NEW i
    PROVE  NodeTaken(TakeItem(n, i), n, i)
BY DEF TakeItem, NodeTaken

LEMMA NodesTake ==
    ASSUME NEW n, NEW arq, NodesOk(n, arq), arq \subseteq [node : Nodes, cell : Cells],
           IsFiniteSet(arq), NEW i \in FreeItemPos(n), NEW e \in [node : Nodes, cell : Cells],
           e.node = i
    PROVE  NodesOk(TakeItem(n, i), arq \cup {e}) /\ e \notin arq /\ i \in Nodes
<1> DEFINE z == TakeItem(n, i)
           A == arq \cup {e}
<1>1. i \in Nodes /\ i \notin n.used
  BY FreeItemFacts
<1>2. /\ n.quote \in [Nodes -> Nat] /\ n.last \in Nodes
      /\ n.bits = n.used /\ n.used = {f.node : f \in arq}
      /\ \A j \in n.used : n.quote[j] = 1
      /\ \A f, g \in arq : f.node = g.node => f = g
  BY DEF NodesOk
<1>3. n.using = Cardinality(arq) /\ n.using = Cardinality(n.used)
  BY DEF NodesOk
<1>4. NodeTaken(z, n, i)
  BY ItemTaken
<1> HIDE DEF z
<1>5. e \notin arq
  BY <1>1, <1>2
<1>6. Cardinality(A) = Cardinality(arq) + 1
  BY <1>5, FS_AddElement
<1>7. Cardinality(n.used \cup {i}) = Cardinality(n.used) + 1
  <2>1. n.used \subseteq Nodes
    BY <1>2
  <2>2. IsFiniteSet(n.used)
    BY <2>1, NodesFinite, FS_Subset
  <2>3. QED  BY <1>1, <2>2, FS_AddElement
<1>8. z.using = Cardinality(A) /\ z.using = Cardinality(z.used)
  <2>1. z.using = n.using + 1 /\ z.used = n.used \cup {i}
    BY <1>4 DEF NodeTaken
  <2>2. QED  BY <1>3, <1>6, <1>7, <2>1, Zenon
<1>9. z.bits = z.used /\ z.used = {f.node : f \in A}
  BY <1>2, <1>4 DEF NodeTaken
<1>10. z.quote \in [Nodes -> Nat] /\ z.last \in Nodes /\ \A j \in z.used : z.quote[j] = 1
  <2>1. z.quote = [n.quote EXCEPT ![i] = 1] /\ z.last = i /\ z.used = n.used \cup {i}
    BY <1>4 DEF NodeTaken
  <2>2. n.used \subseteq Nodes
    BY <1>2
  <2>3. QED  BY <1>1, <1>2, <2>1, <2>2
<1>11. \A f, g \in A : f.node = g.node => f = g
  BY <1>1, <1>2
<1>12. NodesOk(z, A)
  BY <1>8, <1>9, <1>10, <1>11 DEF NodesOk
<1>13. QED  BY <1>1, <1>5, <1>12 DEF z

LEMMA NodesFree ==
    ASSUME NEW n, NEW arq, NodesOk(n, arq), arq \subseteq [node : Nodes, cell : Cells],
           IsFiniteSet(arq), NEW e \in arq
    PROVE  NodesOk(FreeItem(n, e.node), arq \ {e})
<1> DEFINE i == e.node
           z == FreeItem(n, i)
           A == arq \ {e}
<1>1. /\ n.quote \in [Nodes -> Nat] /\ n.last \in Nodes
      /\ n.bits = n.used /\ n.used = {f.node : f \in arq}
      /\ \A j \in n.used : n.quote[j] = 1
      /\ \A f, g \in arq : f.node = g.node => f = g
  BY DEF NodesOk
<1>2. n.using = Cardinality(arq) /\ n.using = Cardinality(n.used)
  BY DEF NodesOk
<1>3. i \in n.used /\ n.quote[i] = 1 /\ i \in Nodes /\ n.used \subseteq Nodes
  BY <1>1
<1>4. Cardinality(arq) \in Nat /\ Cardinality(A) = Cardinality(arq) - 1 /\ Cardinality(arq) > 0
  <2>1. Cardinality(A) = Cardinality(arq) - 1 /\ Cardinality(arq) \in Nat
    BY FS_RemoveElement, FS_CardinalityType
  <2>2. Cardinality(arq) # 0
    BY FS_EmptySet
  <2>3. QED  BY <2>1, <2>2
<1>5. Cardinality(n.used \ {i}) = Cardinality(n.used) - 1
  <2>1. IsFiniteSet(n.used)
    BY <1>3, NodesFinite, FS_Subset
  <2>2. QED  BY <1>3, <2>1, FS_RemoveElement
<1>6. n.using > 0
  BY <1>2, <1>4
<1>7. z = [bits |-> n.bits \ {i}, used |-> n.used \ {i}, quote |-> [n.quote EXCEPT ![i] = 0],
           last |-> i, using |-> IF n.using > 0 THEN n.using - 1 ELSE 0]
  <2>1. i \in n.used /\ ~(n.quote[i] > 1)
    BY <1>3
  <2>2. QED  BY <2>1 DEF FreeItem
<1> HIDE DEF z
<1>8. /\ z.bits = n.bits \ {i} /\ z.used = n.used \ {i} /\ z.quote = [n.quote EXCEPT ![i] = 0]
      /\ z.last = i /\ z.using = n.using - 1
  BY <1>6, <1>7
<1>9. z.using = Cardinality(A) /\ z.using = Cardinality(z.used)
  BY <1>2, <1>4, <1>5, <1>8, Zenon
<1>10. z.used = {f.node : f \in A} /\ z.bits = z.used
  BY <1>1, <1>8
<1>11. z.quote \in [Nodes -> Nat] /\ z.last \in Nodes /\ \A j \in z.used : z.quote[j] = 1
  BY <1>1, <1>3, <1>8
<1>12. \A f, g \in A : f.node = g.node => f = g
  BY <1>1
<1>13. NodesOk(z, A)
  BY <1>9, <1>10, <1>11, <1>12 DEF NodesOk
<1>14. QED  BY <1>13 DEF z

ListIs(q, m, n, a) ==
    IsMem(q) /\ q.pool = m.pool /\ q.node = n /\ q.app = m.app /\ q.arq = a /\ q.at = m.at

LEMMA ListFields ==
    ASSUME NEW m, IsMem(m), NEW n, NEW a
    PROVE  ListIs([[m EXCEPT !.node = n] EXCEPT !.arq = a], m, n, a)
<1> DEFINE z == [m EXCEPT !.node = n]
<1>1. /\ IsMem(z) /\ z.pool = m.pool /\ z.node = n /\ z.app = m.app /\ z.arq = m.arq
      /\ z.at = m.at
  BY SetNode
<1> HIDE DEF z
<1>2. LET q == [z EXCEPT !.arq = a] IN
      IsMem(q) /\ q.pool = z.pool /\ q.node = z.node /\ q.app = z.app /\ q.arq = a /\ q.at = z.at
  BY <1>1, SetArq
<1>3. LET q == [z EXCEPT !.arq = a] IN
      IsMem(q) /\ q.pool = m.pool /\ q.node = n /\ q.app = m.app /\ q.arq = a /\ q.at = m.at
  BY <1>1, <1>2
<1>4. QED  BY <1>3 DEF z, ListIs

LEMMA ListedFields ==
    ASSUME NEW m, IsMem(m), NEW i, NEW c
    PROVE  ListIs(Listed(m, i, c), m, TakeItem(m.node, i), m.arq \cup {[node |-> i, cell |-> c]})
<1> DEFINE n == TakeItem(m.node, i)
           a == m.arq \cup {[node |-> i, cell |-> c]}
<1>1. [m EXCEPT !.node = n].arq = m.arq
  BY SetNode
<1>2. Listed(m, i, c) = [[m EXCEPT !.node = n] EXCEPT !.arq = a]
  BY <1>1 DEF Listed
<1> HIDE DEF n, a
<1>3. ListIs([[m EXCEPT !.node = n] EXCEPT !.arq = a], m, n, a)
  BY ListFields, Zenon
<1>4. QED  BY <1>2, <1>3 DEF n, a

LEMMA UnlistedFields ==
    ASSUME NEW m, IsMem(m), NEW e
    PROVE  ListIs(Unlisted(m, e), m, FreeItem(m.node, e.node), m.arq \ {e})
<1> DEFINE n == FreeItem(m.node, e.node)
           a == m.arq \ {e}
<1>1. [m EXCEPT !.node = n].arq = m.arq
  BY SetNode
<1>2. Unlisted(m, e) = [[m EXCEPT !.node = n] EXCEPT !.arq = a]
  BY <1>1 DEF Unlisted
<1> HIDE DEF n, a
<1>3. ListIs([[m EXCEPT !.node = n] EXCEPT !.arq = a], m, n, a)
  BY ListFields, Zenon
<1>4. QED  BY <1>2, <1>3 DEF n, a

\* PushArqNode: the list takes what is in hand.
LEMMA MoveList ==
    ASSUME NEW m, NEW c \in Cells, Good(m, c), NEW i \in FreeItemPos(m.node)
    PROVE  Good(Listed(m, i, c), Empty) /\ Listed(m, i, c).app = m.app
           /\ Listed(m, i, c).at = m.at
<1> DEFINE q == Listed(m, i, c)
           e == [node |-> i, cell |-> c]
           A == m.arq \cup {e}
<1>1. IsMem(m) /\ PoolsOk(m) /\ HoldersOk(m) /\ NodesOk(m.node, m.arq) /\ CountsOk(m, c)
  BY DEF Good
<1>2. m.arq \subseteq [node : Nodes, cell : Cells] /\ IsFiniteSet(m.arq)
  BY <1>1 DEF HoldersOk
<1>3. i \in Nodes
  BY <1>1, <1>2, FreeItemFacts
<1>4. e \in [node : Nodes, cell : Cells] /\ e.node = i /\ e.cell = c
  BY <1>3
<1>5. ListIs(q, m, TakeItem(m.node, i), A)
  BY <1>1, ListedFields
<1> HIDE DEF q, e
<1>6. NodesOk(TakeItem(m.node, i), A) /\ e \notin m.arq
  BY <1>1, <1>2, <1>4, NodesTake
<1>7. /\ IsMem(q) /\ q.pool = m.pool /\ q.node = TakeItem(m.node, i) /\ q.app = m.app
      /\ q.arq = A /\ q.at = m.at
  BY <1>5 DEF ListIs
<1>8. A \subseteq [node : Nodes, cell : Cells] /\ IsFiniteSet(A)
  BY <1>2, <1>4, FS_AddElement
<1>9. PoolsOk(q) /\ HoldersOk(q) /\ NodesOk(q.node, q.arq)
  <2>1. PoolsOk(q)
    BY <1>1, <1>7 DEF PoolsOk
  <2>2. HoldersOk(q)
    BY <1>1, <1>7, <1>8 DEF HoldersOk
  <2>3. QED  BY <1>6, <1>7, <2>1, <2>2
<1>10. CountsOk(q, Empty)
  <2>1. SUFFICES ASSUME NEW d \in Cells  PROVE RefIn(q, d) <= HoldersIn(q, d) + InHand(d, Empty)
    BY DEF CountsOk
  <2> DEFINE E == {f \in m.arq : f.cell = d}
             F == {f \in A : f.cell = d}
             x == Cardinality(E)
             y == Cardinality(F)
             b == Cardinality({p \in Places : m.at[p] = d})
             n == m.app[d]
  <2>2. RefIn(q, d) = RefIn(m, d) /\ RefIn(m, d) <= HoldersIn(m, d) + InHand(d, c)
    BY <1>1, <1>7 DEF RefIn, CountsOk
  <2>3. HoldersIn(m, d) = n + x + b /\ HoldersIn(q, d) = n + y + b
    BY <1>7 DEF HoldersIn
  <2>4. n \in Nat /\ x \in Nat /\ b \in Nat /\ IsFiniteSet(E)
    BY <1>1, HoldersNat
  <2>5. y = x + InHand(d, c)
    <3>1. CASE d = c
      <4>1. F = E \cup {e} /\ e \notin E
        BY <1>4, <1>6, <3>1
      <4>2. y = x + 1
        BY <2>4, <4>1, FS_AddElement
      <4>3. InHand(d, c) = 1
        BY <3>1 DEF InHand
      <4>4. QED  BY <4>2, <4>3
    <3>2. CASE d # c
      <4>1. F = E
        BY <1>4, <3>2
      <4>2. InHand(d, c) = 0
        BY <3>2 DEF InHand
      <4> HIDE DEF E, F
      <4>3. y = x
        BY <4>1
      <4> HIDE DEF x, y
      <4>4. QED  BY <2>4, <4>2, <4>3
    <3>3. QED  BY <3>1, <3>2
  <2>6. InHand(d, Empty) = 0 /\ InHand(d, c) \in Nat
    BY CellFacts DEF InHand
  <2> HIDE DEF n, x, y, b
  <2>7. QED  BY <2>2, <2>3, <2>4, <2>5, <2>6
<1>11. QED  BY <1>7, <1>9, <1>10 DEF Good, q

\* PopArqNode and FreeItem: the reference of the node comes into the hand.
LEMMA MoveUnlist ==
    ASSUME NEW m, Good(m, Empty), NEW e \in m.arq
    PROVE  e.cell \in Cells /\ Good(Unlisted(m, e), e.cell) /\ Unlisted(m, e).app = m.app
           /\ Unlisted(m, e).at = m.at /\ Unlisted(m, e).arq = m.arq \ {e}
<1> DEFINE q == Unlisted(m, e)
           c == e.cell
           A == m.arq \ {e}
<1>1. IsMem(m) /\ PoolsOk(m) /\ HoldersOk(m) /\ NodesOk(m.node, m.arq) /\ CountsOk(m, Empty)
  BY DEF Good
<1>2. m.arq \subseteq [node : Nodes, cell : Cells] /\ IsFiniteSet(m.arq)
  BY <1>1 DEF HoldersOk
<1>3. c \in Cells
  BY <1>2
<1>4. ListIs(q, m, FreeItem(m.node, e.node), A)
  BY <1>1, UnlistedFields
<1> HIDE DEF q
<1>5. NodesOk(FreeItem(m.node, e.node), A)
  BY <1>1, <1>2, NodesFree
<1>6. /\ IsMem(q) /\ q.pool = m.pool /\ q.node = FreeItem(m.node, e.node) /\ q.app = m.app
      /\ q.arq = A /\ q.at = m.at
  BY <1>4 DEF ListIs
<1>7. A \subseteq [node : Nodes, cell : Cells] /\ IsFiniteSet(A)
  BY <1>2, FS_RemoveElement
<1>8. PoolsOk(q) /\ HoldersOk(q) /\ NodesOk(q.node, q.arq)
  <2>1. PoolsOk(q)
    BY <1>1, <1>6 DEF PoolsOk
  <2>2. HoldersOk(q)
    BY <1>1, <1>6, <1>7 DEF HoldersOk
  <2>3. QED  BY <1>5, <1>6, <2>1, <2>2
<1>9. CountsOk(q, c)
  <2>1. SUFFICES ASSUME NEW d \in Cells  PROVE RefIn(q, d) <= HoldersIn(q, d) + InHand(d, c)
    BY DEF CountsOk
  <2> DEFINE E == {f \in m.arq : f.cell = d}
             F == {f \in A : f.cell = d}
             x == Cardinality(E)
             y == Cardinality(F)
             b == Cardinality({p \in Places : m.at[p] = d})
             n == m.app[d]
  <2>2. RefIn(q, d) = RefIn(m, d) /\ RefIn(m, d) <= HoldersIn(m, d) + InHand(d, Empty)
    BY <1>1, <1>6 DEF RefIn, CountsOk
  <2>3. HoldersIn(m, d) = n + x + b /\ HoldersIn(q, d) = n + y + b
    BY <1>6 DEF HoldersIn
  <2>4. n \in Nat /\ x \in Nat /\ b \in Nat /\ IsFiniteSet(E)
    BY <1>1, HoldersNat
  <2>5. x = y + InHand(d, c) /\ y \in Nat
    <3>1. CASE d = c
      <4>1. F = E \ {e} /\ e \in E
        BY <3>1
      <4> HIDE DEF E, F
      <4>2. y = x - 1 /\ IsFiniteSet(F)
        BY <2>4, <4>1, FS_RemoveElement
      <4>3. InHand(d, c) = 1 /\ y \in Nat
        BY <3>1, <4>2, FS_CardinalityType DEF InHand
      <4> HIDE DEF x, y, c
      <4>4. QED  BY <2>4, <4>2, <4>3
    <3>2. CASE d # c
      <4>1. F = E
        BY <3>2
      <4>2. InHand(d, c) = 0
        BY <3>2 DEF InHand
      <4> HIDE DEF E, F, c
      <4>3. y = x
        BY <4>1
      <4> HIDE DEF x, y
      <4>4. QED  BY <2>4, <4>2, <4>3
    <3>3. QED  BY <3>1, <3>2
  <2>6. InHand(d, Empty) = 0 /\ InHand(d, c) \in Nat
    BY CellFacts DEF InHand
  <2> HIDE DEF n, x, y, b, c
  <2>7. QED  BY <2>2, <2>3, <2>4, <2>5, <2>6
<1>10. QED  BY <1>3, <1>6, <1>8, <1>9 DEF Good, q

-----------------------------------------------------------------------------
(* Handlers. *)

\* q is what a handler that leaves the application's references alone makes of m.
Fine(q, m) == Good(q, Empty) /\ q.app = m.app

LEMMA AtIs ==
    ASSUME NEW m, NEW h, Good(m, h)
    PROVE  m.at \in [Places -> Cells \cup {Empty}]
BY DEF Good, HoldersOk

LEMMA PlaceHolds ==
    ASSUME NEW m, NEW h, Good(m, h), NEW x \in Places, m.at[x] # Empty
    PROVE  m.at[x] \in Cells
BY AtIs

LEMMA DropOk ==
    ASSUME NEW m, Good(m, Empty), NEW x \in Places
    PROVE  /\ Fine(Drop(m, x), m) /\ Drop(m, x).arq = m.arq
           /\ Drop(m, x).at = [m.at EXCEPT ![x] = Empty]
<1>1. CASE m.at[x] = Empty
  <2>1. Drop(m, x) = m
    BY <1>1 DEF Drop
  <2>2. m.at = [m.at EXCEPT ![x] = Empty]
    BY <1>1, AtIs
  <2>3. QED  BY <2>1, <2>2 DEF Fine
<1>2. CASE m.at[x] # Empty
  <2> DEFINE p == Put(m, x, Empty)
             c == m.at[x]
  <2>1. Good(p, c) /\ p.app = m.app /\ p.arq = m.arq /\ p.at = [m.at EXCEPT ![x] = Empty]
    BY MovePut
  <2>2. c \in Cells
    BY <1>2, PlaceHolds
  <2>3. Drop(m, x) = FreeTranBuf(p, c)
    BY <1>2 DEF Drop
  <2> HIDE DEF p, c
  <2>4. /\ Good(FreeTranBuf(p, c), Empty) /\ FreeTranBuf(p, c).app = p.app
        /\ FreeTranBuf(p, c).arq = p.arq /\ FreeTranBuf(p, c).at = p.at
    BY <2>1, <2>2, MoveFree
  <2>5. QED  BY <2>1, <2>3, <2>4 DEF Fine
<1>3. QED  BY <1>1, <1>2

LEMMA PushOk ==
    ASSUME NEW m, Good(m, Empty), NEW x \in Places, NEW c \in Cells
    PROVE  Fine(PushPack(m, x, c), m) /\ PushPack(m, x, c).at = [m.at EXCEPT ![x] = c]
<1> DEFINE r == RefAddOne(m, c)
           p == Put(r, x, c)
           g == m.at[x]
<1>1. Good(r, c) /\ r.app = m.app /\ r.at = m.at
  BY MoveAdd
<1> HIDE DEF r
<1>2. Good(p, g) /\ p.app = m.app /\ p.at = [m.at EXCEPT ![x] = c]
  BY <1>1, MovePut
<1>3. PushPack(m, x, c) = IF g = Empty THEN p ELSE FreeTranBuf(p, g)
  BY DEF PushPack, Share, r
<1>4. g = Empty \/ g \in Cells
  BY AtIs
<1> HIDE DEF p, g
<1>5. CASE g = Empty
  BY <1>2, <1>3, <1>5 DEF Fine
<1>6. CASE g # Empty
  <2>1. g \in Cells
    BY <1>4, <1>6
  <2>2. /\ Good(FreeTranBuf(p, g), Empty) /\ FreeTranBuf(p, g).app = p.app
        /\ FreeTranBuf(p, g).at = p.at
    BY <1>2, <2>1, MoveFree
  <2>3. QED  BY <1>2, <1>3, <1>6, <2>2 DEF Fine
<1>7. QED  BY <1>5, <1>6

\* A place takes a new buffer and gives up what it had.
LEMMA MoveTakePut ==
    ASSUME NEW m, Good(m, Empty), NEW k \in Classes, NEW c \in MallocTranBuf(m, k), NEW x \in Places
    PROVE  LET q == Put(Taken(m, c), x, c) IN
           Good(q, m.at[x]) /\ q.app = m.app /\ q.at = [m.at EXCEPT ![x] = c]
<1> DEFINE t == Taken(m, c)
<1>1. Good(t, c) /\ t.app = m.app /\ t.at = m.at
  BY MoveTake
<1> HIDE DEF t
<1>2. LET q == Put(t, x, c) IN
      Good(q, t.at[x]) /\ q.app = t.app /\ q.at = [t.at EXCEPT ![x] = c]
  BY <1>1, MovePut
<1>3. QED  BY <1>1, <1>2 DEF t

LEMMA ShareOk ==
    ASSUME NEW m, Good(m, Empty), NEW x \in Places, m.at[x] = Empty, NEW c \in Cells
    PROVE  Fine(Share(m, x, c), m) /\ Share(m, x, c).at = [m.at EXCEPT ![x] = c]
<1>1. PushPack(m, x, c) = Share(m, x, c)
  BY DEF PushPack
<1>2. QED  BY <1>1, PushOk

LEMMA ShortOk ==
    ASSUME NEW m, NEW k, NEW q \in Short(m, k)
    PROVE  q = m
BY DEF Short

LEMMA AfreshOk ==
    ASSUME NEW m, Good(m, Empty), NEW x \in Places, m.at[x] = Empty, NEW q \in Afresh(m, x)
    PROVE  Fine(q, m) /\ \A y \in Places : y # x => q.at[y] = m.at[y]
<1>1. PICK k \in Classes : q \in Allot(m, x, k) \/ q \in Short(m, k)
  BY DEF Afresh
<1>2. CASE q \in Short(m, k)
  BY <1>2, ShortOk DEF Fine
<1>3. CASE q \in Allot(m, x, k)
  <2>1. PICK c \in MallocTranBuf(m, k) : q = Put(Taken(m, c), x, c)
    BY <1>3 DEF Allot
  <2>4. Good(q, Empty) /\ q.app = m.app /\ q.at = [m.at EXCEPT ![x] = c]
    BY <2>1, MoveTakePut
  <2>5. \A y \in Places : y # x => q.at[y] = m.at[y]
    BY <2>4, AtIs
  <2>6. QED  BY <2>4, <2>5 DEF Fine
<1>4. QED  BY <1>1, <1>2, <1>3

LEMMA CloneOk ==
    ASSUME NEW m, Good(m, Empty), NEW k \in Classes, NEW q \in CloneBoostNode(m, k)
    PROVE  Fine(q, m)
<1>1. CASE q \in Short(m, k)
  BY <1>1, ShortOk DEF Fine
<1>2. CASE \E c \in MallocTranBuf(m, k) : q \in WithNode(m, c)
  <2>1. PICK c \in MallocTranBuf(m, k) : q \in WithNode(m, c)
    BY <1>2
  <2> DEFINE t == Taken(m, c)
  <2>2. c \in Cells /\ Good(t, c) /\ t.app = m.app /\ t.node = m.node
    BY MoveTake
  <2>3. \/ q = FreeTranBuf(t, c)
        \/ \E i \in FreeItemPos(m.node) : q = Listed(t, i, c)
    BY <2>1 DEF WithNode
  <2> HIDE DEF t
  <2>4. CASE q = FreeTranBuf(t, c)
    <3>1. Good(FreeTranBuf(t, c), Empty) /\ FreeTranBuf(t, c).app = t.app
      BY <2>2, MoveFree
    <3>2. QED  BY <2>2, <2>4, <3>1 DEF Fine
  <2>5. CASE \E i \in FreeItemPos(m.node) : q = Listed(t, i, c)
    <3>1. PICK i \in FreeItemPos(m.node) : q = Listed(t, i, c)
      BY <2>5
    <3>2. i \in FreeItemPos(t.node)
      BY <2>2
    <3>3. Good(Listed(t, i, c), Empty) /\ Listed(t, i, c).app = t.app
      BY <2>2, <3>2, MoveList
    <3>4. QED  BY <2>2, <3>1, <3>3 DEF Fine
  <2>6. QED  BY <2>3, <2>4, <2>5
<1>3. q \in Short(m, k) \/ \E c \in MallocTranBuf(m, k) : q \in WithNode(m, c)
  BY DEF CloneBoostNode
<1>4. QED  BY <1>1, <1>2, <1>3

LEMMA EntryOk ==
    ASSUME NEW m, Good(m, Empty), NEW c \in Cells, NEW q \in PacketEntryList(m, c)
    PROVE  Fine(q, m)
<1>1. CASE q = m
  BY <1>1 DEF Fine
<1>2. CASE \E i \in FreeItemPos(m.node) : q \in Boosted(Listed(RefAddOne(m, c), i, c))
  <2>1. PICK i \in FreeItemPos(m.node) : q \in Boosted(Listed(RefAddOne(m, c), i, c))
    BY <1>2
  <2> DEFINE r == RefAddOne(m, c)
             l == Listed(r, i, c)
  <2>2. Good(r, c) /\ r.app = m.app /\ r.node = m.node
    BY MoveAdd
  <2> HIDE DEF r
  <2>3. i \in FreeItemPos(r.node)
    BY <2>2
  <2>4. Good(l, Empty) /\ l.app = m.app
    BY <2>2, <2>3, MoveList
  <2>5. q \in Boosted(l)
    BY <2>1 DEF r
  <2> HIDE DEF l
  <2>6. q = l \/ \E k \in Classes : q \in CloneBoostNode(l, k)
    BY <2>5 DEF Boosted
  <2>7. QED  BY <2>4, <2>6, CloneOk DEF Fine
<1>3. QED  BY <1>1, <1>2 DEF PacketEntryList

LEMMA ThePlaces == "line" \in Places /\ "parity" \in Places /\ "reorder" \in Places
                   /\ Slots \subseteq Places /\ "reorder" # "parity" /\ "line" # "parity"
                   /\ "parity" \notin Slots
BY MemoryAssumption DEF Places

LEMMA EncodeOk ==
    ASSUME NEW m, Good(m, Empty), NEW q \in Encode(m)
    PROVE  Fine(q, m)
<1>1. ASSUME NEW l \in Started(m)  PROVE Fine(l, m)
  <2> DEFINE d == Drop(m, "line")
  <2>1. Good(d, Empty) /\ d.app = m.app /\ d.at = [m.at EXCEPT !["line"] = Empty]
    BY ThePlaces, DropOk DEF Fine
  <2>2. l \in Afresh(d, "line")
    BY DEF Started
  <2> HIDE DEF d
  <2>3. d.at["line"] = Empty
    BY <2>1, AtIs, ThePlaces
  <2>4. Fine(l, d)
    <3> DEFINE x == "line"
    <3>1. x \in Places /\ d.at[x] = Empty /\ l \in Afresh(d, x) /\ Good(d, Empty)
      BY <2>1, <2>2, <2>3, ThePlaces
    <3> HIDE DEF x
    <3>2. QED  BY <3>1, AfreshOk
  <2>5. QED  BY <2>1, <2>4 DEF Fine
<1>2. ASSUME NEW l \in ReAllocated(m), m.at["line"] # Empty  PROVE Fine(l, m)
  <2>1. PICK k \in Classes :
            \/ l \in Short(m, k)
            \/ \E c \in MallocTranBuf(m, k) :
                  l = FreeTranBuf(Put(Taken(m, c), "line", c), m.at["line"])
    BY DEF ReAllocated
  <2>2. CASE l \in Short(m, k)
    BY <2>2, ShortOk DEF Fine
  <2>3. CASE \E c \in MallocTranBuf(m, k) :
                l = FreeTranBuf(Put(Taken(m, c), "line", c), m.at["line"])
    <3>1. PICK c \in MallocTranBuf(m, k) :
              l = FreeTranBuf(Put(Taken(m, c), "line", c), m.at["line"])
      BY <2>3
    <3> DEFINE p == Put(Taken(m, c), "line", c)
               g == m.at["line"]
    <3>3. Good(p, g) /\ p.app = m.app
      BY ThePlaces, MoveTakePut
    <3>4. g \in Cells
      BY <1>2, ThePlaces, PlaceHolds
    <3>5. l = FreeTranBuf(p, g)
      BY <3>1
    <3> HIDE DEF p, g
    <3>6. Good(FreeTranBuf(p, g), Empty) /\ FreeTranBuf(p, g).app = p.app
      BY <3>3, <3>4, MoveFree
    <3>7. QED  BY <3>3, <3>5, <3>6 DEF Fine
  <2>4. QED  BY <2>1, <2>2, <2>3
<1> DEFINE lines == Started(m) \cup IF m.at["line"] = Empty THEN {} ELSE {m} \cup ReAllocated(m)
<1>3. ASSUME NEW l \in lines  PROVE Fine(l, m)
  <2>1. l \in Started(m) \/ (m.at["line"] # Empty /\ (l = m \/ l \in ReAllocated(m)))
    OBVIOUS
  <2>2. Fine(m, m)
    BY DEF Fine
  <2>3. QED  BY <1>1, <1>2, <2>1, <2>2
<1>4. q \in lines \/ \E l \in lines : q = Drop(l, "line")
  BY DEF Encode
<1> HIDE DEF lines
<1>5. ASSUME NEW l \in lines, q = Drop(l, "line")  PROVE Fine(q, m)
  <2>1. Good(l, Empty) /\ l.app = m.app
    BY <1>3 DEF Fine
  <2>2. Fine(Drop(l, "line"), l)
    BY <2>1, ThePlaces, DropOk
  <2>3. QED  BY <1>5, <2>1, <2>2 DEF Fine
<1>6. QED  BY <1>3, <1>4, <1>5

LEMMA ReorderOk ==
    ASSUME NEW m, Good(m, Empty), NEW q \in Reorder(m)
    PROVE  Fine(q, m) /\ q.at["parity"] = m.at["parity"]
<1> DEFINE d == Drop(m, "reorder")
<1>1. Good(d, Empty) /\ d.app = m.app /\ d.at = [m.at EXCEPT !["reorder"] = Empty]
  BY ThePlaces, DropOk DEF Fine
<1>2. q = m \/ q = d \/ q \in Afresh(d, "reorder")
  BY DEF Reorder
<1> HIDE DEF d
<1>3. d.at["reorder"] = Empty /\ d.at["parity"] = m.at["parity"]
  BY <1>1, AtIs, ThePlaces
<1>4. CASE q = m
  BY <1>4 DEF Fine
<1>5. CASE q = d
  BY <1>1, <1>3, <1>5 DEF Fine
<1>6. CASE q \in Afresh(d, "reorder")
  <2>1. Fine(q, d) /\ \A y \in Places : y # "reorder" => q.at[y] = d.at[y]
    <3> DEFINE x == "reorder"
    <3>1. x \in Places /\ d.at[x] = Empty /\ q \in Afresh(d, x) /\ Good(d, Empty)
      BY <1>1, <1>3, <1>6, ThePlaces
    <3> HIDE DEF x
    <3>2. Fine(q, d) /\ \A y \in Places : y # x => q.at[y] = d.at[y]
      BY <3>1, AfreshOk
    <3>3. QED  BY <3>2 DEF x
  <2>2. q.at["parity"] = d.at["parity"]
    BY <2>1, ThePlaces
  <2>3. QED  BY <1>1, <1>3, <2>1, <2>2 DEF Fine
<1>7. QED  BY <1>2, <1>4, <1>5, <1>6

LEMMA RestoreOk ==
    ASSUME NEW m, Good(m, Empty), m.at["parity"] # Empty, NEW q \in Restore(m)
    PROVE  Fine(q, m)
<1>1. CASE q = Drop(m, "parity")
  BY <1>1, ThePlaces, DropOk
<1>2. CASE \E r \in Reorder(m), x \in Slots :
              q = Drop(PushPack(r, x, m.at["parity"]), "parity")
  <2>1. PICK r \in Reorder(m), x \in Slots :
            q = Drop(PushPack(r, x, m.at["parity"]), "parity")
    BY <1>2
  <2> DEFINE c == m.at["parity"]
             p == PushPack(r, x, c)
  <2>2. Good(r, Empty) /\ r.app = m.app /\ r.at["parity"] = c
    BY ReorderOk DEF Fine
  <2>3. c \in Cells
    BY <2>2, ThePlaces, PlaceHolds
  <2> HIDE DEF c
  <2>4. Good(p, Empty) /\ p.app = r.app
    <3>1. x \in Places
      BY ThePlaces
    <3>2. Fine(p, r)
      BY <2>2, <2>3, <3>1, PushOk
    <3>3. QED  BY <3>2 DEF Fine
  <2>5. q = Drop(p, "parity")
    BY <2>1 DEF c
  <2> HIDE DEF p
  <2>6. Fine(Drop(p, "parity"), p)
    BY <2>4, ThePlaces, DropOk
  <2>7. QED  BY <2>2, <2>4, <2>5, <2>6 DEF Fine
<1>3. q = Drop(m, "parity") \/ \E r \in Reorder(m), x \in Slots :
                                  q = Drop(PushPack(r, x, m.at["parity"]), "parity")
  BY DEF Restore
<1>4. QED  BY <1>1, <1>2, <1>3

LEMMA TriedOk ==
    ASSUME NEW m, Good(m, Empty), NEW q \in Tried(m)
    PROVE  Fine(q, m)
<1>1. q = m \/ (m.at["parity"] # Empty /\ q \in Restore(m))
  BY DEF Tried
<1>2. QED  BY <1>1, RestoreOk DEF Fine

LEMMA CacheOk ==
    ASSUME NEW m, Good(m, Empty), NEW c \in Cells
    PROVE  Fine(Cache(m, c), m)
<1> DEFINE d == Drop(m, "parity")
<1>1. Good(d, Empty) /\ d.app = m.app /\ d.at = [m.at EXCEPT !["parity"] = Empty]
  BY ThePlaces, DropOk DEF Fine
<1>2. Cache(m, c) = Share(d, "parity", c)
  BY DEF Cache
<1> HIDE DEF d
<1>3. d.at["parity"] = Empty
  BY <1>1, AtIs, ThePlaces
<1>4. Fine(Share(d, "parity", c), d)
  BY <1>1, <1>3, ThePlaces, ShareOk
<1>5. QED  BY <1>1, <1>2, <1>4 DEF Fine

LEMMA AppFreeOk ==
    ASSUME NEW m, Good(m, Empty), NEW c \in Cells, m.app[c] > 0
    PROVE  Good(Free(m, c), Empty)
<1>1. Good(Give(m, c), c)
  BY MoveGive
<1>2. QED  BY <1>1, MoveFree DEF Free

\* The library and the application free the same packet.
LEMMA ConsumeOk ==
    ASSUME NEW m, Good(m, Empty), NEW c \in Cells, m.app[c] > 0
    PROVE  Good(Consume(m, c), Empty)
<1> DEFINE f == FreeTranBuf(m, c)
<1>1. Empty \in {c, Empty}
  OBVIOUS
<1>2. Good(f, Empty) /\ f.app = m.app
  BY <1>1, MoveFreeAny
<1> HIDE DEF f
<1>3. f.app[c] > 0
  BY <1>2
<1>4. Good(Free(f, c), Empty)
  BY <1>2, <1>3, AppFreeOk
<1>5. QED  BY <1>4 DEF Consume, f

LEMMA UnlistOk ==
    ASSUME NEW m, Good(m, Empty), NEW e \in m.arq
    PROVE  Fine(Unlist(m, e), m) /\ Unlist(m, e).arq = m.arq \ {e}
<1> DEFINE u == Unlisted(m, e)
           c == e.cell
<1>1. c \in Cells /\ Good(u, c) /\ u.app = m.app /\ u.arq = m.arq \ {e}
  BY MoveUnlist
<1>2. Unlist(m, e) = FreeTranBuf(u, c)
  BY DEF Unlist
<1> HIDE DEF u, c
<1>3. /\ Good(FreeTranBuf(u, c), Empty) /\ FreeTranBuf(u, c).app = u.app
      /\ FreeTranBuf(u, c).arq = u.arq
  BY <1>1, MoveFree
<1>4. QED  BY <1>1, <1>2, <1>3 DEF Fine

\* The loops are defined by recursion on the number of turns made.
UnlistBody(m, nodes, g, n) == IF n = 0 THEN m ELSE Unlist(g[n - 1], nodes[n])
DropBody(m, places, g, n) == IF n = 0 THEN m ELSE Drop(g[n - 1], places[n])

LEMMA UnlistingExists ==
    ASSUME NEW m, NEW nodes, NEW N \in Nat
    PROVE  \E g : g = [n \in 0 .. N |-> UnlistBody(m, nodes, g, n)]
<1> DEFINE Body(g, n) == UnlistBody(m, nodes, g, n)
           Fun(k, g) == g = [n \in 0 .. k |-> Body(g, n)]
           T == {k \in Nat : ~\E g : Fun(k, g)}
<1>1. SUFFICES ASSUME T # {} PROVE FALSE
  OBVIOUS
<1>2. PICK k \in T : \A y \in T : k <= y
  BY <1>1, LeastNatural
<1>3. CASE k = 0
  <2> DEFINE h == [n \in 0 .. 0 |-> m]
  <2>1. h = [n \in 0 .. 0 |-> Body(h, n)]
    BY DEF UnlistBody
  <2>2. QED  BY <1>3, <2>1
<1>4. CASE k # 0
  <2>1. k - 1 \in Nat /\ k - 1 \notin T
    BY <1>2, <1>4
  <2>2. PICK g : Fun(k - 1, g)
    BY <2>1
  <2> DEFINE h == [n \in 0 .. k |-> IF n = k THEN Body(g, k) ELSE g[n]]
  <2>3. ASSUME NEW n \in 0 .. k  PROVE h[n] = Body(h, n)
    <3>1. CASE n = k
      <4>1. h[k - 1] = g[k - 1] /\ h[k] = Body(g, k)
        BY <2>1
      <4> HIDE DEF h
      <4>2. QED  BY <3>1, <4>1, <2>1 DEF UnlistBody
    <3>2. CASE n # k
      <4>1. n \in 0 .. k - 1 /\ h[n] = g[n]
        BY <3>2, <2>1
      <4>2. g[n] = Body(g, n)
        BY <2>2, <4>1
      <4>3. n # 0 => h[n - 1] = g[n - 1]
        BY <4>1, <2>1
      <4> HIDE DEF h
      <4>4. QED  BY <4>1, <4>2, <4>3 DEF UnlistBody
    <3>3. QED  BY <3>1, <3>2
  <2>4. h = [n \in 0 .. k |-> Body(h, n)]
    <3>1. h = [n \in 0 .. k |-> h[n]]
      OBVIOUS
    <3> HIDE DEF h, Body
    <3>2. QED  BY <3>1, <2>3
  <2> HIDE DEF h
  <2>5. QED  BY <1>2, <2>4
<1>5. QED  BY <1>3, <1>4

LEMMA DroppingExists ==
    ASSUME NEW m, NEW places, NEW N \in Nat
    PROVE  \E g : g = [n \in 0 .. N |-> DropBody(m, places, g, n)]
<1> DEFINE Body(g, n) == DropBody(m, places, g, n)
           Fun(k, g) == g = [n \in 0 .. k |-> Body(g, n)]
           T == {k \in Nat : ~\E g : Fun(k, g)}
<1>1. SUFFICES ASSUME T # {} PROVE FALSE
  OBVIOUS
<1>2. PICK k \in T : \A y \in T : k <= y
  BY <1>1, LeastNatural
<1>3. CASE k = 0
  <2> DEFINE h == [n \in 0 .. 0 |-> m]
  <2>1. h = [n \in 0 .. 0 |-> Body(h, n)]
    BY DEF DropBody
  <2>2. QED  BY <1>3, <2>1
<1>4. CASE k # 0
  <2>1. k - 1 \in Nat /\ k - 1 \notin T
    BY <1>2, <1>4
  <2>2. PICK g : Fun(k - 1, g)
    BY <2>1
  <2> DEFINE h == [n \in 0 .. k |-> IF n = k THEN Body(g, k) ELSE g[n]]
  <2>3. ASSUME NEW n \in 0 .. k  PROVE h[n] = Body(h, n)
    <3>1. CASE n = k
      <4>1. h[k - 1] = g[k - 1] /\ h[k] = Body(g, k)
        BY <2>1
      <4> HIDE DEF h
      <4>2. QED  BY <3>1, <4>1, <2>1 DEF DropBody
    <3>2. CASE n # k
      <4>1. n \in 0 .. k - 1 /\ h[n] = g[n]
        BY <3>2, <2>1
      <4>2. g[n] = Body(g, n)
        BY <2>2, <4>1
      <4>3. n # 0 => h[n - 1] = g[n - 1]
        BY <4>1, <2>1
      <4> HIDE DEF h
      <4>4. QED  BY <4>1, <4>2, <4>3 DEF DropBody
    <3>3. QED  BY <3>1, <3>2
  <2>4. h = [n \in 0 .. k |-> Body(h, n)]
    <3>1. h = [n \in 0 .. k |-> h[n]]
      OBVIOUS
    <3> HIDE DEF h, Body
    <3>2. QED  BY <3>1, <2>3
  <2> HIDE DEF h
  <2>5. QED  BY <1>2, <2>4
<1>5. QED  BY <1>3, <1>4

LEMMA UnlistingDef ==
    ASSUME NEW m, NEW nodes, Len(nodes) \in Nat
    PROVE  \A n \in 0 .. Len(nodes) :
              Unlisting(m, nodes)[n] = UnlistBody(m, nodes, Unlisting(m, nodes), n)
<1>1. \E g : g = [n \in 0 .. Len(nodes) |-> UnlistBody(m, nodes, g, n)]
  BY UnlistingExists
<1>2. Unlisting(m, nodes) =
        [n \in 0 .. Len(nodes) |-> UnlistBody(m, nodes, Unlisting(m, nodes), n)]
  BY <1>1 DEF Unlisting, UnlistBody
<1>3. QED  BY <1>2

LEMMA DroppingDef ==
    ASSUME NEW m, NEW places, Len(places) \in Nat
    PROVE  \A n \in 0 .. Len(places) :
              Dropping(m, places)[n] = DropBody(m, places, Dropping(m, places), n)
<1>1. \E g : g = [n \in 0 .. Len(places) |-> DropBody(m, places, g, n)]
  BY DroppingExists
<1>2. Dropping(m, places) =
        [n \in 0 .. Len(places) |-> DropBody(m, places, Dropping(m, places), n)]
  BY <1>1 DEF Dropping, DropBody
<1>3. QED  BY <1>2

LEMMA OrderFacts ==
    ASSUME NEW S, IsFiniteSet(S), NEW s \in SetToSeqs(S)
    PROVE  /\ Len(s) = Cardinality(S) /\ Len(s) \in Nat /\ s \in Seq(S)
           /\ \A i \in 1 .. Len(s) : s[i] \in S
           /\ \A i, j \in 1 .. Len(s) : i # j => s[i] # s[j]
<1>1. Cardinality(S) \in Nat
  BY FS_CardinalityType
<1> DEFINE N == Cardinality(S)
<1>2. s \in [1 .. N -> S] /\ \A i, j \in 1 .. N : i # j => s[i] # s[j]
  BY DEF SetToSeqs
<1> HIDE DEF N
<1>3. N \in Nat
  BY <1>1 DEF N
<1>4. s \in Seq(S) /\ Len(s) = N
  BY <1>2, <1>3
<1>5. QED  BY <1>2, <1>3, <1>4 DEF N

\* Nodes leave one after the other; each is still listed when its turn comes.
LEMMA UnlistAllOk ==
    ASSUME NEW m, Good(m, Empty), NEW E \in SUBSET m.arq, NEW nodes \in SetToSeqs(E)
    PROVE  Fine(UnlistAll(m, nodes), m)
<1>1. IsFiniteSet(E)
  BY FS_Subset DEF Good, HoldersOk
<1>2. /\ Len(nodes) \in Nat /\ \A i \in 1 .. Len(nodes) : nodes[i] \in E
      /\ \A i, j \in 1 .. Len(nodes) : i # j => nodes[i] # nodes[j]
  BY <1>1, OrderFacts
<1> DEFINE G(n) == Unlisting(m, nodes)[n]
           Left(n) == \A i \in 1 .. Len(nodes) : i > n => nodes[i] \in G(n).arq
           Ok(n) == Fine(G(n), m) /\ Left(n)
           T == {n \in 0 .. Len(nodes) : ~Ok(n)}
<1>3. \A n \in 0 .. Len(nodes) : G(n) = IF n = 0 THEN m ELSE Unlist(G(n - 1), nodes[n])
  BY <1>2, UnlistingDef DEF UnlistBody
<1>4. SUFFICES ASSUME T # {} PROVE FALSE
  <2>1. Len(nodes) \in 0 .. Len(nodes)
    BY <1>2
  <2>2. QED  BY <2>1 DEF UnlistAll
<1> HIDE DEF G
<1>5. PICK n \in T : \A y \in T : n <= y
  <2>1. T \subseteq Nat
    BY <1>2
  <2>2. QED  BY <1>4, <2>1, LeastNatural
<1>6. CASE n = 0
  <2>1. G(0) = m
    BY <1>2, <1>3
  <2>2. Left(0)
    BY <1>2, <2>1
  <2>3. Fine(G(0), m)
    BY <2>1 DEF Fine
  <2>4. QED  BY <1>5, <1>6, <2>2, <2>3
<1>7. CASE n # 0
  <2>1. n - 1 \in 0 .. Len(nodes) /\ n \in 1 .. Len(nodes) /\ n - 1 < n
    BY <1>2, <1>5, <1>7
  <2>2. Ok(n - 1)
    BY <1>5, <2>1
  <2> DEFINE p == G(n - 1)
             e == nodes[n]
  <2>3. Good(p, Empty) /\ p.app = m.app /\ e \in p.arq
    <3>1. n > n - 1
      BY <2>1
    <3>2. QED  BY <2>1, <2>2, <3>1 DEF Fine
  <2>4. G(n) = Unlist(p, e)
    BY <1>3, <1>5, <1>7
  <2> HIDE DEF p, e
  <2>5. Fine(G(n), p) /\ G(n).arq = p.arq \ {e}
    BY <2>3, <2>4, UnlistOk
  <2>6. Fine(G(n), m)
    BY <2>3, <2>5 DEF Fine
  <2>7. Left(n)
    <3>1. SUFFICES ASSUME NEW i \in 1 .. Len(nodes), i > n PROVE nodes[i] \in G(n).arq
      OBVIOUS
    <3>2. i > n - 1 /\ i # n
      BY <1>2, <2>1, <3>1
    <3>3. nodes[i] \in p.arq
      BY <2>2, <3>2 DEF p
    <3>4. nodes[i] # e
      BY <1>2, <2>1, <3>2 DEF e
    <3>5. QED  BY <2>5, <3>3, <3>4
  <2>8. QED  BY <1>5, <2>6, <2>7
<1>8. QED  BY <1>6, <1>7

LEMMA DropAllOk ==
    ASSUME NEW m, Good(m, Empty), NEW q \in DropAll(m)
    PROVE  Fine(q, m)
<1>1. PICK slots \in SetToSeqs(Slots) :
          q = Dropping(m, <<"reorder", "line", "parity">> \o slots)[3 + Len(slots)]
  BY DEF DropAll
<1> DEFINE places == <<"reorder", "line", "parity">> \o slots
<1>2. Len(slots) \in Nat /\ slots \in Seq(Slots)
  BY MemoryAssumption, OrderFacts
<1>3. slots \in Seq(Places) /\ <<"reorder", "line", "parity">> \in Seq(Places)
      /\ Len(<<"reorder", "line", "parity">>) = 3
  BY <1>2, ThePlaces
<1>4. places \in Seq(Places) /\ Len(places) = 3 + Len(slots)
  BY <1>3
<1> HIDE DEF places
<1>5. Len(places) \in Nat /\ \A i \in 1 .. Len(places) : places[i] \in Places
  BY <1>4
<1>6. q = Dropping(m, places)[Len(places)]
  BY <1>1, <1>4 DEF places
<1> DEFINE G(n) == Dropping(m, places)[n]
           T == {n \in 0 .. Len(places) : ~Fine(G(n), m)}
<1>7. \A n \in 0 .. Len(places) : G(n) = IF n = 0 THEN m ELSE Drop(G(n - 1), places[n])
  BY <1>5, DroppingDef DEF DropBody
<1>8. SUFFICES ASSUME T # {} PROVE FALSE
  <2>1. Len(places) \in 0 .. Len(places)
    BY <1>5
  <2>2. QED  BY <1>6, <2>1
<1> HIDE DEF G
<1>9. PICK n \in T : \A y \in T : n <= y
  <2>1. T \subseteq Nat
    BY <1>5
  <2>2. QED  BY <1>8, <2>1, LeastNatural
<1>10. CASE n = 0
  <2>1. G(0) = m
    BY <1>5, <1>7
  <2>2. QED  BY <1>9, <1>10, <2>1 DEF Fine
<1>11. CASE n # 0
  <2>1. n - 1 \in 0 .. Len(places) /\ n \in 1 .. Len(places) /\ n - 1 < n
    BY <1>5, <1>9, <1>11
  <2>2. Fine(G(n - 1), m)
    BY <1>9, <2>1
  <2> DEFINE p == G(n - 1)
  <2>3. Good(p, Empty) /\ p.app = m.app
    BY <2>2 DEF Fine
  <2>4. G(n) = Drop(p, places[n])
    BY <1>7, <1>9, <1>11
  <2> HIDE DEF p
  <2>5. Fine(Drop(p, places[n]), p)
    BY <1>5, <2>1, <2>3, DropOk
  <2>6. QED  BY <1>9, <2>3, <2>4, <2>5 DEF Fine
<1>12. QED  BY <1>10, <1>11

-----------------------------------------------------------------------------
(* The theorems. *)

LEMMA NothingHeld ==
    ASSUME NEW m, m.app = [c \in Cells |-> 0], m.arq = {}, m.at = [x \in Places |-> Empty],
           NEW c \in Cells
    PROVE  HoldersIn(m, c) = 0
<1>1. {e \in m.arq : e.cell = c} = {} /\ {x \in Places : m.at[x] = c} = {} /\ m.app[c] = 0
  BY CellFacts
<1>2. Cardinality({}) = 0
  BY FS_EmptySet
<1>3. QED  BY <1>1, <1>2 DEF HoldersIn

LEMMA NewPool ==
    ASSUME NEW k \in Classes, NEW b \in SUBSET Uncleared(k)
    PROVE  LET p == CreateTranBufPool(k, b) IN
           PoolOk(p, k) /\ p.ref = [i \in Positions(k) |-> 0]
<1> DEFINE p == CreateTranBufPool(k, b)
           r == [i \in Positions(k) |-> 0]
<1>1. /\ p.bits = b /\ p.used = {} /\ p.last = 0 /\ p.usedNum = 0 /\ p.freeNum = Sizes[k]
      /\ p.ref = r
      /\ p = [bits |-> b, used |-> {}, ref |-> r, last |-> 0, usedNum |-> 0, freeNum |-> Sizes[k]]
  BY DEF CreateTranBufPool
<1>2. Sizes[k] \in Nat /\ Words(k) \in Nat /\ Word \in Nat /\ Word >= 1
  BY ClassFacts, WordFacts
<1>3. r \in [Positions(k) -> Nat] /\ \A i \in Positions(k) : r[i] = 0
  OBVIOUS
<1> HIDE DEF p, r
<1>4. b \in SUBSET Nat /\ {} \in SUBSET Nat /\ 0 \in Nat /\ Sizes[k] \in Int /\ (Words(k) > 0 => b = {})
  BY <1>2 DEF Uncleared, Positions
<1>5. p \in PoolType(k)
  <2>1. p = [bits |-> b, used |-> {}, ref |-> r, last |-> 0, usedNum |-> 0, freeNum |-> Sizes[k]]
    BY <1>1
  <2>2. QED  BY <1>3, <1>4, <2>1, PoolMade, Zenon
<1>6. Searched(p.last \div Word, k)
  BY <1>1, <1>2 DEF Searched
<1>7. p.used = {i \in Positions(k) : p.ref[i] > 0}
  BY <1>1, <1>3
<1>8. p.usedNum = Cardinality(p.used) /\ p.freeNum = Sizes[k] - p.usedNum
  BY <1>1, <1>2, FS_EmptySet
<1>9. PoolOk(p, k)
  BY <1>1, <1>4, <1>5, <1>6, <1>7, <1>8 DEF PoolOk
<1>10. QED  BY <1>1, <1>9 DEF p, r

LEMMA InitInv == Init => Inv
<1> SUFFICES ASSUME Init PROVE Inv
  OBVIOUS
<1>0. PICK bits :
          /\ \A k \in Classes : bits[k] \subseteq Uncleared(k)
          /\ mem = [pool |-> [k \in Classes |-> CreateTranBufPool(k, bits[k])],
                    node |-> NodePool,
                    app |-> [c \in Cells |-> 0], arq |-> {}, at |-> [x \in Places |-> Empty]]
  BY DEF Init
<1>1. /\ IsMem(mem) /\ mem.pool = [k \in Classes |-> CreateTranBufPool(k, bits[k])]
      /\ mem.node = NodePool /\ mem.app = [c \in Cells |-> 0] /\ mem.arq = {}
      /\ mem.at = [x \in Places |-> Empty]
  BY <1>0 DEF IsMem
<1>2. PoolsOk(mem)
  <2>1. \A k \in Classes : mem.pool[k] = CreateTranBufPool(k, bits[k])
    BY <1>1
  <2>2. ASSUME NEW k \in Classes  PROVE PoolOk(mem.pool[k], k)
    BY <1>0, <2>1, NewPool
  <2>3. mem.pool = [k \in Classes |-> mem.pool[k]]
    BY <1>1
  <2>4. QED  BY <2>2, <2>3 DEF PoolsOk
<1>3. HoldersOk(mem)
  BY <1>1, FS_EmptySet DEF HoldersOk
<1>4. NodesOk(mem.node, mem.arq)
  <2> DEFINE n == NodePool
  <2>1. /\ n.bits = {} /\ n.used = {} /\ n.quote = [i \in Nodes |-> 0] /\ n.last = 0 /\ n.using = 0
    BY DEF NodePool
  <2>2. 0 \in Nodes
    BY NodeWords DEF Nodes
  <2>3. Cardinality({}) = 0
    BY FS_EmptySet
  <2> HIDE DEF n
  <2>4. NodesOk(n, {})
    BY <2>1, <2>2, <2>3 DEF NodesOk
  <2>5. QED  BY <1>1, <2>4 DEF n
<1>5. CountsOk(mem, Empty)
  <2>1. SUFFICES ASSUME NEW c \in Cells
                 PROVE  RefIn(mem, c) <= HoldersIn(mem, c) + InHand(c, Empty)
    BY DEF CountsOk
  <2>2. c[1] \in Classes /\ c[2] \in Positions(c[1]) /\ c # Empty
    BY CellFacts
  <2>3. mem.pool[c[1]] = CreateTranBufPool(c[1], bits[c[1]])
    BY <1>1, <2>2
  <2>4. CreateTranBufPool(c[1], bits[c[1]]).ref = [i \in Positions(c[1]) |-> 0]
    BY <1>0, <2>2, NewPool
  <2>5. RefIn(mem, c) = 0
    BY <2>2, <2>3, <2>4 DEF RefIn
  <2>6. HoldersIn(mem, c) = 0
    BY <1>1, NothingHeld
  <2>7. InHand(c, Empty) = 0
    BY <2>2 DEF InHand
  <2>8. QED  BY <2>5, <2>6, <2>7
<1>6. QED  BY <1>1, <1>2, <1>3, <1>4, <1>5 DEF Inv, Good

LEMMA NextInv == Inv /\ [Next]_vars => Inv'
<1> SUFFICES ASSUME Good(mem, Empty), [Next]_vars PROVE Good(mem', Empty)
  BY DEF Inv
<1>1. CASE GtpMallocPackMem
  <2>3. PICK k \in Classes : \E c \in MallocTranBuf(mem, k) : mem' = Keep(Taken(mem, c), c)
    BY <1>1 DEF GtpMallocPackMem
  <2>1. PICK c \in MallocTranBuf(mem, k) : mem' = Keep(Taken(mem, c), c)
    BY <2>3
  <2>2. c \in Cells /\ Good(Taken(mem, c), c)
    BY MoveTake
  <2>4. QED  BY <2>1, <2>2, MoveKeep
<1>2. CASE GtpMallocPackMemBehind
  <2>1. PICK c \in Cells : mem.app[c] > 0 /\ mem' = Keep(RefAddOne(mem, c), c)
    BY <1>2 DEF GtpMallocPackMemBehind, AppHolds
  <2>2. Good(RefAddOne(mem, c), c)
    BY <2>1, MoveAdd
  <2>3. QED  BY <2>1, <2>2, MoveKeep
<1>3. CASE GtpFreePackMem
  BY <1>3, AppFreeOk DEF GtpFreePackMem, AppHolds
<1>4. CASE GtpFrameSend
  <2>1. PICK c \in Cells, m \in {mem} \cup Encode(mem) :
            mem.app[c] > 0 /\ \E q \in {m} \cup PacketEntryList(m, c) : mem' = Free(q, c)
    BY <1>4 DEF GtpFrameSend, AppHolds
  <2>2. Good(m, Empty) /\ m.app = mem.app
    BY EncodeOk DEF Fine
  <2>3. PICK q \in {m} \cup PacketEntryList(m, c) : mem' = Free(q, c)
    BY <2>1
  <2>4. Good(q, Empty) /\ q.app = mem.app
    BY <2>2, EntryOk DEF Fine
  <2>5. q.app[c] > 0
    BY <2>1, <2>4
  <2>6. QED  BY <2>3, <2>4, <2>5, AppFreeOk
<1>5. CASE ReceiveData
  <2>0. PICK c \in Cells :
            /\ mem.app[c] > 0
            /\ \E m \in {mem} \cup UNION {Tried(PushPack(mem, x, c)) : x \in Slots} :
                 \E q \in Reorder(m) : mem' = Free(q, c)
    BY <1>5 DEF ReceiveData, AppHolds
  <2>1. PICK m \in {mem} \cup UNION {Tried(PushPack(mem, x, c)) : x \in Slots} :
            \E q \in Reorder(m) : mem' = Free(q, c)
    BY <2>0
  <2>2. Good(m, Empty) /\ m.app = mem.app
    <3>1. CASE m = mem
      BY <3>1
    <3>2. CASE \E x \in Slots : m \in Tried(PushPack(mem, x, c))
      <4>1. PICK x \in Slots : m \in Tried(PushPack(mem, x, c))
        BY <3>2
      <4>2. x \in Places
        BY ThePlaces
      <4>3. Good(PushPack(mem, x, c), Empty) /\ PushPack(mem, x, c).app = mem.app
        BY <4>2, PushOk DEF Fine
      <4>4. Fine(m, PushPack(mem, x, c))
        BY <4>1, <4>3, TriedOk
      <4>5. QED  BY <4>3, <4>4 DEF Fine
    <3>3. QED  BY <3>1, <3>2
  <2>3. PICK q \in Reorder(m) : mem' = Free(q, c)
    BY <2>1
  <2>4. Good(q, Empty) /\ q.app = mem.app
    BY <2>2, ReorderOk DEF Fine
  <2>5. q.app[c] > 0
    BY <2>0, <2>4
  <2>6. QED  BY <2>3, <2>4, <2>5, AppFreeOk
<1>6. CASE ReceiveFec
  <2>0. PICK c \in Cells :
            mem.app[c] > 0 /\ \E m \in {mem} \cup Tried(Cache(mem, c)) : mem' = Consume(m, c)
    BY <1>6 DEF ReceiveFec, AppHolds
  <2>1. PICK m \in {mem} \cup Tried(Cache(mem, c)) : mem' = Consume(m, c)
    BY <2>0
  <2>2. Good(Cache(mem, c), Empty) /\ Cache(mem, c).app = mem.app
    BY <2>0, CacheOk DEF Fine
  <2>3. Good(m, Empty) /\ m.app = mem.app
    <3>1. CASE m = mem
      BY <3>1
    <3>2. CASE m \in Tried(Cache(mem, c))
      <4>1. Fine(m, Cache(mem, c))
        BY <2>2, <3>2, TriedOk
      <4>2. QED  BY <2>2, <4>1 DEF Fine
    <3>3. QED  BY <3>1, <3>2
  <2>4. m.app[c] > 0
    BY <2>0, <2>3
  <2>5. QED  BY <2>1, <2>3, <2>4, ConsumeOk
<1>7. CASE ReceiveReport
  <2>0. PICK c \in Cells, E \in SUBSET mem.arq :
            /\ mem.app[c] > 0
            /\ \E nodes \in SetToSeqs(E) : mem' = Consume(UnlistAll(mem, nodes), c)
    BY <1>7 DEF ReceiveReport, AppHolds
  <2>1. PICK nodes \in SetToSeqs(E) : mem' = Consume(UnlistAll(mem, nodes), c)
    BY <2>0
  <2> DEFINE u == UnlistAll(mem, nodes)
  <2>2. Good(u, Empty) /\ u.app = mem.app
    BY UnlistAllOk DEF Fine
  <2>3. mem' = Consume(u, c)
    BY <2>1
  <2> HIDE DEF u
  <2>4. u.app[c] > 0
    BY <2>0, <2>2
  <2>5. QED  BY <2>2, <2>3, <2>4, ConsumeOk
<1>8. CASE TranFailed
  <2>1. CASE \E e \in mem.arq : mem' = Unlist(mem, e)
    BY <2>1, UnlistOk DEF Fine
  <2>2. CASE \E k \in Classes : mem' \in CloneBoostNode(mem, k)
    BY <2>2, CloneOk DEF Fine
  <2>3. QED  BY <1>8, <2>1, <2>2 DEF TranFailed
<1>9. CASE Expire
  <2>1. PICK x \in Places : mem' = Drop(mem, x)
    BY <1>9 DEF Expire
  <2>2. Fine(Drop(mem, x), mem)
    BY DropOk
  <2>3. QED  BY <2>1, <2>2 DEF Fine
<1>10. CASE ClearArqList
  <2>1. PICK nodes \in SetToSeqs(mem.arq) : mem' = UnlistAll(mem, nodes)
    BY <1>10 DEF ClearArqList
  <2>2. QED  BY <2>1, UnlistAllOk DEF Fine
<1>11. CASE ResetSession
  BY <1>11, DropAllOk DEF ResetSession, Fine
<1>12. CASE DelSession
  <2>1. PICK nodes \in SetToSeqs(mem.arq) : mem' \in DropAll(UnlistAll(mem, nodes))
    BY <1>12 DEF DelSession
  <2>2. Good(UnlistAll(mem, nodes), Empty)
    BY UnlistAllOk DEF Fine
  <2>3. QED  BY <2>1, <2>2, DropAllOk DEF Fine
<1>13. CASE UNCHANGED vars
  BY <1>13 DEF vars
<1>14. QED
  BY <1>1, <1>2, <1>3, <1>4, <1>5, <1>6, <1>7, <1>8, <1>9, <1>10, <1>11, <1>12, <1>13 DEF Next

LEMMA InvAlways == Spec => []Inv
<1>1. QED  BY InitInv, NextInv, PTL DEF Spec

LEMMA CountedHeld ==
    ASSUME Inv, NEW k \in Classes, NEW i \in mem.pool[k].used
    PROVE  /\ <<k, i>> \in Cells /\ Ref(<<k, i>>) \in Nat /\ Holders(<<k, i>>) \in Nat
           /\ Ref(<<k, i>>) > 0 /\ Ref(<<k, i>>) <= Holders(<<k, i>>)
<1> DEFINE p == mem.pool[k]
           c == <<k, i>>
<1>1. PoolOk(p, k)
  BY DEF Inv, Good, PoolsOk
<1>2. i \in Positions(k) /\ p.ref[i] > 0
  BY <1>1 DEF PoolOk
<1>3. c \in Cells /\ c[1] = k /\ c[2] = i
  BY <1>2, CellIs
<1>4. p.ref[i] \in Nat /\ HoldersIn(mem, c) \in Nat /\ p.ref[i] <= HoldersIn(mem, c) + InHand(c, Empty)
  <2> HIDE DEF c, p
  <2>1. /\ mem.pool[c[1]].ref[c[2]] <= HoldersIn(mem, c) + InHand(c, Empty)
        /\ mem.pool[c[1]].ref[c[2]] \in Nat /\ HoldersIn(mem, c) \in Nat
    BY <1>3, PoolAt DEF Inv
  <2>2. QED  BY <1>3, <2>1 DEF p
<1>5. Ref(c) = p.ref[i] /\ Holders(c) = HoldersIn(mem, c)
  BY DEF Ref, RefIn, Holders
<1>6. InHand(c, Empty) = 0
  BY <1>3, NotInHand
<1> HIDE DEF p, c
<1>7. c \in Cells /\ Ref(c) \in Nat /\ Holders(c) \in Nat /\ Ref(c) > 0 /\ Ref(c) <= Holders(c)
  BY <1>2, <1>3, <1>4, <1>5, <1>6
<1>8. QED  BY <1>7 DEF c

LEMMA InvNeverLost == Inv => NeverLost
<1> SUFFICES ASSUME Inv, NEW k \in Classes, NEW i \in mem.pool[k].used
             PROVE  Ref(<<k, i>>) \in 1 .. Holders(<<k, i>>)
  BY DEF NeverLost
<1> DEFINE a == Ref(<<k, i>>)
           b == Holders(<<k, i>>)
<1>1. a \in Nat /\ b \in Nat /\ a > 0 /\ a <= b
  BY CountedHeld
<1> HIDE DEF a, b
<1>2. a \in 1 .. b
  BY <1>1
<1>3. QED  BY <1>2 DEF a, b

LEMMA InvBooksAgree == Inv => BooksAgree
<1> SUFFICES ASSUME Inv PROVE BooksAgree
  OBVIOUS
<1>1. ASSUME NEW k \in Classes
      PROVE  LET p == mem.pool[k]
             IN  /\ p.used \subseteq p.bits /\ (Words(k) > 0 => p.bits = p.used)
                 /\ p.usedNum = Cardinality(p.used) /\ p.freeNum = Sizes[k] - p.usedNum
  <2> DEFINE p == mem.pool[k]
  <2>1. PoolOk(p, k)
    BY DEF Inv, Good, PoolsOk
  <2> HIDE DEF p
  <2>2. QED  BY <2>1 DEF PoolOk, p
<1>2. /\ mem.node.bits = mem.node.used /\ mem.node.used = {e.node : e \in mem.arq}
      /\ mem.node.using = Cardinality(mem.arq)
  BY DEF Inv, Good, NodesOk
<1>3. QED  BY <1>1, <1>2 DEF BooksAgree

LEMMA InvNoFalseShortage == Inv => NoFalseShortage
<1> SUFFICES ASSUME Inv PROVE NoFalseShortage
  OBVIOUS
<1>1. ASSUME NEW k \in Classes, MallocTranBuf(mem, k) = {}, NEW c \in Cells, c[1] >= k,
             c[2] < Words(c[1]) * Word
      PROVE  Holders(c) > 0
  <2> DEFINE ready == {j \in Classes : j >= k /\ FreeElement(mem.pool[j], j) # {}}
             p == mem.pool[c[1]]
  <2>1. ready = {}
    <3>1. SUFFICES ASSUME ready # {} PROVE FALSE
      OBVIOUS
    <3>2. ready \subseteq Nat
      BY MemoryAssumption DEF Classes
    <3>3. Min(ready) \in ready
      BY <3>1, <3>2, MinFacts
    <3>4. MallocTranBuf(mem, k)
            = {<<Min(ready), i>> : i \in FreeElement(mem.pool[Min(ready)], Min(ready))}
      BY <3>1 DEF MallocTranBuf
    <3>5. FreeElement(mem.pool[Min(ready)], Min(ready)) # {}
      BY <3>3
    <3> HIDE DEF ready
    <3>6. QED  BY <1>1, <3>4, <3>5
  <2>2. c[1] \in Classes /\ c[2] \in Positions(c[1])
    BY CellFacts
  <2>3. FreeElement(p, c[1]) = {}
    BY <1>1, <2>1, <2>2
  <2>4. PoolOk(p, c[1])
    BY <2>2 DEF Inv, Good, PoolsOk
  <2>5. c[2] \in 0 .. Words(c[1]) * Word - 1
    BY <1>1, <2>2, ClassFacts DEF Positions
  <2> HIDE DEF p
  <2>6. c[2] \in p.used
    BY <2>2, <2>3, <2>4, <2>5, FreeElementFacts
  <2>7. c = <<c[1], c[2]>>
    BY CellFacts
  <2>8. /\ Ref(<<c[1], c[2]>>) \in Nat /\ Holders(<<c[1], c[2]>>) \in Nat
        /\ Ref(<<c[1], c[2]>>) > 0 /\ Ref(<<c[1], c[2]>>) <= Holders(<<c[1], c[2]>>)
    BY <2>2, <2>6, CountedHeld DEF p
  <2>9. Ref(c) \in Nat /\ Holders(c) \in Nat /\ Ref(c) > 0 /\ Ref(c) <= Holders(c)
    BY <2>7, <2>8, Zenon
  <2>10. QED  BY <2>9
<1>2. ASSUME FreeItemPos(mem.node) = {}  PROVE Cardinality(mem.arq) = NodeNum
  BY <1>2, FreeItemFacts DEF Inv, Good, HoldersOk
<1>3. QED  BY <1>1, <1>2 DEF NoFalseShortage

\* No buffer is lost, for pools of every size and any number of packets: the count
\* of one in use is at most the number of those who keep it, although FEC, ACK and
\* NACK packets are freed by PackPostHandler and by the application.
THEOREM NeverLostHolds == Spec => []NeverLost
<1>1. QED  BY InvAlways, InvNeverLost, PTL

\* The bitmap MallocTranBufElement searches, the flags FreeTranBuf looks at and the
\* counters agree, also after a buffer was freed twice, and the node pool of the ARQ
\* list knows exactly the listed nodes.
THEOREM BooksAgreeHolds == Spec => []BooksAgree
<1>1. QED  BY InvAlways, InvBooksAgree, PTL

\* A buffer or a node is refused only when all that the bitmaps cover are taken; a
\* pool below one word, which has no bitmap, promises nothing.
THEOREM NoFalseShortageHolds == Spec => []NoFalseShortage
<1>1. QED  BY InvAlways, InvNoFalseShortage, PTL
=============================================================================
