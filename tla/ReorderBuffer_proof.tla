------------------------ MODULE ReorderBuffer_proof ------------------------
(***************************************************************************)
(* Safety of the reorder buffer for every ring size and every stream of    *)
(* packets: the invariants TypeOK, HeadEmpty, SlotPlacement and TimerArmed *)
(* together are inductive, and StepsInOrder follows from them.             *)
(***************************************************************************)
EXTENDS ReorderBuffer, WellFoundedInduction, TLAPS

-----------------------------------------------------------------------------
(* Arithmetic.  Below SnMod, sums and differences modulo SnMod are linear. *)

\* Every non-empty set of naturals has a least element.
LEMMA LeastNatural ==
    ASSUME NEW T, T \subseteq Nat, T # {}
    PROVE  \E x \in T : \A y \in T : x <= y
<1>1. \E R : /\ \A x, y \in Nat : <<y, x>> \in R <=> y < x
             /\ \E x \in T : \A y \in T : ~ (<<y, x>> \in R)
  <2>1. \E x \in T : \A y \in T : ~ (<<y, x>> \in OpToRel(<, Nat))
    BY NatLessThanWellFounded, WFMin
  <2>2. \A x, y \in Nat : <<y, x>> \in OpToRel(<, Nat) <=> y < x
    BY DEF OpToRel
  <2>3. QED  BY <2>1, <2>2, Zenon
<1>2. PICK R : /\ \A x, y \in Nat : <<y, x>> \in R <=> y < x
               /\ \E x \in T : \A y \in T : ~ (<<y, x>> \in R)
  BY <1>1
<1>3. PICK x \in T : \A y \in T : ~ (<<y, x>> \in R)
  BY <1>2
<1>4. \A y \in T : ~ (y < x)
  BY <1>2, <1>3
<1>5. QED  BY <1>4

LEMMA Laps == \E k \in Nat : SnMod = k * BufSize
<1>1. PICK k \in 2 .. SnMod : SnMod = 2 * k * BufSize
  BY SizesAssumption
<1>2. SnMod = (2 * k) * BufSize /\ 2 * k \in Nat
  BY <1>1, SizesAssumption
<1>3. QED  BY <1>2

LEMMA SizeFacts ==
    BufSize \in Nat /\ BufSize >= 1 /\ SnMod \in Nat /\ SnMod >= 4 * BufSize
<1>1. PICK k \in 2 .. SnMod : SnMod = 2 * k * BufSize
  BY SizesAssumption
<1>2. BufSize \in Nat /\ BufSize >= 1 /\ SnMod \in Nat
  BY SizesAssumption
<1>3. k * BufSize >= 2 * BufSize
  BY <1>1, <1>2
<1>4. 2 * k * BufSize = 2 * (k * BufSize)
  BY <1>1, <1>2
<1>5. QED  BY <1>1, <1>2, <1>3, <1>4

\* SnMod is the modulus, SN the residues.
LEMMA PlusLinear ==
    ASSUME NEW n \in SN, NEW j \in 0 .. SnMod
    PROVE  /\ Plus(n, j) \in SN
           /\ Plus(n, j) = IF n + j < SnMod THEN n + j ELSE n + j - SnMod
BY SizeFacts DEF Plus, SN

LEMMA DistLinear ==
    ASSUME NEW a \in SN, NEW b \in SN
    PROVE  /\ Dist(a, b) \in SN
           /\ Dist(a, b) = IF b <= a THEN a - b ELSE a - b + SnMod
BY SizeFacts DEF Dist, SN

LEMMA DivMod ==
    ASSUME NEW a \in Int, NEW b \in Nat, b >= 1
    PROVE  \E q \in Int, r \in 0 .. b - 1 : a = b * q + r /\ (a % b) = r
<1>1. a \div b \in Int /\ (a % b) \in 0 .. b - 1
  OBVIOUS
<1>2. a = b * (a \div b) + (a % b)
  OBVIOUS
<1>3. QED  BY <1>1, <1>2

\* Less than one multiple apart means equal.
LEMMA NoMultipleBetween ==
    ASSUME NEW b \in Nat, b >= 1, NEW q \in Int, b * q > 0 - b, b * q < b
    PROVE  q = 0
<1>1. CASE q >= 1
  <2>1. b * q >= b
    BY <1>1
  <2>2. QED  BY <2>1
<1>2. CASE q <= -1
  <2>1. b * q <= 0 - b
    BY <1>2
  <2>2. QED  BY <2>1
<1>3. QED  BY <1>1, <1>2

\* Two numbers that differ by a multiple of b have the same residue.
LEMMA ModShift ==
    ASSUME NEW a \in Int, NEW c \in Int, NEW b \in Nat, b >= 1,
           NEW k \in Int, c = a + b * k
    PROVE  (c % b) = (a % b)
<1>1. PICK q \in Int, r \in 0 .. b - 1 : a = b * q + r /\ (a % b) = r
  BY DivMod
<1>2. PICK p \in Int, s \in 0 .. b - 1 : c = b * p + s /\ (c % b) = s
  BY DivMod
<1> DEFINE t == (q + k) - p
<1>3. b * t = (b * q + b * k) - b * p
  OBVIOUS
<1>4. a = b * q + r /\ c = b * p + s
  BY <1>1, <1>2
<1>5. b * t = s - r
  BY <1>3, <1>4
<1>6. t = 0
  BY <1>5, NoMultipleBetween
<1>7. s = r
  BY <1>5, <1>6
<1>8. QED  BY <1>1, <1>2, <1>7

\* Residues of numbers less than b apart are different.
LEMMA ModInjective ==
    ASSUME NEW a \in Int, NEW c \in Int, NEW b \in Nat, b >= 1,
           a < c, c < a + b
    PROVE  (a % b) # (c % b)
<1>1. PICK q \in Int, r \in 0 .. b - 1 : a = b * q + r /\ (a % b) = r
  BY DivMod
<1>2. PICK p \in Int, s \in 0 .. b - 1 : c = b * p + s /\ (c % b) = s
  BY DivMod
<1>3. SUFFICES ASSUME r = s PROVE FALSE
  BY <1>1, <1>2
<1> DEFINE t == p - q
<1>4. b * t = b * p - b * q
  OBVIOUS
<1>5. a = b * q + r /\ c = b * p + r
  BY <1>1, <1>2, <1>3
<1>6. b * t = c - a
  BY <1>4, <1>5
<1>7. t = 0
  BY <1>6, NoMultipleBetween
<1>8. QED  BY <1>6, <1>7

-----------------------------------------------------------------------------
(* Slots. *)

LEMMA SlotOfPlus ==
    ASSUME NEW n \in SN, NEW j \in 0 .. SnMod
    PROVE  /\ SlotOf(Plus(n, j)) = (n + j) % BufSize
           /\ SlotOf(Plus(n, j)) \in Slots
<1>1. PICK k \in Nat : SnMod = k * BufSize
  BY Laps
<1>2. BufSize \in Nat /\ BufSize >= 1 /\ SnMod \in Nat /\ n \in Nat /\ j \in Nat
  BY SizeFacts DEF SN
<1>3. n + j - SnMod = (n + j) + BufSize * (0 - k)
  BY <1>1, <1>2
<1>4. (n + j - SnMod) % BufSize = (n + j) % BufSize
  <2>1. n + j \in Int /\ 0 - k \in Int /\ n + j - SnMod \in Int
    BY <1>2
  <2> DEFINE a == n + j
             c == n + j - SnMod
             m == 0 - k
  <2>2. a \in Int /\ c \in Int /\ m \in Int /\ c = a + BufSize * m
    BY <2>1, <1>3
  <2> HIDE DEF a, c, m
  <2>3. c % BufSize = a % BufSize
    BY <2>2, <1>2, ModShift
  <2> QED  BY <2>3 DEF a, c
<1>5. SlotOf(Plus(n, j)) = (n + j) % BufSize
  BY <1>2, <1>4, PlusLinear DEF SlotOf
<1>6. (n + j) % BufSize \in 0 .. BufSize - 1
  BY <1>2
<1>7. QED  BY <1>5, <1>6 DEF Slots

\* Sequence numbers less than a ring apart have different slots.
LEMMA SlotsDiffer ==
    ASSUME NEW n \in SN, NEW i \in 0 .. SnMod, NEW j \in 0 .. SnMod,
           i < j, j < i + BufSize
    PROVE  SlotOf(Plus(n, i)) # SlotOf(Plus(n, j))
<1>1. n + i \in Int /\ n + j \in Int /\ n + i < n + j /\ n + j < (n + i) + BufSize
  BY SizeFacts DEF SN
<1>2. (n + i) % BufSize # (n + j) % BufSize
  BY <1>1, SizeFacts, ModInjective
<1>3. QED  BY <1>2, SlotOfPlus

\* One ring further on is the same slot.
LEMMA SlotWraps ==
    ASSUME NEW n \in SN
    PROVE  SlotOf(Plus(n, BufSize)) = SlotOf(n)
<1>1. n + BufSize = n + BufSize * 1 /\ n \in Int /\ n + BufSize \in Int
  BY SizeFacts DEF SN
<1>2. (n + BufSize) % BufSize = n % BufSize
  BY ONLY <1>1, SizeFacts, ModShift, 1 \in Int
<1>3. BufSize \in 0 .. SnMod
  BY SizeFacts
<1>4. QED  BY <1>2, <1>3, SlotOfPlus DEF SlotOf

LEMMA SeqOfFunction ==
    ASSUME NEW S, NEW n \in Nat, NEW f \in [1 .. n -> S]
    PROVE  f \in Seq(S) /\ Len(f) = n
OBVIOUS

LEMMA SortKeyType ==
    ASSUME NEW p \in Packets
    PROVE  SortKey(p) \in SN /\ p.sn \in SN /\ p # None
BY PacketsAssumption DEF SortKey

\* A number is reached from another by its distance.
LEMMA PlusDist ==
    ASSUME NEW n \in SN, NEW key \in SN
    PROVE  /\ Plus(n, Dist(key, n)) = key
           /\ Dist(key, n) \in 0 .. SnMod
<1>1. Dist(key, n) \in 0 .. SnMod
  BY DistLinear, SizeFacts DEF SN
<1> DEFINE d == Dist(key, n)
<1>2. d = IF n <= key THEN key - n ELSE key - n + SnMod
  BY DistLinear
<1>3. Plus(n, d) = IF n + d < SnMod THEN n + d ELSE n + d - SnMod
  BY <1>1, PlusLinear
<1> HIDE DEF d
<1>4. Plus(n, d) = key
  BY <1>2, <1>3, SizeFacts DEF SN
<1>5. QED  BY <1>1, <1>4 DEF d

\* Moving the base forward shortens a distance by as much.
LEMMA DistShift ==
    ASSUME NEW n \in SN, NEW key \in SN, NEW e \in 0 .. SnMod, e <= Dist(key, n)
    PROVE  Dist(key, Plus(n, e)) = Dist(key, n) - e
<1> DEFINE m == Plus(n, e)
           d == Dist(key, n)
<1>1. m \in SN /\ m = IF n + e < SnMod THEN n + e ELSE n + e - SnMod
  BY PlusLinear
<1>2. d \in SN /\ d = IF n <= key THEN key - n ELSE key - n + SnMod
  BY DistLinear
<1>3. Dist(key, m) = IF m <= key THEN key - m ELSE key - m + SnMod
  BY <1>1, DistLinear
<1>4. e <= d
  OBVIOUS
<1> HIDE DEF m, d
<1>5. Dist(key, m) = d - e
  BY <1>1, <1>2, <1>3, <1>4, SizeFacts DEF SN
<1>6. QED  BY <1>5 DEF m, d

LEMMA PlusPlus ==
    ASSUME NEW n \in SN, NEW i \in 0 .. BufSize, NEW j \in 0 .. BufSize
    PROVE  Plus(Plus(n, i), j) = Plus(n, i + j)
<1>1. i \in 0 .. SnMod /\ j \in 0 .. SnMod /\ i + j \in 0 .. SnMod
  BY SizeFacts
<1> DEFINE m == Plus(n, i)
<1>2. m \in SN /\ m = IF n + i < SnMod THEN n + i ELSE n + i - SnMod
  BY <1>1, PlusLinear
<1>3. Plus(m, j) = IF m + j < SnMod THEN m + j ELSE m + j - SnMod
  BY <1>1, <1>2, PlusLinear
<1>4. Plus(n, i + j) = IF n + (i + j) < SnMod THEN n + (i + j) ELSE n + (i + j) - SnMod
  BY <1>1, PlusLinear
<1> HIDE DEF m
<1>5. Plus(m, j) = Plus(n, i + j)
  BY <1>1, <1>2, <1>3, <1>4, SizeFacts DEF SN
<1>6. QED  BY <1>5 DEF m

-----------------------------------------------------------------------------
(* ReorderFlush. *)

\* The loop ends: there is a first empty slot, or all slots are taken.
LEMMA RunLengthSpec ==
    ASSUME NEW r
    PROVE  /\ RunLength(r) \in 0 .. BufSize
           /\ \A j \in 0 .. RunLength(r)-1 : Occupied(r.slot[SlotOf(Plus(r.next, j))])
           /\ RunLength(r) < BufSize =>
                ~Occupied(r.slot[SlotOf(Plus(r.next, RunLength(r)))])
<1> DEFINE At(j) == Occupied(r.slot[SlotOf(Plus(r.next, j))])
           Ends(k) == (\A j \in 0 .. k-1 : At(j)) /\ (k < BufSize => ~At(k))
           T == {j \in 0 .. BufSize : j = BufSize \/ ~At(j)}
<1>1. T \subseteq Nat /\ T # {}
  BY SizeFacts
<1>2. PICK k \in T : \A y \in T : k <= y
  BY <1>1, LeastNatural
<1>3. k \in 0 .. BufSize /\ Ends(k)
  BY <1>2, SizeFacts
<1>4. RunLength(r) \in 0 .. BufSize /\ Ends(RunLength(r))
  BY <1>3 DEF RunLength
<1>5. QED  BY <1>4

LEMMA AdvanceFields ==
    ASSUME NEW r \in RbType
    PROVE  /\ Advance(r) \in RbType
           /\ Advance(r).next = Plus(r.next, 1)
           /\ Advance(r).slot = r.slot
           /\ Advance(r).inited = r.inited
           /\ r.next \in SN
<1>1. r.next \in SN /\ 1 \in 0 .. SnMod
  BY SizeFacts DEF RbType
<1>2. Plus(r.next, 1) \in SN
  BY <1>1, PlusLinear
<1>3. QED  BY <1>1, <1>2 DEF Advance, RbType

\* The slot j places behind the advanced next.
LEMMA AdvancedSlot ==
    ASSUME NEW r \in RbType, NEW j \in 0 .. BufSize
    PROVE  /\ SlotOf(Plus(Advance(r).next, j)) = SlotOf(Plus(r.next, j + 1))
           /\ SlotOf(Plus(r.next, j + 1)) \in Slots
<1>1. r.next \in SN /\ Advance(r).next = Plus(r.next, 1)
  BY AdvanceFields
<1>2. 1 \in 0 .. BufSize /\ j + 1 \in 0 .. SnMod /\ 1 + j = j + 1
  BY SizeFacts
<1>3. Plus(Advance(r).next, j) = Plus(r.next, j + 1)
  BY <1>1, <1>2, PlusPlus
<1>4. QED  BY <1>1, <1>2, <1>3, SlotOfPlus

\* A buffered frame stands where its distance from next says.
LEMMA PlacedSlot ==
    ASSUME NEW r \in RbType, PlacedIn(r), NEW i \in Slots, r.slot[i].frame # None
    PROVE  LET key == SortKey(r.slot[i].frame) IN
           /\ key \in SN
           /\ Dist(key, r.next) \in 1 .. BufSize - 1
           /\ Plus(r.next, Dist(key, r.next)) = key
           /\ i = SlotOf(Plus(r.next, Dist(key, r.next)))
<1> DEFINE key == SortKey(r.slot[i].frame)
<1>1. r.slot[i].frame \in Packets /\ r.next \in SN
  BY DEF RbType, SlotType
<1>2. key \in SN
  BY <1>1, SortKeyType
<1>3. i = SlotOf(key) /\ Dist(key, r.next) \in 1 .. BufSize - 1
  BY DEF PlacedIn
<1>4. Plus(r.next, Dist(key, r.next)) = key
  BY <1>1, <1>2, PlusDist
<1>5. QED  BY <1>2, <1>3, <1>4

LEMMA FlushFields ==
    ASSUME NEW r \in RbType
    PROVE  LET a == Advance(r)
               k == RunLength(a)
               f == Flush(a)
           IN  /\ f \in RbType
               /\ f.inited = r.inited
               /\ f.next = Plus(r.next, k + 1)
               /\ f.gap = \E i \in Slots : Occupied(f.slot[i])
               /\ \A i \in Slots : f.slot[i] =
                    IF \E j \in 1 .. k : i = SlotOf(Plus(r.next, j))
                      THEN EmptySlot ELSE r.slot[i]
<1> DEFINE a == Advance(r)
           k == RunLength(a)
           f == Flush(a)
           taken == {SlotOf(Plus(a.next, j)) : j \in 0 .. k-1}
           left == [i \in Slots |-> IF i \in taken THEN EmptySlot ELSE a.slot[i]]
<1>1. a \in RbType /\ a.next = Plus(r.next, 1) /\ a.slot = r.slot /\ a.inited = r.inited
      /\ r.next \in SN
  BY AdvanceFields
<1>2. k \in 0 .. BufSize
  BY RunLengthSpec
<1>3. Plus(a.next, k) = Plus(r.next, k + 1)
  <2>1. 1 \in 0 .. BufSize /\ 1 + k = k + 1
    BY <1>2, SizeFacts
  <2>2. QED  BY <1>1, <1>2, <2>1, PlusPlus
<1>4. Plus(r.next, k + 1) \in SN
  <2>1. k + 1 \in 0 .. SnMod
    BY <1>2, SizeFacts
  <2>2. QED  BY <2>1, <1>1, PlusLinear
<1>5. EmptySlot \in SlotType
  BY DEF EmptySlot, SlotType
<1>6. left \in [Slots -> SlotType]
  BY <1>1, <1>5 DEF RbType
<1>7. f = [a EXCEPT !.next = Plus(@, k), !.slot = left,
                    !.gap = \E i \in Slots : Occupied(left[i])]
  BY DEF Flush
<1>8. f \in RbType /\ f.inited = r.inited /\ f.next = Plus(r.next, k + 1)
      /\ f.slot = left /\ f.gap = \E i \in Slots : Occupied(left[i])
  <2> HIDE DEF left, k, f, a
  <2>1. QED  BY <1>1, <1>3, <1>4, <1>6, <1>7 DEF RbType
<1>9. ASSUME NEW i \in Slots
      PROVE  i \in taken <=> \E j \in 1 .. k : i = SlotOf(Plus(r.next, j))
  <2>1. ASSUME NEW j \in 0 .. k-1
        PROVE  SlotOf(Plus(a.next, j)) = SlotOf(Plus(r.next, j + 1))
    <3>1. j \in 0 .. BufSize
      BY <1>2, SizeFacts
    <3>2. QED  BY <3>1, AdvancedSlot
  <2>2. ASSUME i \in taken PROVE \E j \in 1 .. k : i = SlotOf(Plus(r.next, j))
    <3>1. PICK j \in 0 .. k-1 : i = SlotOf(Plus(a.next, j))
      BY <2>2
    <3>2. j + 1 \in 1 .. k /\ i = SlotOf(Plus(r.next, j + 1))
      BY <3>1, <2>1, <1>2, SizeFacts
    <3>3. QED  BY <3>2
  <2>3. ASSUME NEW j \in 1 .. k, i = SlotOf(Plus(r.next, j)) PROVE i \in taken
    <3>1. j - 1 \in 0 .. k-1 /\ (j - 1) + 1 = j
      BY <1>2, SizeFacts
    <3>2. SlotOf(Plus(a.next, j - 1)) = SlotOf(Plus(r.next, (j - 1) + 1))
      BY <3>1, <2>1
    <3>3. i = SlotOf(Plus(a.next, j - 1))
      BY <3>1, <3>2, <2>3
    <3>4. QED  BY <3>1, <3>3
  <2>4. QED  BY <2>2, <2>3
<1>10. QED
  <2>1. \A i \in Slots : left[i] =
          IF \E j \in 1 .. k : i = SlotOf(Plus(r.next, j)) THEN EmptySlot ELSE r.slot[i]
    BY <1>1, <1>9
  <2> HIDE DEF left, k, f, a
  <2>2. QED  BY <1>8, <2>1 DEF k, f, a

\* Advancing and flushing restores all parts of the invariant.
LEMMA FlushGood ==
    ASSUME NEW r \in RbType, PlacedIn(r)
    PROVE  LET f == Flush(Advance(r)) IN
           HeadEmptyIn(f) /\ PlacedIn(f) /\ ArmedIn(f)
<1> DEFINE a == Advance(r)
           k == RunLength(a)
           f == Flush(a)
<1>1. /\ f \in RbType
      /\ f.next = Plus(r.next, k + 1)
      /\ f.gap = \E i \in Slots : Occupied(f.slot[i])
      /\ \A i \in Slots : f.slot[i] =
            IF \E j \in 1 .. k : i = SlotOf(Plus(r.next, j)) THEN EmptySlot ELSE r.slot[i]
  BY FlushFields
<1>2. a.slot = r.slot /\ r.next \in SN
  BY AdvanceFields
<1>3. k \in 0 .. BufSize /\ (k < BufSize => ~Occupied(a.slot[SlotOf(Plus(a.next, k))]))
  BY RunLengthSpec
<1>4. SlotOf(Plus(a.next, k)) = SlotOf(Plus(r.next, k + 1))
      /\ SlotOf(Plus(r.next, k + 1)) \in Slots
  BY <1>3, AdvancedSlot
<1>5. ~Occupied(EmptySlot)
  BY DEF Occupied, EmptySlot
<1> HIDE DEF a, k, f
<1>6. HeadEmptyIn(f)
  <2>1. CASE k < BufSize
    BY <2>1, <1>1, <1>2, <1>3, <1>4, <1>5 DEF HeadEmptyIn
  <2>2. CASE k = BufSize
    <3>1. 1 \in 1 .. k /\ 1 \in 0 .. BufSize /\ BufSize \in 0 .. BufSize /\ 1 + BufSize = BufSize + 1
      BY <2>2, SizeFacts
    <3>2. Plus(r.next, 1) \in SN
      BY <1>2, SizeFacts, PlusLinear
    <3>3. Plus(Plus(r.next, 1), BufSize) = Plus(r.next, k + 1)
      BY <3>1, <2>2, <1>2, PlusPlus
    <3>4. SlotOf(Plus(r.next, k + 1)) = SlotOf(Plus(r.next, 1))
      BY <3>2, <3>3, SlotWraps
    <3>5. f.slot[SlotOf(Plus(r.next, k + 1))] = EmptySlot
      BY <1>1, <1>4, <3>1, <3>4
    <3>6. QED  BY <3>5, <1>1, <1>5 DEF HeadEmptyIn
  <2>3. QED  BY <2>1, <2>2, <1>3, SizeFacts
<1>7. PlacedIn(f)
  <2>1. SUFFICES ASSUME NEW i \in Slots, f.slot[i].frame # None
                 PROVE  /\ i = SlotOf(SortKey(f.slot[i].frame))
                        /\ Dist(SortKey(f.slot[i].frame), f.next) \in 1 .. BufSize - 1
    BY DEF PlacedIn
  <2>2. f.slot[i] = r.slot[i] /\ ~\E j \in 1 .. k : i = SlotOf(Plus(r.next, j))
    BY <1>1, <2>1 DEF EmptySlot
  <2> DEFINE key == SortKey(r.slot[i].frame)
             d == Dist(key, r.next)
  <2>3. key \in SN /\ d \in 1 .. BufSize - 1 /\ Plus(r.next, d) = key
        /\ i = SlotOf(Plus(r.next, d))
    BY <2>1, <2>2, PlacedSlot
  <2> HIDE DEF d
  <2>4. ~(d \in 1 .. k)
    BY <2>2, <2>3
  <2>5. d # k + 1
    <3>1. SUFFICES ASSUME d = k + 1 PROVE FALSE
      OBVIOUS
    <3>2. k < BufSize
      BY <3>1, <2>3, <1>3, SizeFacts
    <3>3. ~Occupied(r.slot[i])
      BY <3>1, <3>2, <2>3, <1>2, <1>3, <1>4
    <3>4. QED  BY <3>3, <2>1, <2>2 DEF Occupied
  <2>6. k + 1 <= d /\ k + 1 \in 0 .. SnMod /\ d - (k + 1) \in 1 .. BufSize - 1
    BY <2>3, <2>4, <2>5, <1>3, SizeFacts
  <2>7. Dist(key, f.next) = d - (k + 1)
    BY <2>3, <2>6, <1>1, <1>2, DistShift DEF d
  <2>8. QED  BY <2>2, <2>3, <2>6, <2>7
<1>8. ArmedIn(f)
  BY <1>1 DEF ArmedIn
<1>9. QED  BY <1>6, <1>7, <1>8 DEF f, a

\* A flush hands over well-typed frames, each the one keyed by its place.
LEMMA FlushOutGood ==
    ASSUME NEW r \in RbType, PlacedIn(r)
    PROVE  LET o == FlushOut(Advance(r)) IN
           /\ o \in Seq(Packets \cup {None})
           /\ \A j \in 1 .. Len(o) : o[j] # None => SortKey(o[j]) = Plus(r.next, j)
<1> DEFINE a == Advance(r)
           k == RunLength(a)
           o == FlushOut(a)
<1>1. k \in 0 .. BufSize /\ k \in Nat
  BY RunLengthSpec, SizeFacts
<1>2. a.slot = r.slot /\ r.next \in SN
  BY AdvanceFields
<1>3. o = [j \in 1 .. k |-> a.slot[SlotOf(Plus(a.next, j-1))].frame]
  BY DEF FlushOut
<1>4. ASSUME NEW j \in 1 .. k
      PROVE  /\ SlotOf(Plus(r.next, j)) \in Slots
             /\ SlotOf(Plus(a.next, j-1)) = SlotOf(Plus(r.next, j))
  <2>1. j - 1 \in 0 .. BufSize /\ (j - 1) + 1 = j
    BY <1>1, SizeFacts
  <2>2. SlotOf(Plus(a.next, j-1)) = SlotOf(Plus(r.next, (j - 1) + 1))
        /\ SlotOf(Plus(r.next, (j - 1) + 1)) \in Slots
    BY <2>1, AdvancedSlot
  <2>3. QED  BY <2>1, <2>2
<1> HIDE DEF a, k, o
<1>5. \A j \in 1 .. k : o[j] = r.slot[SlotOf(Plus(r.next, j))].frame
                        /\ o[j] \in Packets \cup {None}
  BY <1>2, <1>3, <1>4 DEF RbType, SlotType
<1>6. o \in Seq(Packets \cup {None}) /\ Len(o) = k
  <2>1. o \in [1 .. k -> Packets \cup {None}]
    BY <1>3, <1>5
  <2>2. QED  BY <1>1, <2>1, SeqOfFunction
<1>7. ASSUME NEW j \in 1 .. k, o[j] # None
      PROVE  SortKey(o[j]) = Plus(r.next, j)
  <2> DEFINE i == SlotOf(Plus(r.next, j))
             d == Dist(SortKey(r.slot[i].frame), r.next)
  <2>1. i \in Slots /\ r.slot[i].frame # None /\ o[j] = r.slot[i].frame
    BY <1>4, <1>5, <1>7
  <2>2. d \in 1 .. BufSize - 1 /\ Plus(r.next, d) = SortKey(r.slot[i].frame)
        /\ i = SlotOf(Plus(r.next, d))
    BY <2>1, PlacedSlot
  <2> HIDE DEF d
  <2>3. d \in 0 .. SnMod /\ j \in 0 .. SnMod /\ d < j + BufSize /\ j < d + BufSize
    BY <2>2, <1>1, SizeFacts
  <2>4. ~(d < j) /\ ~(j < d)
    <3>1. SlotOf(Plus(r.next, j)) = SlotOf(Plus(r.next, d))
      BY <2>2
    <3>2. QED  BY <3>1, <2>3, <1>2, SlotsDiffer
  <2>5. d = j
    BY <2>3, <2>4
  <2>6. QED  BY <2>1, <2>2, <2>5
<1>8. QED  BY <1>6, <1>7 DEF o, a

-----------------------------------------------------------------------------
(* The calls.  Good is the inductive invariant; a call is judged by the    *)
(* state it starts from and by its result.                                 *)

\* Before the first call (and after a reset) nothing is buffered: only
\* because of this may the first call choose next freely.
FreshEmptyIn(r) == ~r.inited => \A i \in Slots : r.slot[i] = EmptySlot

Good(r) == /\ r \in RbType
           /\ HeadEmptyIn(r) /\ PlacedIn(r) /\ ArmedIn(r) /\ FreshEmptyIn(r)

OutInOrder(r, res) ==
    res.rb.next # r.next =>
        \A j \in 1 .. Len(res.out) : res.out[j] # None =>
            LET key == SortKey(res.out[j]) IN
            \/ key = Plus(r.next, j-1)
            \/ /\ j = Len(res.out)
               /\ Dist(key, r.next) >= j-1
               /\ res.rb.next = Plus(key, 1)

CallOk(r, res) == /\ Good(res.rb)
                  /\ res.rb.inited
                  /\ res.out \in Seq(Packets \cup {None})
                  /\ OutInOrder(r, res)

LEMMA InitedGood ==
    ASSUME NEW r, Good(r), NEW sn \in SN
    PROVE  /\ Good(Inited(r, sn)) /\ Inited(r, sn).inited
           /\ r.inited => Inited(r, sn) = r
<1>1. CASE r.inited
  BY <1>1 DEF Inited
<1>2. CASE ~r.inited
  <2> DEFINE q == [r EXCEPT !.inited = TRUE, !.next = sn]
  <2>1. q \in RbType /\ q.slot = r.slot /\ q.inited = TRUE /\ q.next = sn
    BY DEF Good, RbType
  <2>2. \A i \in Slots : q.slot[i] = EmptySlot
    BY <1>2, <2>1 DEF Good, FreshEmptyIn
  <2>3. \A i \in Slots : ~Occupied(q.slot[i]) /\ q.slot[i].frame = None
    BY <2>2 DEF Occupied, EmptySlot
  <2>4. SlotOf(sn) \in Slots
    BY SizeFacts DEF SlotOf, Slots, SN
  <2> HIDE DEF q
  <2>5. Good(q)
    BY <2>1, <2>3, <2>4 DEF Good, HeadEmptyIn, PlacedIn, ArmedIn, FreshEmptyIn
  <2>6. QED  BY <1>2, <2>1, <2>5 DEF Inited, q
<1>3. QED  BY <1>1, <1>2

\* next is delivered or skipped, and what follows it is flushed.
LEMMA AdvanceOk ==
    ASSUME NEW r, Good(r), r.inited, NEW h \in Packets \cup {None},
           h # None => SortKey(h) = r.next
    PROVE  CallOk(r, [rb  |-> Flush(Advance(r)),
                      out |-> <<h>> \o FlushOut(Advance(r))])
<1> DEFINE f == Flush(Advance(r))
           o == FlushOut(Advance(r))
           res == [rb |-> f, out |-> <<h>> \o o]
<1>1. r \in RbType /\ PlacedIn(r) /\ r.next \in SN
  BY DEF Good, RbType
<1>2. f \in RbType /\ f.inited = r.inited
  BY <1>1, FlushFields
<1>3. HeadEmptyIn(f) /\ PlacedIn(f) /\ ArmedIn(f)
  BY <1>1, FlushGood
<1>4. /\ o \in Seq(Packets \cup {None})
      /\ \A j \in 1 .. Len(o) : o[j] # None => SortKey(o[j]) = Plus(r.next, j)
  BY <1>1, FlushOutGood
<1> HIDE DEF f, o
<1>5. Good(f) /\ f.inited
  BY <1>2, <1>3 DEF Good, FreshEmptyIn
<1>6. <<h>> \o o \in Seq(Packets \cup {None})
  BY <1>4
<1>7. ASSUME NEW j \in 1 .. Len(<<h>> \o o), (<<h>> \o o)[j] # None
      PROVE  SortKey((<<h>> \o o)[j]) = Plus(r.next, j-1)
  <2>1. CASE j = 1
    <3>1. (<<h>> \o o)[j] = h
      BY <2>1, <1>4
    <3>2. Plus(r.next, j - 1) = r.next
      BY <2>1, <1>1, SizeFacts DEF Plus, SN
    <3>3. QED  BY <3>1, <3>2, <1>7
  <2>2. CASE j # 1
    <3>1. j - 1 \in 1 .. Len(o) /\ (<<h>> \o o)[j] = o[j - 1]
      BY <2>2, <1>4
    <3>2. QED  BY <3>1, <1>4, <1>7
  <2>3. QED  BY <2>1, <2>2
<1>8. OutInOrder(r, res)
  BY <1>7 DEF OutInOrder
<1>9. QED  BY <1>5, <1>6, <1>8 DEF CallOk, f, o

\* A call that neither delivers nor moves next.
LEMMA QuietOk ==
    ASSUME NEW r, NEW q, Good(q), q.inited, q.next = r.next
    PROVE  CallOk(r, [rb |-> q, out |-> <<>>])
BY DEF CallOk, OutInOrder

LEMMA LargeGapOk ==
    ASSUME NEW r, Good(r), r.inited, NEW p \in Packets,
           Dist(SortKey(p), r.next) >= BufSize
    PROVE  CallOk(r, LargeGap(r, p))
<1> DEFINE key == SortKey(p)
           empty == [i \in Slots |-> EmptySlot]
           q == [r EXCEPT !.next = Plus(key, 1), !.slot = empty, !.gap = FALSE]
           o == [j \in 1 .. BufSize |-> r.slot[SlotOf(Plus(r.next, j-1))].frame]
           res == LargeGap(r, p)
<1>1. r \in RbType /\ PlacedIn(r) /\ r.next \in SN /\ key \in SN /\ p # None
  BY SortKeyType DEF Good, RbType
<1>2. Plus(key, 1) \in SN /\ SlotOf(Plus(key, 1)) \in Slots
  BY <1>1, SizeFacts, PlusLinear, SlotOfPlus
<1>3. empty \in [Slots -> SlotType]
  BY DEF EmptySlot, SlotType
<1>4. q \in RbType /\ q.slot = empty /\ q.next = Plus(key, 1) /\ q.inited = r.inited
  BY <1>1, <1>2, <1>3 DEF RbType
<1>5. \A i \in Slots : empty[i] = EmptySlot /\ ~Occupied(empty[i]) /\ empty[i].frame = None
  BY DEF EmptySlot, Occupied
<1>6. res = [rb |-> q, out |-> o \o <<p>>]
  BY DEF LargeGap
<1>7. ASSUME NEW j \in 1 .. BufSize
      PROVE  /\ o[j] = r.slot[SlotOf(Plus(r.next, j-1))].frame
             /\ o[j] \in Packets \cup {None}
             /\ o[j] # None => SortKey(o[j]) = Plus(r.next, j-1)
  <2> DEFINE i == SlotOf(Plus(r.next, j-1))
             d == Dist(SortKey(r.slot[i].frame), r.next)
  <2>1. j - 1 \in 0 .. SnMod /\ j - 1 \in 0 .. BufSize - 1
    BY SizeFacts
  <2>2. i \in Slots
    BY <2>1, <1>1, SlotOfPlus
  <2>3. o[j] = r.slot[i].frame /\ o[j] \in Packets \cup {None}
    BY <2>2, <1>1 DEF RbType, SlotType
  <2>4. ASSUME o[j] # None PROVE SortKey(o[j]) = Plus(r.next, j-1)
    <3>1. d \in 1 .. BufSize - 1 /\ Plus(r.next, d) = SortKey(r.slot[i].frame)
          /\ i = SlotOf(Plus(r.next, d))
      BY <2>2, <2>3, <2>4, <1>1, PlacedSlot
    <3> HIDE DEF d
    <3>2. d \in 0 .. SnMod /\ d < (j - 1) + BufSize /\ j - 1 < d + BufSize
      BY <3>1, <2>1, SizeFacts
    <3>3. SlotOf(Plus(r.next, j-1)) = SlotOf(Plus(r.next, d))
      BY <3>1
    <3>4. ~(d < j - 1) /\ ~(j - 1 < d)
      BY <3>2, <3>3, <2>1, <1>1, SlotsDiffer
    <3>5. d = j - 1
      BY <3>2, <3>4, <2>1
    <3>6. QED  BY <3>1, <3>5, <2>3
  <2>5. QED  BY <2>3, <2>4
<1> HIDE DEF empty, q, o, res, key
<1>8. Good(q)
  BY <1>2, <1>4, <1>5 DEF Good, HeadEmptyIn, PlacedIn, ArmedIn, FreshEmptyIn
<1>9. o \in Seq(Packets \cup {None}) /\ Len(o) = BufSize
  <2>1. o \in [1 .. BufSize -> Packets \cup {None}]
    BY <1>7 DEF o
  <2>2. QED  BY <2>1, SizeFacts, SeqOfFunction
<1>10. o \o <<p>> \in Seq(Packets \cup {None}) /\ Len(o \o <<p>>) = BufSize + 1
  BY <1>9, SizeFacts
<1>11. OutInOrder(r, res)
  <2>1. SUFFICES ASSUME NEW j \in 1 .. BufSize + 1, (o \o <<p>>)[j] # None
                 PROVE  \/ SortKey((o \o <<p>>)[j]) = Plus(r.next, j-1)
                        \/ /\ j = BufSize + 1
                           /\ Dist(SortKey((o \o <<p>>)[j]), r.next) >= j-1
                           /\ q.next = Plus(SortKey((o \o <<p>>)[j]), 1)
    BY <1>6, <1>10 DEF OutInOrder
  <2>2. CASE j \in 1 .. BufSize
    <3>1. (o \o <<p>>)[j] = o[j]
      BY <2>2, <1>9
    <3>2. QED  BY <3>1, <2>1, <2>2, <1>7
  <2>3. CASE j = BufSize + 1
    <3>1. (o \o <<p>>)[j] = p /\ j - 1 = BufSize
      BY <2>3, <1>9, SizeFacts
    <3>2. QED  BY <3>1, <2>3, <1>4 DEF key
  <2>4. j \in 1 .. BufSize \/ j = BufSize + 1
    BY SizeFacts
  <2>5. QED  BY <2>2, <2>3, <2>4
<1>12. CallOk(r, res)
  BY <1>4, <1>6, <1>8, <1>10, <1>11 DEF CallOk
<1>13. QED  BY <1>12 DEF res

\* Writing one slot ahead of next, a frame or None and a mark, keeps placement
\* and leaves the head alone.
LEMMA WriteSlot ==
    ASSUME NEW r, Good(r), r.inited, NEW sn \in SN, NEW w \in SlotType,
           Dist(sn, r.next) \in 1 .. BufSize - 1,
           w.frame # None => SortKey(w.frame) = sn,
           NEW q \in RbType, q.slot = [r.slot EXCEPT ![SlotOf(sn)] = w],
           q.inited, q.next = r.next, ArmedIn(q)
    PROVE  Good(q)
<1> DEFINE s == SlotOf(sn)
           ws == [r.slot EXCEPT ![s] = w]
<1>1. r \in RbType /\ HeadEmptyIn(r) /\ PlacedIn(r) /\ ArmedIn(r) /\ r.next \in SN
  BY DEF Good, RbType
<1>2. s \in Slots /\ SlotOf(r.next) \in Slots
  BY <1>1, SizeFacts DEF SlotOf, Slots, SN
<1>3. r.slot \in [Slots -> SlotType]
  BY <1>1 DEF RbType
<1>4. ws \in [Slots -> SlotType] /\ ws[s] = w /\ \A i \in Slots \ {s} : ws[i] = r.slot[i]
  BY <1>2, <1>3
<1>5. SlotOf(r.next) # s
  <2> DEFINE d == Dist(sn, r.next)
  <2>1. Plus(r.next, 0) = r.next
    BY <1>1, SizeFacts DEF Plus, SN
  <2>2. Plus(r.next, d) = sn
    BY <1>1, PlusDist
  <2>3. d \in 0 .. SnMod /\ 0 \in 0 .. SnMod /\ 0 < d /\ d < 0 + BufSize
    BY SizeFacts
  <2> HIDE DEF d
  <2>4. SlotOf(Plus(r.next, 0)) # SlotOf(Plus(r.next, d))
    BY <2>3, <1>1, SlotsDiffer
  <2>5. QED  BY <2>1, <2>2, <2>4
<1>7. q.slot = ws /\ q.next = r.next
  OBVIOUS
<1> HIDE DEF s, ws
<1>8. HeadEmptyIn(q)
  BY <1>1, <1>2, <1>4, <1>5, <1>7 DEF HeadEmptyIn
<1>9. PlacedIn(q)
  <2>1. SUFFICES ASSUME NEW i \in Slots, q.slot[i].frame # None
                 PROVE  /\ i = SlotOf(SortKey(q.slot[i].frame))
                        /\ Dist(SortKey(q.slot[i].frame), q.next) \in 1 .. BufSize - 1
    BY DEF PlacedIn
  <2>2. CASE i = s
    BY <2>1, <2>2, <1>4, <1>7 DEF s
  <2>3. CASE i # s
    <3>1. q.slot[i] = r.slot[i]
      BY <2>3, <1>4, <1>7
    <3>2. QED  BY <2>1, <3>1, <1>1, <1>7 DEF PlacedIn
  <2>4. QED  BY <2>2, <2>3
<1>10. QED  BY <1>8, <1>9 DEF Good, FreshEmptyIn

LEMMA StoreOk ==
    ASSUME NEW r, Good(r), r.inited, NEW p \in Packets,
           Dist(SortKey(p), r.next) \in 1 .. BufSize - 1
    PROVE  CallOk(r, Store(r, p)) /\ CallOk(r, StoreOom(r, p))
<1> DEFINE s == SlotOf(SortKey(p))
           old == r.slot[s]
<1>1. r \in RbType /\ r.next \in SN /\ r.slot \in [Slots -> SlotType]
  BY DEF Good, RbType
<1>2. SortKey(p) \in SN /\ s \in Slots
  BY SortKeyType, SizeFacts DEF SlotOf, Slots, SN
<1>3. old \in SlotType
  BY <1>1, <1>2
<1>4. CallOk(r, Store(r, p))
  <2> DEFINE w == [old EXCEPT !.frame = p]
             q == [r EXCEPT !.slot = [r.slot EXCEPT ![s] = w], !.gap = TRUE]
  <2>1. w \in SlotType /\ w.frame = p
    BY <1>3 DEF SlotType
  <2>2. Good(q) /\ q.inited /\ q.next = r.next
    <3>1. q \in RbType /\ q.slot = [r.slot EXCEPT ![s] = w] /\ q.inited
          /\ q.next = r.next /\ q.gap
      BY <1>1, <1>2, <2>1 DEF RbType
    <3>2. ArmedIn(q)
      BY <3>1 DEF ArmedIn
    <3> HIDE DEF w, q
    <3>3. QED  BY <3>1, <3>2, <1>2, <2>1, WriteSlot
  <2>3. Store(r, p) = [rb |-> q, out |-> <<>>]
    BY <1>1 DEF Store, RbType
  <2>4. CallOk(r, [rb |-> q, out |-> <<>>])
    <3> HIDE DEF q
    <3>1. QED  BY <2>2, QuietOk
  <2>5. QED  BY <2>3, <2>4
<1>5. CallOk(r, StoreOom(r, p))
  <2> DEFINE w == [old EXCEPT !.frame = None]
             q == [r EXCEPT !.slot = [r.slot EXCEPT ![s] = w], !.gap = r.gap]
  <2>1. w \in SlotType /\ w.frame = None /\ (Occupied(w) => Occupied(old))
        /\ r.gap \in BOOLEAN
    BY <1>1, <1>3 DEF SlotType, Occupied, RbType
  <2>2. Good(q) /\ q.inited /\ q.next = r.next
    <3>1. q \in RbType /\ q.slot = [r.slot EXCEPT ![s] = w] /\ q.inited
          /\ q.next = r.next /\ q.gap = r.gap
      BY <1>1, <1>2, <2>1 DEF RbType
    <3> HIDE DEF w, q
    <3>2. \A i \in Slots : Occupied(q.slot[i]) => Occupied(r.slot[i])
      BY <3>1, <2>1, <1>1, <1>2
    <3>3. ArmedIn(q)
      BY <3>1, <3>2 DEF ArmedIn, Good
    <3>4. QED  BY <3>1, <3>3, <1>2, <2>1, WriteSlot
  <2>3. StoreOom(r, p) = [rb |-> q, out |-> <<p>>]
    BY <1>1 DEF StoreOom, RbType
  <2> HIDE DEF q
  <2>4. CallOk(r, [rb |-> q, out |-> <<p>>])
    BY <2>2 DEF CallOk, OutInOrder
  <2>5. QED  BY <2>3, <2>4
<1>6. QED  BY <1>4, <1>5

LEMMA EnqueueOk ==
    ASSUME NEW r0, Good(r0), NEW p \in Packets, NEW oom
    PROVE  CallOk(Inited(r0, p.sn), Enqueue(r0, p, oom))
<1> DEFINE r == Inited(r0, p.sn)
           d == Dist(SortKey(p), r.next)
<1>1. Good(r) /\ r.inited
  BY SortKeyType, InitedGood
<1>2. Enqueue(r0, p, oom) =
        IF Passed(SortKey(p), r.next) THEN [rb |-> r, out |-> <<>>]
        ELSE IF d = 0 THEN InOrder(r, p)
        ELSE IF d >= BufSize THEN LargeGap(r, p)
        ELSE IF oom THEN StoreOom(r, p) ELSE Store(r, p)
  BY DEF Enqueue
<1> SUFFICES CallOk(r, Enqueue(r0, p, oom))
  OBVIOUS
<1> HIDE DEF r
<1>3. r.next \in SN /\ SortKey(p) \in SN /\ p # None
  BY <1>1, SortKeyType DEF Good, RbType
<1>4. d \in SN /\ (d = 0 => SortKey(p) = r.next)
  <2>1. d \in SN /\ d = IF r.next <= SortKey(p) THEN SortKey(p) - r.next
                       ELSE SortKey(p) - r.next + SnMod
    BY <1>3, DistLinear
  <2>2. QED  BY <2>1, <1>3, SizeFacts DEF SN
<1>5. CASE Passed(SortKey(p), r.next)
  BY <1>1, <1>2, <1>5, QuietOk
<1>6. CASE ~Passed(SortKey(p), r.next) /\ d = 0
  <2>1. SortKey(p) = r.next
    BY <1>4, <1>6
  <2>2. CallOk(r, InOrder(r, p))
    BY <1>1, <2>1, AdvanceOk DEF InOrder
  <2>3. QED  BY <1>2, <1>6, <2>2
<1>7. CASE ~Passed(SortKey(p), r.next) /\ d # 0 /\ d >= BufSize
  BY <1>1, <1>2, <1>7, LargeGapOk
<1>8. CASE ~Passed(SortKey(p), r.next) /\ d # 0 /\ ~(d >= BufSize)
  <2>1. d \in 1 .. BufSize - 1
    BY <1>4, <1>8, SizeFacts DEF SN
  <2>2. CallOk(r, Store(r, p)) /\ CallOk(r, StoreOom(r, p))
    BY <1>1, <2>1, StoreOk
  <2>3. QED  BY <1>2, <1>8, <2>2
<1>9. QED  BY <1>5, <1>6, <1>7, <1>8

LEMMA PlaceholderOk ==
    ASSUME NEW r0, Good(r0), NEW sn \in SN
    PROVE  CallOk(Inited(r0, sn), EnqueuePlaceholder(r0, sn))
<1> DEFINE r == Inited(r0, sn)
           d == Dist(sn, r.next)
           s == SlotOf(sn)
           q == [r EXCEPT !.slot[s].ph = TRUE, !.gap = TRUE]
           step == [rb |-> Flush(Advance(r)), out |-> <<None>> \o FlushOut(Advance(r))]
<1>1. Good(r) /\ r.inited
  BY InitedGood
<1>2. EnqueuePlaceholder(r0, sn) =
        IF Passed(sn, r.next) THEN [rb |-> r, out |-> <<>>]
        ELSE IF d = 0 THEN step
        ELSE IF d < BufSize /\ r.slot[s].frame = None THEN [rb |-> q, out |-> <<>>]
        ELSE [rb |-> r, out |-> <<>>]
  BY DEF EnqueuePlaceholder
<1> HIDE DEF r
<1>3. r \in RbType /\ r.next \in SN /\ d \in SN
  BY <1>1, DistLinear DEF Good, RbType
<1>4. CallOk(r, [rb |-> r, out |-> <<>>])
  BY <1>1, QuietOk
<1>5. CallOk(r, step)
  BY <1>1, AdvanceOk
<1>6. ASSUME d # 0, d < BufSize, r.slot[s].frame = None
      PROVE  CallOk(r, [rb |-> q, out |-> <<>>])
  <2> DEFINE w == [r.slot[s] EXCEPT !.ph = TRUE]
  <2>1. d \in 1 .. BufSize - 1
    BY <1>3, <1>6, SizeFacts DEF SN
  <2>2. s \in Slots
    BY SizeFacts DEF SlotOf, Slots, SN
  <2>3. r.slot \in [Slots -> SlotType] /\ r.slot[s] \in SlotType
    BY <1>3, <2>2 DEF RbType
  <2>4. w \in SlotType /\ w.frame = None
    BY <1>6, <2>3 DEF SlotType
  <2>5. q \in RbType /\ q.slot = [r.slot EXCEPT ![s] = w] /\ q.inited
        /\ q.next = r.next /\ q.gap
    BY <1>1, <1>3, <2>2, <2>3, <2>4 DEF RbType
  <2>6. ArmedIn(q)
    BY <2>5 DEF ArmedIn
  <2> HIDE DEF q, w
  <2>7. Good(q)
    BY <1>1, <2>1, <2>4, <2>5, <2>6, WriteSlot
  <2>8. QED  BY <2>5, <2>7, QuietOk
<1> HIDE DEF step, q, d
<1>7. QED  BY <1>2, <1>4, <1>5, <1>6 DEF r

LEMMA SkipGapOk ==
    ASSUME NEW r, Good(r), r.inited
    PROVE  CallOk(r, SkipGap(r))
BY AdvanceOk DEF SkipGap

LEMMA ClearedGood == Good(Cleared)
<1>1. 0 \in SN /\ SlotOf(0) \in Slots
  BY SizeFacts DEF SN, SlotOf, Slots
<1>2. Cleared \in RbType
  BY <1>1 DEF Cleared, RbType, SlotType, EmptySlot
<1>3. /\ Cleared.inited = FALSE /\ Cleared.next = 0
      /\ \A i \in Slots : Cleared.slot[i] = EmptySlot
  BY DEF Cleared
<1>4. ~Occupied(EmptySlot) /\ EmptySlot.frame = None
  BY DEF Occupied, EmptySlot
<1>5. QED
  BY <1>1, <1>2, <1>3, <1>4
     DEF Good, HeadEmptyIn, PlacedIn, ArmedIn, FreshEmptyIn

-----------------------------------------------------------------------------
(* Where the frames go.  P holds the frame a call brings, if any, and N    *)
(* the sequence number it fills or gives up.                               *)

Has(o, p) == \E j \in 1 .. Len(o) : o[j] = p
Replaced(P, f) == \E p \in P : SortKey(p) = SortKey(f)
Ahead(r, N, i) == \E n \in N : i = SlotOf(n) /\ Dist(n, r.next) \in 1 .. BufSize - 1

\* What is handed over was brought or has left the ring; what is in the ring
\* was there or was brought and not handed over.
FromRing(r, res, P) ==
    /\ \A j \in 1 .. Len(res.out) : res.out[j] # None =>
          \/ res.out[j] \in P
          \/ \E i \in Slots : r.slot[i].frame = res.out[j] /\ res.rb.slot[i].frame = None
    /\ \A i \in Slots : res.rb.slot[i].frame # None =>
          \/ res.rb.slot[i].frame = r.slot[i].frame
          \/ res.rb.slot[i].frame \in P /\ res.out = <<>>

\* No frame goes elsewhere, but for one with the sort key of the new one.
NoneDropped(r, res, P) ==
    /\ \A i \in Slots : r.slot[i].frame # None =>
          \/ res.rb.slot[i].frame = r.slot[i].frame
          \/ Has(res.out, r.slot[i].frame)
          \/ Replaced(P, r.slot[i].frame)
    /\ \A p \in P : \/ Passed(SortKey(p), r.next)
                    \/ Has(res.out, p)
                    \/ \E i \in Slots : res.rb.slot[i].frame = p

\* next moves behind a number that is filled or brought, and the slots it
\* passes are empty afterwards.
NextMoves(r, res, N) ==
    IF res.rb.next = r.next THEN Len(res.out) <= 1
    ELSE \E d \in 0 .. SnMod - 1 :
            /\ res.rb.next = Plus(r.next, d + 1) /\ 2 * d < SnMod
            /\ Len(res.out) <= d + 1
            /\ \/ Plus(r.next, d) \in N
               \/ d \in 1 .. BufSize - 1 /\ Occupied(r.slot[SlotOf(Plus(r.next, d))])
            /\ \A e \in 0 .. d : e < BufSize =>
                  ~Occupied(res.rb.slot[SlotOf(Plus(r.next, e))])

\* A slot is filled or marked by the call, or was before.
Fills(r, res, P, N) ==
    /\ \A i \in Slots :
          /\ Occupied(res.rb.slot[i]) =>
                Occupied(r.slot[i]) \/ (res.rb.next = r.next /\ Ahead(r, N, i))
          /\ res.rb.slot[i].ph =>
                r.slot[i].ph \/ (P = {} /\ res.rb.next = r.next /\ Ahead(r, N, i))
    /\ res.rb.gap =>
          \/ \E i \in Slots : Occupied(res.rb.slot[i])
          \/ r.gap /\ \A i \in Slots : Occupied(r.slot[i]) =>
                          r.slot[i].frame # None /\ Replaced(P, r.slot[i].frame)

Moves(r, res, P, N) == /\ FromRing(r, res, P) /\ NoneDropped(r, res, P)
                       /\ NextMoves(r, res, N) /\ Fills(r, res, P, N)

LEMMA QuietMoves ==
    ASSUME NEW r, Good(r), NEW N, NEW P, \A p \in P : Passed(SortKey(p), r.next)
    PROVE  Moves(r, [rb |-> r, out |-> <<>>], P, N)
<1> DEFINE res == [rb |-> r, out |-> <<>>]
<1>1. res.rb = r /\ res.out = <<>> /\ Len(res.out) = 0
  OBVIOUS
<1> HIDE DEF res
<1>2. FromRing(r, res, P)
  BY <1>1 DEF FromRing
<1>3. NoneDropped(r, res, P)
  BY <1>1 DEF NoneDropped
<1>4. NextMoves(r, res, N)
  BY <1>1 DEF NextMoves
<1>5. Fills(r, res, P, N)
  BY <1>1 DEF Fills
<1>6. QED  BY <1>2, <1>3, <1>4, <1>5 DEF Moves, res

LEMMA AdvanceMoves ==
    ASSUME NEW r, Good(r), NEW h \in Packets \cup {None},
           h # None => SortKey(h) = r.next
    PROVE  Moves(r, [rb  |-> Flush(Advance(r)),
                     out |-> <<h>> \o FlushOut(Advance(r))],
                 {h} \ {None}, {r.next})
<1> DEFINE a == Advance(r)
           k == RunLength(a)
           f == Flush(a)
           o == FlushOut(a)
           res == [rb |-> f, out |-> <<h>> \o o]
           P == {h} \ {None}
           N == {r.next}
<1>1. r \in RbType /\ PlacedIn(r) /\ r.next \in SN /\ HeadEmptyIn(r)
  BY DEF Good, RbType
<1>2. /\ f \in RbType
      /\ f.next = Plus(r.next, k + 1)
      /\ f.gap = \E i \in Slots : Occupied(f.slot[i])
      /\ \A i \in Slots : f.slot[i] =
            IF \E j \in 1 .. k : i = SlotOf(Plus(r.next, j)) THEN EmptySlot ELSE r.slot[i]
  BY <1>1, FlushFields
<1>3. /\ k \in 0 .. BufSize /\ a.slot = r.slot
      /\ \A j \in 0 .. k - 1 : Occupied(a.slot[SlotOf(Plus(a.next, j))])
  BY <1>1, RunLengthSpec, AdvanceFields
<1>4. ASSUME NEW j \in 1 .. k
      PROVE  /\ SlotOf(Plus(r.next, j)) \in Slots
             /\ Occupied(r.slot[SlotOf(Plus(r.next, j))])
             /\ SlotOf(Plus(a.next, j - 1)) = SlotOf(Plus(r.next, j))
  <2>1. j - 1 \in 0 .. k - 1 /\ j - 1 \in 0 .. BufSize /\ (j - 1) + 1 = j
    BY <1>3, SizeFacts
  <2>2. SlotOf(Plus(a.next, j - 1)) = SlotOf(Plus(r.next, (j - 1) + 1))
        /\ SlotOf(Plus(r.next, (j - 1) + 1)) \in Slots
    BY <1>1, <2>1, AdvancedSlot
  <2>3. SlotOf(Plus(a.next, j - 1)) = SlotOf(Plus(r.next, j))
        /\ SlotOf(Plus(r.next, j)) \in Slots
    BY <2>1, <2>2
  <2>4. QED  BY <1>3, <2>1, <2>3
<1>5. o = [j \in 1 .. k |-> r.slot[SlotOf(Plus(r.next, j))].frame]
  BY <1>3, <1>4 DEF FlushOut
<1>6. o \in Seq(Packets \cup {None}) /\ Len(o) = k
  <2>1. o \in [1 .. k -> Packets \cup {None}]
    BY <1>1, <1>4, <1>5 DEF RbType, SlotType
  <2>2. k \in Nat
    BY <1>3, SizeFacts
  <2>3. QED  BY <2>1, <2>2, SeqOfFunction
<1> HIDE DEF a, k, f, o
<1>7. /\ Len(<<h>> \o o) = k + 1 /\ (<<h>> \o o)[1] = h
      /\ \A j \in 1 .. k : (<<h>> \o o)[j + 1] = r.slot[SlotOf(Plus(r.next, j))].frame
  <2>1. <<h>> \in Seq(Packets \cup {None}) /\ Len(<<h>>) = 1 /\ <<h>>[1] = h
    OBVIOUS
  <2>2. Len(<<h>> \o o) = k + 1 /\ (<<h>> \o o)[1] = h
    BY <2>1, <1>3, <1>6
  <2>3. \A j \in 1 .. k : (<<h>> \o o)[j + 1] = o[j]
    BY <2>1, <1>3, <1>6
  <2>4. QED  BY <2>2, <2>3, <1>5
<1>8. /\ res.rb = f /\ Len(res.out) = k + 1 /\ res.out[1] = h
      /\ \A j \in 1 .. k : res.out[j + 1] = r.slot[SlotOf(Plus(r.next, j))].frame
  BY <1>7
<1>9. ~Occupied(EmptySlot) /\ EmptySlot.frame = None /\ EmptySlot.ph = FALSE
  BY DEF Occupied, EmptySlot
<1>10. k <= BufSize - 1
  <2>1. SUFFICES ASSUME k = BufSize PROVE FALSE
    BY <1>3, SizeFacts
  <2>2. BufSize \in 1 .. k
    BY <2>1, SizeFacts
  <2>3. Occupied(r.slot[SlotOf(r.next)])
    BY <1>1, <1>4, <2>2, SlotWraps
  <2>4. QED  BY <1>1, <2>3 DEF HeadEmptyIn
<1> HIDE DEF res, P
<1>11. FromRing(r, res, P)
  <2>1. ASSUME NEW j \in 1 .. Len(res.out), res.out[j] # None
        PROVE  \/ res.out[j] \in P
               \/ \E i \in Slots : r.slot[i].frame = res.out[j] /\ res.rb.slot[i].frame = None
    <3>1. CASE j = 1
      BY <1>8, <2>1, <3>1 DEF P
    <3>2. CASE j # 1
      <4>1. j - 1 \in 1 .. k /\ (j - 1) + 1 = j
        BY <1>3, <1>8, <2>1, <3>2
      <4>2. res.out[j] = r.slot[SlotOf(Plus(r.next, j - 1))].frame
        BY <1>8, <4>1
      <4>3. f.slot[SlotOf(Plus(r.next, j - 1))] = EmptySlot
        BY <1>2, <1>4, <4>1
      <4>4. QED  BY <1>4, <1>8, <1>9, <4>1, <4>2, <4>3
    <3>3. QED  BY <3>1, <3>2
  <2>2. \A i \in Slots : res.rb.slot[i].frame # None => res.rb.slot[i].frame = r.slot[i].frame
    BY <1>2, <1>8, <1>9
  <2>3. QED  BY <2>1, <2>2 DEF FromRing
<1>12. NoneDropped(r, res, P)
  <2>1. ASSUME NEW i \in Slots
        PROVE  res.rb.slot[i].frame = r.slot[i].frame \/ Has(res.out, r.slot[i].frame)
    <3>1. CASE \E j \in 1 .. k : i = SlotOf(Plus(r.next, j))
      <4>1. PICK j \in 1 .. k : i = SlotOf(Plus(r.next, j))
        BY <3>1
      <4>2. j + 1 \in 1 .. Len(res.out) /\ res.out[j + 1] = r.slot[i].frame
        BY <1>3, <1>8, <4>1
      <4>3. QED  BY <4>2 DEF Has
    <3>2. CASE ~\E j \in 1 .. k : i = SlotOf(Plus(r.next, j))
      BY <1>2, <1>8, <3>2
    <3>3. QED  BY <3>1, <3>2
  <2>2. \A p \in P : Has(res.out, p)
    <3>1. 1 \in 1 .. Len(res.out)
      BY <1>3, <1>8
    <3>2. QED  BY <1>8, <3>1 DEF Has, P
  <2>3. QED  BY <2>1, <2>2 DEF NoneDropped
<1>13. NextMoves(r, res, N)
  <2>1. k \in 0 .. SnMod - 1 /\ 2 * k < SnMod /\ res.rb.next = Plus(r.next, k + 1)
    BY <1>2, <1>3, <1>8, <1>10, SizeFacts
  <2>2. Plus(r.next, 0) = r.next
    BY <1>1, SizeFacts DEF Plus, SN
  <2>3. \/ Plus(r.next, k) \in N
        \/ k \in 1 .. BufSize - 1 /\ Occupied(r.slot[SlotOf(Plus(r.next, k))])
    <3>1. CASE k = 0
      BY <2>2, <3>1
    <3>2. CASE k # 0
      <4>1. k \in 1 .. k /\ k \in 1 .. BufSize - 1
        BY <1>3, <1>10, <3>2, SizeFacts
      <4>2. QED  BY <1>4, <4>1
    <3>3. QED  BY <3>1, <3>2
  <2>4. ASSUME NEW e \in 0 .. k  PROVE ~Occupied(res.rb.slot[SlotOf(Plus(r.next, e))])
    <3>1. CASE e = 0
      <4>1. SlotOf(r.next) \in Slots /\ ~Occupied(r.slot[SlotOf(r.next)])
        BY <1>1, SizeFacts DEF HeadEmptyIn, SlotOf, Slots, SN
      <4>2. QED  BY <1>2, <1>8, <1>9, <2>2, <3>1, <4>1
    <3>2. CASE e # 0
      <4>1. e \in 1 .. k
        BY <1>3, <3>2
      <4>2. f.slot[SlotOf(Plus(r.next, e))] = EmptySlot
        BY <1>2, <1>4, <4>1
      <4>3. QED  BY <1>8, <1>9, <4>2
    <3>3. QED  BY <3>1, <3>2
  <2>5. Plus(r.next, k + 1) # r.next
    <3>1. k + 1 \in 0 .. SnMod /\ k + 1 >= 1 /\ k + 1 < SnMod
      BY <1>3, <1>10, SizeFacts
    <3>2. Plus(r.next, k + 1) = IF r.next + (k + 1) < SnMod THEN r.next + (k + 1)
                                ELSE r.next + (k + 1) - SnMod
      BY <1>1, <3>1, PlusLinear
    <3>3. QED  BY <1>1, <3>1, <3>2, SizeFacts DEF SN
  <2> HIDE DEF N
  <2>6. Len(res.out) <= k + 1
    BY <1>3, <1>8
  <2>7. QED  BY <2>1, <2>3, <2>4, <2>5, <2>6 DEF NextMoves
<1>14. Fills(r, res, P, N)
  <2>1. \A i \in Slots : /\ Occupied(res.rb.slot[i]) => Occupied(r.slot[i])
                         /\ res.rb.slot[i].ph => r.slot[i].ph
    BY <1>2, <1>8, <1>9
  <2>2. res.rb.gap => \E i \in Slots : Occupied(res.rb.slot[i])
    BY <1>2, <1>8
  <2> HIDE DEF N
  <2>3. QED  BY <2>1, <2>2 DEF Fills
<1>15. QED  BY <1>11, <1>12, <1>13, <1>14 DEF Moves, res, P, f, o, a

LEMMA LargeGapMoves ==
    ASSUME NEW r, Good(r), NEW p \in Packets,
           Dist(SortKey(p), r.next) >= BufSize, ~Passed(SortKey(p), r.next)
    PROVE  Moves(r, LargeGap(r, p), {p}, {SortKey(p)})
<1> DEFINE key == SortKey(p)
           d == Dist(key, r.next)
           empty == [i \in Slots |-> EmptySlot]
           q == [r EXCEPT !.next = Plus(key, 1), !.slot = empty, !.gap = FALSE]
           o == [j \in 1 .. BufSize |-> r.slot[SlotOf(Plus(r.next, j - 1))].frame]
           res == LargeGap(r, p)
<1>1. r \in RbType /\ PlacedIn(r) /\ r.next \in SN /\ key \in SN /\ p # None
  BY SortKeyType DEF Good, RbType
<1>2. q.next = Plus(key, 1) /\ q.slot = empty /\ q.gap = FALSE
  BY <1>1 DEF RbType
<1>3. \A i \in Slots : /\ empty[i].frame = None /\ empty[i].ph = FALSE
                       /\ ~Occupied(empty[i])
  BY DEF EmptySlot, Occupied
<1>4. ASSUME NEW j \in 1 .. BufSize
      PROVE  /\ SlotOf(Plus(r.next, j - 1)) \in Slots
             /\ o[j] = r.slot[SlotOf(Plus(r.next, j - 1))].frame
             /\ o[j] \in Packets \cup {None}
  <2>1. j - 1 \in 0 .. SnMod
    BY SizeFacts
  <2>2. SlotOf(Plus(r.next, j - 1)) \in Slots
    BY <1>1, <2>1, SlotOfPlus
  <2>3. QED  BY <1>1, <2>2 DEF RbType, SlotType
<1>5. o \in Seq(Packets \cup {None}) /\ Len(o) = BufSize
  <2>1. o \in [1 .. BufSize -> Packets \cup {None}]
    BY <1>4
  <2>2. QED  BY <2>1, SizeFacts, SeqOfFunction
<1>6. res.rb = q /\ res.out = o \o <<p>>
  BY DEF LargeGap
<1> HIDE DEF empty, q, o, res
<1>7. /\ Len(res.out) = BufSize + 1 /\ res.out[BufSize + 1] = p
      /\ \A j \in 1 .. BufSize : res.out[j] = r.slot[SlotOf(Plus(r.next, j - 1))].frame
  <2>1. <<p>> \in Seq(Packets \cup {None}) /\ Len(<<p>>) = 1 /\ <<p>>[1] = p
    OBVIOUS
  <2>2. Len(res.out) = BufSize + 1 /\ res.out[BufSize + 1] = p
    BY <1>5, <1>6, <2>1, SizeFacts
  <2>3. \A j \in 1 .. BufSize : res.out[j] = o[j]
    BY <1>5, <1>6, <2>1, SizeFacts
  <2>4. QED  BY <1>4, <2>2, <2>3
<1>8. d \in SN /\ Plus(r.next, d) = key /\ d >= BufSize /\ 2 * d < SnMod
  <2>1. d \in SN /\ Plus(r.next, d) = key
    BY <1>1, DistLinear, PlusDist
  <2>2. d >= BufSize /\ ~(2 * d >= SnMod)
    BY DEF Passed
  <2> HIDE DEF d
  <2>3. QED  BY <2>1, <2>2, SizeFacts DEF SN
<1> HIDE DEF key, d
<1>9. Plus(key, 1) = Plus(r.next, d + 1) /\ Plus(r.next, d + 1) # r.next
  <2>1. d \in 0 .. SnMod /\ d + 1 \in 0 .. SnMod /\ 1 \in 0 .. SnMod /\ d \in Nat
    BY <1>8, SizeFacts DEF SN
  <2>2. /\ key = IF r.next + d < SnMod THEN r.next + d ELSE r.next + d - SnMod
        /\ Plus(key, 1) = IF key + 1 < SnMod THEN key + 1 ELSE key + 1 - SnMod
        /\ Plus(r.next, d + 1) = IF r.next + (d + 1) < SnMod THEN r.next + (d + 1)
                                 ELSE r.next + (d + 1) - SnMod
    BY <1>1, <1>8, <2>1, PlusLinear
  <2>3. QED  BY <1>1, <1>8, <2>1, <2>2, SizeFacts DEF SN
<1>10. FromRing(r, res, {p})
  <2>1. ASSUME NEW j \in 1 .. Len(res.out), res.out[j] # None
        PROVE  \/ res.out[j] \in {p}
               \/ \E i \in Slots : r.slot[i].frame = res.out[j] /\ res.rb.slot[i].frame = None
    <3>1. CASE j = BufSize + 1
      BY <1>7, <3>1
    <3>2. CASE j # BufSize + 1
      <4>1. j \in 1 .. BufSize
        BY <1>7, <3>2, SizeFacts
      <4>2. QED  BY <1>2, <1>3, <1>4, <1>6, <1>7, <4>1
    <3>3. QED  BY <3>1, <3>2
  <2>2. \A i \in Slots : res.rb.slot[i].frame = None
    BY <1>2, <1>3, <1>6
  <2>3. QED  BY <2>1, <2>2 DEF FromRing
<1>11. NoneDropped(r, res, {p})
  <2>1. ASSUME NEW i \in Slots, r.slot[i].frame # None
        PROVE  Has(res.out, r.slot[i].frame)
    <3> DEFINE e == Dist(SortKey(r.slot[i].frame), r.next)
    <3>1. e \in 1 .. BufSize - 1 /\ i = SlotOf(Plus(r.next, e))
      BY <1>1, <2>1, PlacedSlot
    <3> HIDE DEF e
    <3>2. e + 1 \in 1 .. BufSize /\ (e + 1) - 1 = e /\ e + 1 \in 1 .. Len(res.out)
      BY <1>7, <3>1, SizeFacts
    <3>3. res.out[e + 1] = r.slot[i].frame
      BY <1>7, <3>1, <3>2
    <3>4. QED  BY <3>2, <3>3 DEF Has
  <2>2. Has(res.out, p)
    <3>1. BufSize + 1 \in 1 .. Len(res.out)
      BY <1>7, SizeFacts
    <3>2. QED  BY <1>7, <3>1 DEF Has
  <2>3. QED  BY <2>1, <2>2 DEF NoneDropped
<1>12. NextMoves(r, res, {key})
  <2>1. d \in 0 .. SnMod - 1 /\ res.rb.next = Plus(r.next, d + 1) /\ res.rb.next # r.next
    BY <1>2, <1>6, <1>8, <1>9 DEF SN
  <2>2. ASSUME NEW e \in 0 .. d, e < BufSize
        PROVE  ~Occupied(res.rb.slot[SlotOf(Plus(r.next, e))])
    <3>1. e \in 0 .. SnMod
      BY <2>1, <2>2, SizeFacts
    <3>2. SlotOf(Plus(r.next, e)) \in Slots
      BY <1>1, <3>1, SlotOfPlus
    <3>3. QED  BY <1>2, <1>3, <1>6, <3>2
  <2>3. Len(res.out) <= d + 1
    BY <1>7, <1>8, SizeFacts DEF SN
  <2>4. QED  BY <1>8, <2>1, <2>2, <2>3 DEF NextMoves
<1>13. Fills(r, res, {p}, {key})
  BY <1>2, <1>3, <1>6 DEF Fills
<1>14. QED  BY <1>10, <1>11, <1>12, <1>13 DEF Moves, res, key

\* Two frames less than a ring ahead of next in one slot have one sort key.
LEMMA OneKeyPerSlot ==
    ASSUME NEW r, Good(r), NEW sn \in SN, Dist(sn, r.next) \in 1 .. BufSize - 1,
           SlotOf(sn) \in Slots, r.slot[SlotOf(sn)].frame # None
    PROVE  SortKey(r.slot[SlotOf(sn)].frame) = sn
<1> DEFINE i == SlotOf(sn)
           key == SortKey(r.slot[i].frame)
           d == Dist(sn, r.next)
           e == Dist(key, r.next)
<1>1. r \in RbType /\ PlacedIn(r) /\ r.next \in SN
  BY DEF Good, RbType
<1>2. key \in SN /\ e \in 1 .. BufSize - 1 /\ Plus(r.next, e) = key
      /\ i = SlotOf(Plus(r.next, e))
  BY <1>1, PlacedSlot
<1>3. Plus(r.next, d) = sn /\ d \in 1 .. BufSize - 1 /\ i = SlotOf(sn)
  BY <1>1, PlusDist
<1> HIDE DEF i, key, d, e
<1>4. d \in 0 .. SnMod /\ e \in 0 .. SnMod /\ d < e + BufSize /\ e < d + BufSize
  BY <1>2, <1>3, SizeFacts
<1>5. SlotOf(Plus(r.next, d)) = SlotOf(Plus(r.next, e))
  BY <1>2, <1>3
<1>6. ~(d < e) /\ ~(e < d)
  BY <1>1, <1>4, <1>5, SlotsDiffer
<1>7. d = e
  BY <1>2, <1>3, <1>6
<1>8. key = sn
  BY <1>2, <1>3, <1>7
<1>9. QED  BY <1>8 DEF i, key

\* One slot ahead of next is written: a frame, or none, and perhaps a mark.
LEMMA WriteMoves ==
    ASSUME NEW r, Good(r), NEW sn \in SN, Dist(sn, r.next) \in 1 .. BufSize - 1,
           NEW P, P \subseteq Packets, \A p \in P : SortKey(p) = sn,
           NEW w \in SlotType, NEW q, NEW o, NEW i, i = SlotOf(sn),
           q \in RbType, q.next = r.next,
           q.slot = [r.slot EXCEPT ![i] = w],
           w.frame # None => (w.frame \in P /\ o = <<>>),
           \A p \in P : w.frame = p \/ o = <<p>>,
           P = {} => r.slot[i].frame = None,
           w.ph => (r.slot[i].ph \/ P = {}),
           o = <<>> \/ \E p \in P : o = <<p>>,
           q.gap => (Occupied(w) \/ (r.gap /\ P # {} /\ ~r.slot[i].ph))
                    \/ (r.gap /\ r.slot[i].ph /\ w.ph)
    PROVE  Moves(r, [rb |-> q, out |-> o], P, {sn})
<1> DEFINE res == [rb |-> q, out |-> o]
<1>1. r \in RbType /\ r.slot \in [Slots -> SlotType] /\ r.next \in SN
  BY DEF Good, RbType
<1>2. i \in Slots
  BY SizeFacts DEF SlotOf, Slots, SN
<1>3. q.slot[i] = w /\ \A x \in Slots : x # i => q.slot[x] = r.slot[x]
  BY <1>1, <1>2
<1>4. res.rb = q /\ res.out = o
  OBVIOUS
<1>5. \/ Len(o) = 0
      \/ \E p \in P : Len(o) = 1 /\ o[1] = p
  OBVIOUS
<1>6. r.slot[i].frame # None => Replaced(P, r.slot[i].frame)
  <2>1. ASSUME r.slot[i].frame # None PROVE Replaced(P, r.slot[i].frame)
    <3>1. SortKey(r.slot[i].frame) = sn
      BY <1>2, <2>1, OneKeyPerSlot
    <3>2. PICK p \in P : TRUE
      BY <2>1
    <3>3. QED  BY <3>1, <3>2 DEF Replaced
  <2>2. QED  BY <2>1
<1> HIDE DEF res
<1>7. FromRing(r, res, P)
  <2>1. \A j \in 1 .. Len(o) : o[j] \in P
    BY <1>5
  <2>2. \A x \in Slots : q.slot[x].frame # None =>
           q.slot[x].frame = r.slot[x].frame \/ (q.slot[x].frame \in P /\ o = <<>>)
    BY <1>3
  <2>3. QED  BY <1>4, <2>1, <2>2 DEF FromRing
<1>8. NoneDropped(r, res, P)
  <2>1. \A x \in Slots : r.slot[x].frame # None =>
           q.slot[x].frame = r.slot[x].frame \/ Replaced(P, r.slot[x].frame)
    BY <1>3, <1>6
  <2>2. \A p \in P : q.slot[i].frame = p \/ Has(o, p)
    <3>1. ASSUME NEW p \in P, o = <<p>> PROVE Has(o, p)
      <4>1. 1 \in 1 .. Len(o) /\ o[1] = p
        BY <3>1
      <4>2. QED  BY <4>1 DEF Has
    <3>2. QED  BY <1>3, <3>1
  <2>3. QED  BY <1>2, <1>4, <2>1, <2>2 DEF NoneDropped
<1>9. NextMoves(r, res, {sn})
  <2>0. Len(o) = 0 \/ Len(o) = 1
    BY <1>5
  <2>1. 0 <= 1 /\ 1 <= 1
    OBVIOUS
  <2>2. Len(o) <= 1
    BY <2>0, <2>1, Zenon
  <2>3. QED  BY <1>4, <2>2 DEF NextMoves
<1>10. Ahead(r, {sn}, i)
  BY DEF Ahead
<1>11. Fills(r, res, P, {sn})
  <2>1. ASSUME NEW x \in Slots
        PROVE  /\ Occupied(res.rb.slot[x]) =>
                     Occupied(r.slot[x]) \/ (res.rb.next = r.next /\ Ahead(r, {sn}, x))
               /\ res.rb.slot[x].ph =>
                     r.slot[x].ph \/ (P = {} /\ res.rb.next = r.next /\ Ahead(r, {sn}, x))
    <3>1. CASE x = i
      BY <1>3, <1>4, <1>10, <3>1
    <3>2. CASE x # i
      BY <1>3, <1>4, <3>2
    <3>3. QED  BY <3>1, <3>2
  <2>2. ASSUME q.gap, ~\E x \in Slots : Occupied(q.slot[x])
        PROVE  r.gap /\ \A x \in Slots : Occupied(r.slot[x]) =>
                           r.slot[x].frame # None /\ Replaced(P, r.slot[x].frame)
    <3>1. ~Occupied(w) /\ \A x \in Slots : x # i => ~Occupied(r.slot[x])
      BY <1>2, <1>3, <2>2
    <3>2. ~w.ph
      BY <3>1 DEF Occupied
    <3>3. r.gap /\ ~r.slot[i].ph
      BY <2>2, <3>1, <3>2
    <3>4. Occupied(r.slot[i]) => r.slot[i].frame # None
      BY <3>3 DEF Occupied
    <3>5. QED  BY <1>6, <3>1, <3>3, <3>4
  <2>3. QED  BY <1>4, <2>1, <2>2 DEF Fills
<1>12. QED  BY <1>7, <1>8, <1>9, <1>11 DEF Moves, res

LEMMA EnqueueMoves ==
    ASSUME NEW r0, Good(r0), NEW p \in Packets, NEW oom
    PROVE  Moves(Inited(r0, p.sn), Enqueue(r0, p, oom), {p}, {SortKey(p)})
<1> DEFINE r == Inited(r0, p.sn)
           key == SortKey(p)
           d == Dist(key, r.next)
           i == SlotOf(key)
           old == r.slot[i]
<1>1. Good(r) /\ r.inited /\ key \in SN /\ p # None
  BY SortKeyType, InitedGood
<1>2. Enqueue(r0, p, oom) =
        IF Passed(SortKey(p), r.next) THEN [rb |-> r, out |-> <<>>]
        ELSE IF d = 0 THEN InOrder(r, p)
        ELSE IF d >= BufSize THEN LargeGap(r, p)
        ELSE IF oom THEN StoreOom(r, p) ELSE Store(r, p)
  BY DEF Enqueue
<1> SUFFICES Moves(r, Enqueue(r0, p, oom), {p}, {key})
  OBVIOUS
<1> HIDE DEF r
<1>3. r \in RbType /\ r.next \in SN /\ r.slot \in [Slots -> SlotType] /\ i \in Slots
  BY <1>1, SizeFacts DEF Good, RbType, SlotOf, Slots, SN
<1>4. d \in SN /\ (d = 0 => key = r.next)
  <2>1. d \in SN /\ d = IF r.next <= key THEN key - r.next ELSE key - r.next + SnMod
    BY <1>1, <1>3, DistLinear
  <2> HIDE DEF key, d
  <2>2. QED  BY <2>1, <1>1, <1>3, SizeFacts DEF SN
<1>5. CASE Passed(key, r.next)
  <2>1. Moves(r, [rb |-> r, out |-> <<>>], {p}, {key})
    BY <1>1, <1>5, QuietMoves
  <2>2. QED  BY <1>2, <1>5, <2>1
<1>6. CASE ~Passed(key, r.next) /\ d = 0
  <2>1. key = r.next /\ {p} \ {None} = {p}
    BY <1>1, <1>4, <1>6
  <2>2. Moves(r, [rb |-> Flush(Advance(r)), out |-> <<p>> \o FlushOut(Advance(r))],
              {p} \ {None}, {r.next})
    BY <1>1, <2>1, AdvanceMoves
  <2>3. QED  BY <1>2, <1>6, <2>1, <2>2 DEF InOrder
<1>7. CASE ~Passed(key, r.next) /\ d # 0 /\ d >= BufSize
  BY <1>1, <1>2, <1>7, LargeGapMoves
<1>8. CASE ~Passed(key, r.next) /\ d # 0 /\ ~(d >= BufSize)
  <2>1. d \in 1 .. BufSize - 1
    BY <1>4, <1>8, SizeFacts DEF SN
  <2>2. old \in SlotType
    BY <1>3
  <2>3. Moves(r, Store(r, p), {p}, {key})
    <3> DEFINE w == [old EXCEPT !.frame = p]
               q == [r EXCEPT !.slot = [r.slot EXCEPT ![i] = w], !.gap = TRUE]
    <3>1. w \in SlotType /\ w.frame = p /\ w.ph = old.ph
      BY <2>2 DEF SlotType
    <3>2. q \in RbType /\ q.slot = [r.slot EXCEPT ![i] = w] /\ q.next = r.next
      BY <1>3, <3>1 DEF RbType
    <3>3. Store(r, p) = [rb |-> q, out |-> <<>>]
      BY <1>3 DEF Store, RbType
    <3>4. Occupied(w)
      BY <1>1, <3>1 DEF Occupied
    <3> HIDE DEF q, w, key, d, i
    <3>5. Moves(r, [rb |-> q, out |-> <<>>], {p}, {key})
      BY <1>1, <2>1, <3>1, <3>2, <3>4, WriteMoves DEF d, i, key
    <3>6. QED  BY <3>3, <3>5
  <2>4. Moves(r, StoreOom(r, p), {p}, {key})
    <3> DEFINE w == [old EXCEPT !.frame = None]
               q == [r EXCEPT !.slot = [r.slot EXCEPT ![i] = w], !.gap = r.gap]
    <3>1. w \in SlotType /\ w.frame = None /\ w.ph = old.ph /\ old.ph \in BOOLEAN
      BY <2>2 DEF SlotType
    <3>2. q \in RbType /\ q.slot = [r.slot EXCEPT ![i] = w] /\ q.next = r.next
          /\ q.gap = r.gap
      BY <1>3, <3>1 DEF RbType
    <3>3. StoreOom(r, p) = [rb |-> q, out |-> <<p>>]
      BY <1>3 DEF StoreOom, RbType
    <3> HIDE DEF q, w, key, d, i
    <3>5. Moves(r, [rb |-> q, out |-> <<p>>], {p}, {key})
      BY <1>1, <2>1, <3>1, <3>2, WriteMoves DEF d, i, key
    <3>6. QED  BY <3>3, <3>5
  <2>5. QED  BY <1>2, <1>8, <2>3, <2>4
<1>9. QED  BY <1>5, <1>6, <1>7, <1>8

LEMMA PlaceholderMoves ==
    ASSUME NEW r0, Good(r0), NEW sn \in SN
    PROVE  Moves(Inited(r0, sn), EnqueuePlaceholder(r0, sn), {}, {sn})
<1> DEFINE r == Inited(r0, sn)
           d == Dist(sn, r.next)
           i == SlotOf(sn)
           q == [r EXCEPT !.slot[i].ph = TRUE, !.gap = TRUE]
           step == [rb |-> Flush(Advance(r)), out |-> <<None>> \o FlushOut(Advance(r))]
<1>1. Good(r) /\ r.inited
  BY InitedGood
<1>2. EnqueuePlaceholder(r0, sn) =
        IF Passed(sn, r.next) THEN [rb |-> r, out |-> <<>>]
        ELSE IF d = 0 THEN step
        ELSE IF d < BufSize /\ r.slot[i].frame = None THEN [rb |-> q, out |-> <<>>]
        ELSE [rb |-> r, out |-> <<>>]
  BY DEF EnqueuePlaceholder
<1> SUFFICES Moves(r, EnqueuePlaceholder(r0, sn), {}, {sn})
  OBVIOUS
<1> HIDE DEF r
<1>3. r \in RbType /\ r.next \in SN /\ i \in Slots
  BY <1>1, SizeFacts DEF Good, RbType, SlotOf, Slots, SN
<1>4. d \in SN /\ (d = 0 => sn = r.next)
  <2>1. d \in SN /\ d = IF r.next <= sn THEN sn - r.next ELSE sn - r.next + SnMod
    BY <1>3, DistLinear
  <2> HIDE DEF d
  <2>2. QED  BY <2>1, <1>3, SizeFacts DEF SN
<1>5. Moves(r, [rb |-> r, out |-> <<>>], {}, {sn})
  BY <1>1, QuietMoves
<1>6. ASSUME d = 0 PROVE Moves(r, step, {}, {sn})
  <2>1. {None} \ {None} = {} /\ sn = r.next
    BY <1>4, <1>6
  <2>2. Moves(r, step, {None} \ {None}, {r.next})
    BY <1>1, AdvanceMoves
  <2> HIDE DEF step
  <2>3. QED  BY <2>1, <2>2
<1>7. ASSUME d # 0, d < BufSize, r.slot[i].frame = None
      PROVE  Moves(r, [rb |-> q, out |-> <<>>], {}, {sn})
  <2> DEFINE w == [r.slot[i] EXCEPT !.ph = TRUE]
  <2>1. d \in 1 .. BufSize - 1
    BY <1>4, <1>7, SizeFacts DEF SN
  <2>2. r.slot \in [Slots -> SlotType] /\ r.slot[i] \in SlotType
    BY <1>3 DEF RbType
  <2>3. w \in SlotType /\ w.frame = None /\ w.ph = TRUE
    BY <1>7, <2>2 DEF SlotType
  <2>4. q \in RbType /\ q.slot = [r.slot EXCEPT ![i] = w] /\ q.next = r.next
    BY <1>3, <2>2, <2>3 DEF RbType
  <2>5. Occupied(w)
    BY <2>3 DEF Occupied
  <2> HIDE DEF q, w, d, i
  <2>6. QED  BY <1>1, <1>7, <2>1, <2>3, <2>4, <2>5, WriteMoves DEF d, i
<1> HIDE DEF step, q, d, i
<1>8. QED  BY <1>2, <1>5, <1>6, <1>7

LEMMA SkipGapMoves ==
    ASSUME NEW r, Good(r)
    PROVE  Moves(r, SkipGap(r), {}, {r.next})
<1>1. {None} \ {None} = {}
  OBVIOUS
<1>2. Moves(r, SkipGap(r), {None} \ {None}, {r.next})
  BY AdvanceMoves DEF SkipGap
<1>3. QED  BY <1>1, <1>2

\* A distance below SnMod is the way to a number.
LEMMA DistOfPlus ==
    ASSUME NEW n \in SN, NEW j \in 0 .. SnMod - 1
    PROVE  Dist(Plus(n, j), n) = j
<1> DEFINE m == Plus(n, j)
<1>1. j \in 0 .. SnMod
  BY SizeFacts
<1>2. m \in SN /\ m = IF n + j < SnMod THEN n + j ELSE n + j - SnMod
  BY <1>1, PlusLinear
<1>3. Dist(m, n) = IF n <= m THEN m - n ELSE m - n + SnMod
  BY <1>2, DistLinear
<1> HIDE DEF m
<1>4. Dist(m, n) = j
  BY <1>2, <1>3, SizeFacts DEF SN
<1>5. QED  BY <1>4 DEF m

\* A step back from the same number leads to the same number.
LEMMA OneBack ==
    ASSUME NEW m \in Nat, NEW a \in Nat, a < m, NEW k \in Nat, k < m, NEW d \in Nat, d < m,
           (IF a + (d + 1) < m THEN a + (d + 1) ELSE a + (d + 1) - m)
             = IF k + 1 < m THEN k + 1 ELSE k + 1 - m
    PROVE  k = IF a + d < m THEN a + d ELSE a + d - m
<1>1. CASE a + d + 1 < m
  BY <1>1
<1>2. CASE a + d + 1 >= m
  BY <1>2
<1>3. QED  BY <1>1, <1>2

\* The frames handed over by a call that moves next rise from next to the
\* number before the new next.
LEMMA OutRises ==
    ASSUME NEW r, r.next \in SN, NEW res, CallOk(r, res), NEW N, NextMoves(r, res, N),
           res.rb.next # r.next
    PROVE  /\ \A j \in 1 .. Len(res.out) : res.out[j] # None =>
                Dist(SortKey(res.out[j]), r.next) \in 0 .. Dist(res.rb.next, r.next) - 1
           /\ \A j, k \in 1 .. Len(res.out) :
                res.out[j] # None /\ res.out[k] # None /\ j < k =>
                  Dist(SortKey(res.out[j]), r.next) < Dist(SortKey(res.out[k]), r.next)
<1> DEFINE o == res.out
           D(j) == Dist(SortKey(o[j]), r.next)
<1>1. PICK d \in 0 .. SnMod - 1 : /\ res.rb.next = Plus(r.next, d + 1)
                                  /\ Len(o) <= d + 1 /\ 2 * d < SnMod
  BY DEF NextMoves
<1>2. o \in Seq(Packets \cup {None}) /\ Len(o) \in Nat
  BY DEF CallOk
<1>3. ASSUME NEW j \in 1 .. Len(o), o[j] # None
      PROVE  /\ D(j) \in 0 .. d /\ D(j) >= j - 1
             /\ D(j) = j - 1 \/ j = Len(o)
  <2> DEFINE key == SortKey(o[j])
  <2>1. key \in SN
    <3>1. o[j] \in Packets
      BY <1>2, <1>3
    <3>2. QED  BY <3>1, SortKeyType
  <2>2. j - 1 \in 0 .. SnMod - 1 /\ j - 1 \in 0 .. d
    BY <1>1, <1>2, SizeFacts
  <2>3. \/ key = Plus(r.next, j - 1)
        \/ j = Len(o) /\ Dist(key, r.next) >= j - 1 /\ res.rb.next = Plus(key, 1)
    BY <1>3 DEF CallOk, OutInOrder
  <2>4. CASE key = Plus(r.next, j - 1)
    <3>1. D(j) = j - 1
      BY <2>2, <2>4, DistOfPlus
    <3> HIDE DEF D, key
    <3>2. QED  BY <2>2, <3>1
  <2>5. CASE j = Len(o) /\ Dist(key, r.next) >= j - 1 /\ res.rb.next = Plus(key, 1)
    <3> HIDE DEF key
    <3>1. Plus(r.next, d + 1) = Plus(key, 1) /\ d + 1 \in 0 .. SnMod /\ 1 \in 0 .. SnMod
      BY <1>1, <2>5, SizeFacts
    <3>2. /\ Plus(r.next, d + 1) = IF r.next + (d + 1) < SnMod THEN r.next + (d + 1)
                                   ELSE r.next + (d + 1) - SnMod
          /\ Plus(key, 1) = IF key + 1 < SnMod THEN key + 1 ELSE key + 1 - SnMod
          /\ Plus(r.next, d) = IF r.next + d < SnMod THEN r.next + d
                               ELSE r.next + d - SnMod
      <4>1. d \in 0 .. SnMod
        BY <1>1, SizeFacts
      <4>2. QED  BY <2>1, <3>1, <4>1, PlusLinear
    <3>3. key = Plus(r.next, d)
      <4>1. r.next \in Nat /\ r.next < SnMod /\ key \in Nat /\ key < SnMod
            /\ d \in Nat /\ d < SnMod /\ SnMod \in Nat
        BY <2>1, SizeFacts DEF SN
      <4>2. (IF r.next + (d + 1) < SnMod THEN r.next + (d + 1)
             ELSE r.next + (d + 1) - SnMod)
             = IF key + 1 < SnMod THEN key + 1 ELSE key + 1 - SnMod
        BY <3>1, <3>2
      <4>3. key = IF r.next + d < SnMod THEN r.next + d ELSE r.next + d - SnMod
        <5> DEFINE x == r.next
        <5> HIDE DEF x, key
        <5>1. /\ x \in Nat /\ x < SnMod /\ key \in Nat /\ key < SnMod
              /\ d \in Nat /\ d < SnMod /\ SnMod \in Nat
          BY <4>1 DEF x
        <5>2. (IF x + (d + 1) < SnMod THEN x + (d + 1) ELSE x + (d + 1) - SnMod)
               = IF key + 1 < SnMod THEN key + 1 ELSE key + 1 - SnMod
          BY <4>2 DEF x
        <5>3. key = IF x + d < SnMod THEN x + d ELSE x + d - SnMod
          BY <5>1, <5>2, OneBack
        <5>4. QED  BY <5>3 DEF x
      <4>4. QED  BY <3>2, <4>3
    <3>4. Dist(key, r.next) = d
      BY <3>3, DistOfPlus
    <3>5. D(j) = d
      BY <3>4 DEF key
    <3>6. d >= j - 1 /\ d \in 0 .. d
      BY <1>1, <2>2
    <3> HIDE DEF D
    <3>7. QED  BY <2>5, <3>5, <3>6
  <2>6. QED  BY <2>3, <2>4, <2>5
<1>4. ASSUME NEW j \in 1 .. Len(o), NEW k \in 1 .. Len(o), o[j] # None, o[k] # None, j < k
      PROVE  D(j) < D(k)
  <2>1. j # Len(o)
    BY <1>2, <1>4
  <2>2. D(j) = j - 1 /\ D(k) >= k - 1 /\ D(k) \in 0 .. d
    BY <1>3, <1>4, <2>1
  <2> HIDE DEF D
  <2>3. QED  BY <1>1, <1>4, <2>2
<1>5. Dist(res.rb.next, r.next) - 1 = d
  <2>1. d + 1 \in 0 .. SnMod - 1
    BY <1>1, SizeFacts
  <2>2. Dist(res.rb.next, r.next) = d + 1
    BY <1>1, <2>1, DistOfPlus
  <2>3. QED  BY <2>2
<1>6. QED  BY <1>3, <1>4, <1>5

-----------------------------------------------------------------------------
(* The specification. *)

\* Before the first call the timer is off: a timeout finds an initialised
\* buffer.
Inv == Good(rb) /\ out \in Seq(Packets \cup {None}) /\ (rb.gap => rb.inited)

LEMMA InvInit == Init => Inv
<1>1. SUFFICES ASSUME Init PROVE Inv
  OBVIOUS
<1>2. rb = Cleared /\ out = <<>>
  BY <1>1 DEF Init
<1>3. Good(rb)
  BY <1>2, ClearedGood
<1>4. out \in Seq(Packets \cup {None})
  BY <1>2
<1>5. ~rb.gap
  BY <1>2 DEF Cleared
<1>6. QED  BY <1>3, <1>4, <1>5 DEF Inv

\* Every step but a reset is a call that is in order.
LEMMA StepIsCall ==
    ASSUME Inv, Next, ~ReorderClear
    PROVE  \E r, res : /\ CallOk(r, res) /\ Become(res)
                       /\ rb.inited => r = rb
<1>1. Good(rb)
  BY DEF Inv
<1>2. CASE \E p \in Packets : ReceiveData(p) \/ ReceiveDataOom(p)
  <2>1. PICK p \in Packets : ReceiveData(p) \/ ReceiveDataOom(p)
    BY <1>2
  <2>2. PICK oom : Become(Enqueue(rb, p, oom))
    BY <2>1 DEF ReceiveData, ReceiveDataOom
  <2>3. CallOk(Inited(rb, p.sn), Enqueue(rb, p, oom))
    BY <1>1, EnqueueOk
  <2>4. rb.inited => Inited(rb, p.sn) = rb
    BY DEF Inited
  <2>5. QED  BY <2>2, <2>3, <2>4
<1>3. CASE \E p \in Packets : ReceiveDuplicate(p)
  <2>1. PICK p \in Packets : Become(EnqueuePlaceholder(rb, p.sn))
    BY <1>3 DEF ReceiveDuplicate
  <2>2. CallOk(Inited(rb, p.sn), EnqueuePlaceholder(rb, p.sn))
    BY <1>1, SortKeyType, PlaceholderOk
  <2>3. rb.inited => Inited(rb, p.sn) = rb
    BY DEF Inited
  <2>4. QED  BY <2>1, <2>2, <2>3
<1>4. CASE GapTimeout
  <2>1. rb.gap /\ Become(SkipGap(rb))
    BY <1>4 DEF GapTimeout
  <2>2. CallOk(rb, SkipGap(rb))
    BY <1>1, <2>1, SkipGapOk DEF Inv
  <2>3. QED  BY <2>1, <2>2
<1>5. QED  BY <1>2, <1>3, <1>4 DEF Next

LEMMA InvNext == Inv /\ [Next]_vars => Inv'
<1>1. SUFFICES ASSUME Inv, [Next]_vars PROVE Inv'
  OBVIOUS
<1>2. CASE UNCHANGED vars
  BY <1>1, <1>2 DEF Inv, vars
<1>3. CASE ReorderClear
  <2>1. rb' = Cleared /\ out' = <<>>
    BY <1>3 DEF ReorderClear
  <2>2. Good(rb') /\ ~rb'.gap
    BY <2>1, ClearedGood DEF Cleared
  <2>3. out' \in Seq(Packets \cup {None})
    BY <2>1
  <2>4. QED  BY <2>2, <2>3 DEF Inv
<1>4. CASE Next /\ ~ReorderClear
  <2>1. PICK r, res : CallOk(r, res) /\ Become(res)
    BY <1>1, <1>4, StepIsCall
  <2>2. QED  BY <2>1 DEF Become, CallOk, Inv
<1>5. QED  BY <1>1, <1>2, <1>3, <1>4

THEOREM Invariance == Spec => []Inv
BY InvInit, InvNext, PTL DEF Spec

\* The members of the reorder buffer keep their types whatever packets come.
THEOREM TypeCorrect == Spec => []TypeOK
<1>1. Inv => TypeOK
  BY DEF Inv, Good, TypeOK
<1>2. QED  BY <1>1, Invariance, PTL

\* ReorderFlush never leaves anything in the slot that is waited for.
THEOREM HeadAlwaysEmpty == Spec => []HeadEmpty
<1>1. Inv => HeadEmpty
  BY DEF Inv, Good, HeadEmpty
<1>2. QED  BY <1>1, Invariance, PTL

\* A slot index never stands for the wrong sequence number, across the
\* wrap-around of the numbers too.
THEOREM PlacementCorrect == Spec => []SlotPlacement
<1>1. Inv => SlotPlacement
  BY DEF Inv, Good, SlotPlacement
<1>2. QED  BY <1>1, Invariance, PTL

\* Nothing is buffered while the gap timer is off.
THEOREM TimerAlwaysArmed == Spec => []TimerArmed
<1>1. Inv => TimerArmed
  BY DEF Inv, Good, TimerArmed
<1>2. QED  BY <1>1, Invariance, PTL

\* receive_frame_cb_ is called in the order of the sort keys.
THEOREM DeliveryInOrder == Spec => StepsInOrder
<1>1. Inv /\ [Next]_vars => [InOrderStep]_vars
  <2>1. SUFFICES ASSUME Inv, Next, rb.inited, rb'.inited, rb'.next # rb.next
                 PROVE  InOrderStep
    BY DEF InOrderStep
  <2>2. ~ReorderClear
    BY <2>1 DEF ReorderClear, Cleared
  <2>3. PICK r, res : CallOk(r, res) /\ Become(res) /\ r = rb
    BY <2>1, <2>2, StepIsCall
  <2>4. OutInOrder(rb, [rb |-> rb', out |-> out'])
    BY <2>3 DEF CallOk, Become, OutInOrder
  <2>5. QED  BY <2>4 DEF OutInOrder, InOrderStep
<1>2. QED  BY <1>1, Invariance, PTL DEF Spec, StepsInOrder
=============================================================================
