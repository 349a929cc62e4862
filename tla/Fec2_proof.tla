----------------------------- MODULE Fec2_proof -----------------------------
(***************************************************************************)
(* Proofs about Fec2: a parity packet is the XOR of what its bitmap names, *)
(* and what the decoder restores is a packet.                              *)
(***************************************************************************)
EXTENDS Fec2, FiniteSetTheorems, SequenceTheorems, WellFoundedInduction, TLAPS

-----------------------------------------------------------------------------
(* Recursion on the number of a step, and the weights of bits. *)

LEMMA LeastNatural ==
    ASSUME NEW S \in SUBSET Nat, S # {}
    PROVE  \E m \in S : \A n \in S : m <= n
<1>1. \E R : /\ \A x, y \in Nat : <<x, y>> \in R <=> x < y
             /\ \E m \in S : \A n \in S : ~(<<n, m>> \in R)
  <2>1. \E m \in S : \A n \in S : ~(<<n, m>> \in OpToRel(<, Nat))
    BY NatLessThanWellFounded, WFMin
  <2>2. \A x, y \in Nat : <<x, y>> \in OpToRel(<, Nat) <=> x < y
    BY DEF OpToRel
  <2>3. QED  BY <2>1, <2>2, Zenon
<1>2. PICK R : /\ \A x, y \in Nat : <<x, y>> \in R <=> x < y
               /\ \E m \in S : \A n \in S : ~(<<n, m>> \in R)
  BY <1>1
<1>3. PICK m \in S : \A n \in S : ~(<<n, m>> \in R)
  BY <1>2
<1>4. \A n \in S : ~(n < m)
  BY <1>2, <1>3
<1>5. QED  BY <1>4

\* What holds at 0 and is kept by every step up to N holds for all of them: S is
\* the set of steps at which it fails.
LEMMA NoLeast ==
    ASSUME NEW N \in Nat, NEW S \in SUBSET (0 .. N), 0 \notin S,
           \A n \in 1 .. N : n \in S => n - 1 \in S
    PROVE  S = {}
<1>1. SUFFICES ASSUME S # {} PROVE FALSE
  OBVIOUS
<1>2. PICK m \in S : \A n \in S : m <= n
  BY <1>1, LeastNatural
<1>3. m \in 1 .. N
  BY <1>2
<1> QED  BY <1>2, <1>3

WeightBody(g, k) == IF k = 0 THEN 1 ELSE 2 * g[k - 1]
BelowBody(bytes, g, k) ==
    IF k = 0 THEN 0 ELSE g[k - 1] + Weight[k - 1] * XorBit(bytes, k - 1)
TryMore(v, id) == IF v.todo = <<>> THEN v ELSE TryFirst(v, id)
TryBody(w, id, g, n) == IF n = 0 THEN w ELSE TryMore(g[n - 1], id)
ClearMore(f, i) ==
    IF Complete(f, f.mats[i]) THEN Release(f, i, SlotsOf(f.mats[i])) ELSE f
ClearBody(f, g, n) == IF n = 0 THEN f ELSE ClearMore(g[n - 1], n - 1)

LEMMA WeightExists ==
    ASSUME NEW N \in Nat
    PROVE  \E g : g = [n \in 0 .. N |-> WeightBody(g, n)]
<1> DEFINE Body(g, n) == WeightBody(g, n)
           Fun(k, g) == g = [n \in 0 .. k |-> Body(g, n)]
           T == {k \in Nat : ~\E g : Fun(k, g)}
<1>1. SUFFICES ASSUME T # {} PROVE FALSE
  OBVIOUS
<1>2. PICK k \in T : \A y \in T : k <= y
  BY <1>1, LeastNatural
<1>3. CASE k = 0
  <2> DEFINE h == [n \in 0 .. 0 |-> 1]
  <2>1. h = [n \in 0 .. 0 |-> Body(h, n)]
    BY DEF WeightBody
  <2>2. QED  BY <1>3, <2>1
<1>4. CASE k # 0
  <2>1. k - 1 \in Nat /\ k - 1 \notin T
    BY <1>2, <1>4
  <2>2. PICK g : Fun(k - 1, g)
    BY <2>1
  <2> DEFINE h == [n \in 0 .. k |-> IF n = k THEN Body(g, k) ELSE g[n]]
  <2>3. ASSUME NEW n \in 0 .. k  PROVE h[n] = Body(h, n)
    <3>1. CASE n = k
      <4>1. h[k - 1] = g[k - 1] /\ h[k] = Body(g, k)
        BY <2>1
      <4> HIDE DEF h
      <4>2. QED  BY <3>1, <4>1, <2>1 DEF WeightBody
    <3>2. CASE n # k
      <4>1. n \in 0 .. k - 1 /\ h[n] = g[n]
        BY <3>2, <2>1
      <4>2. g[n] = Body(g, n)
        BY <2>2, <4>1
      <4>3. n # 0 => h[n - 1] = g[n - 1]
        BY <4>1, <2>1
      <4> HIDE DEF h
      <4>4. QED  BY <4>1, <4>2, <4>3 DEF WeightBody
    <3>3. QED  BY <3>1, <3>2
  <2>4. h = [n \in 0 .. k |-> Body(h, n)]
    <3>1. h = [n \in 0 .. k |-> h[n]]
      OBVIOUS
    <3> HIDE DEF h, Body
    <3>2. QED  BY <3>1, <2>3
  <2> HIDE DEF h
  <2>5. QED  BY <1>2, <2>4
<1>5. QED  BY <1>3, <1>4

LEMMA BelowExists ==
    ASSUME NEW bytes, NEW N \in Nat
    PROVE  \E g : g = [n \in 0 .. N |-> BelowBody(bytes, g, n)]
<1> DEFINE Body(g, n) == BelowBody(bytes, g, n)
           Fun(k, g) == g = [n \in 0 .. k |-> Body(g, n)]
           T == {k \in Nat : ~\E g : Fun(k, g)}
<1>1. SUFFICES ASSUME T # {} PROVE FALSE
  OBVIOUS
<1>2. PICK k \in T : \A y \in T : k <= y
  BY <1>1, LeastNatural
<1>3. CASE k = 0
  <2> DEFINE h == [n \in 0 .. 0 |-> 0]
  <2>1. h = [n \in 0 .. 0 |-> Body(h, n)]
    BY DEF BelowBody
  <2>2. QED  BY <1>3, <2>1
<1>4. CASE k # 0
  <2>1. k - 1 \in Nat /\ k - 1 \notin T
    BY <1>2, <1>4
  <2>2. PICK g : Fun(k - 1, g)
    BY <2>1
  <2> DEFINE h == [n \in 0 .. k |-> IF n = k THEN Body(g, k) ELSE g[n]]
  <2>3. ASSUME NEW n \in 0 .. k  PROVE h[n] = Body(h, n)
    <3>1. CASE n = k
      <4>1. h[k - 1] = g[k - 1] /\ h[k] = Body(g, k)
        BY <2>1
      <4> HIDE DEF h
      <4>2. QED  BY <3>1, <4>1, <2>1 DEF BelowBody
    <3>2. CASE n # k
      <4>1. n \in 0 .. k - 1 /\ h[n] = g[n]
        BY <3>2, <2>1
      <4>2. g[n] = Body(g, n)
        BY <2>2, <4>1
      <4>3. n # 0 => h[n - 1] = g[n - 1]
        BY <4>1, <2>1
      <4> HIDE DEF h
      <4>4. QED  BY <4>1, <4>2, <4>3 DEF BelowBody
    <3>3. QED  BY <3>1, <3>2
  <2>4. h = [n \in 0 .. k |-> Body(h, n)]
    <3>1. h = [n \in 0 .. k |-> h[n]]
      OBVIOUS
    <3> HIDE DEF h, Body
    <3>2. QED  BY <3>1, <2>3
  <2> HIDE DEF h
  <2>5. QED  BY <1>2, <2>4
<1>5. QED  BY <1>3, <1>4

LEMMA TryExists ==
    ASSUME NEW w, NEW id, NEW N \in Nat
    PROVE  \E g : g = [n \in 0 .. N |-> TryBody(w, id, g, n)]
<1> DEFINE Body(g, n) == TryBody(w, id, g, n)
           Fun(k, g) == g = [n \in 0 .. k |-> Body(g, n)]
           T == {k \in Nat : ~\E g : Fun(k, g)}
<1>1. SUFFICES ASSUME T # {} PROVE FALSE
  OBVIOUS
<1>2. PICK k \in T : \A y \in T : k <= y
  BY <1>1, LeastNatural
<1>3. CASE k = 0
  <2> DEFINE h == [n \in 0 .. 0 |-> w]
  <2>1. h = [n \in 0 .. 0 |-> Body(h, n)]
    BY DEF TryBody
  <2>2. QED  BY <1>3, <2>1
<1>4. CASE k # 0
  <2>1. k - 1 \in Nat /\ k - 1 \notin T
    BY <1>2, <1>4
  <2>2. PICK g : Fun(k - 1, g)
    BY <2>1
  <2> DEFINE h == [n \in 0 .. k |-> IF n = k THEN Body(g, k) ELSE g[n]]
  <2>3. ASSUME NEW n \in 0 .. k  PROVE h[n] = Body(h, n)
    <3>1. CASE n = k
      <4>1. h[k - 1] = g[k - 1] /\ h[k] = Body(g, k)
        BY <2>1
      <4> HIDE DEF h
      <4>2. QED  BY <3>1, <4>1, <2>1 DEF TryBody
    <3>2. CASE n # k
      <4>1. n \in 0 .. k - 1 /\ h[n] = g[n]
        BY <3>2, <2>1
      <4>2. g[n] = Body(g, n)
        BY <2>2, <4>1
      <4>3. n # 0 => h[n - 1] = g[n - 1]
        BY <4>1, <2>1
      <4> HIDE DEF h
      <4>4. QED  BY <4>1, <4>2, <4>3 DEF TryBody
    <3>3. QED  BY <3>1, <3>2
  <2>4. h = [n \in 0 .. k |-> Body(h, n)]
    <3>1. h = [n \in 0 .. k |-> h[n]]
      OBVIOUS
    <3> HIDE DEF h, Body
    <3>2. QED  BY <3>1, <2>3
  <2> HIDE DEF h
  <2>5. QED  BY <1>2, <2>4
<1>5. QED  BY <1>3, <1>4

LEMMA ClearExists ==
    ASSUME NEW f, NEW N \in Nat
    PROVE  \E g : g = [n \in 0 .. N |-> ClearBody(f, g, n)]
<1> DEFINE Body(g, n) == ClearBody(f, g, n)
           Fun(k, g) == g = [n \in 0 .. k |-> Body(g, n)]
           T == {k \in Nat : ~\E g : Fun(k, g)}
<1>1. SUFFICES ASSUME T # {} PROVE FALSE
  OBVIOUS
<1>2. PICK k \in T : \A y \in T : k <= y
  BY <1>1, LeastNatural
<1>3. CASE k = 0
  <2> DEFINE h == [n \in 0 .. 0 |-> f]
  <2>1. h = [n \in 0 .. 0 |-> Body(h, n)]
    BY DEF ClearBody
  <2>2. QED  BY <1>3, <2>1
<1>4. CASE k # 0
  <2>1. k - 1 \in Nat /\ k - 1 \notin T
    BY <1>2, <1>4
  <2>2. PICK g : Fun(k - 1, g)
    BY <2>1
  <2> DEFINE h == [n \in 0 .. k |-> IF n = k THEN Body(g, k) ELSE g[n]]
  <2>3. ASSUME NEW n \in 0 .. k  PROVE h[n] = Body(h, n)
    <3>1. CASE n = k
      <4>1. h[k - 1] = g[k - 1] /\ h[k] = Body(g, k)
        BY <2>1
      <4> HIDE DEF h
      <4>2. QED  BY <3>1, <4>1, <2>1 DEF ClearBody
    <3>2. CASE n # k
      <4>1. n \in 0 .. k - 1 /\ h[n] = g[n]
        BY <3>2, <2>1
      <4>2. g[n] = Body(g, n)
        BY <2>2, <4>1
      <4>3. n # 0 => h[n - 1] = g[n - 1]
        BY <4>1, <2>1
      <4> HIDE DEF h
      <4>4. QED  BY <4>1, <4>2, <4>3 DEF ClearBody
    <3>3. QED  BY <3>1, <3>2
  <2>4. h = [n \in 0 .. k |-> Body(h, n)]
    <3>1. h = [n \in 0 .. k |-> h[n]]
      OBVIOUS
    <3> HIDE DEF h, Body
    <3>2. QED  BY <3>1, <2>3
  <2> HIDE DEF h
  <2>5. QED  BY <1>2, <2>4
<1>5. QED  BY <1>3, <1>4

LEMMA WeightDef ==
    \A k \in 0 .. SnBits : Weight[k] = WeightBody(Weight, k)
<1>1. \E g : g = [k \in 0 .. SnBits |-> WeightBody(g, k)]
  BY WeightExists, Fec2Assumption
<1>2. Weight = [k \in 0 .. SnBits |-> WeightBody(Weight, k)]
  BY <1>1 DEF Weight, WeightBody
<1> QED  BY <1>2

LEMMA BelowDef ==
    ASSUME NEW bytes
    PROVE  \A k \in 0 .. SnBits : XorBelow(bytes)[k] = BelowBody(bytes, XorBelow(bytes), k)
<1>1. \E g : g = [k \in 0 .. SnBits |-> BelowBody(bytes, g, k)]
  BY BelowExists, Fec2Assumption
<1>2. XorBelow(bytes) = [k \in 0 .. SnBits |-> BelowBody(bytes, XorBelow(bytes), k)]
  BY <1>1 DEF XorBelow, BelowBody
<1> QED  BY <1>2

LEMMA TryDef ==
    ASSUME NEW w, NEW id, NEW most \in Nat
    PROVE  \A n \in 0 .. most : Trying(w, id, most)[n] = TryBody(w, id, Trying(w, id, most), n)
<1>1. \E g : g = [n \in 0 .. most |-> TryBody(w, id, g, n)]
  BY TryExists
<1>2. Trying(w, id, most) = [n \in 0 .. most |-> TryBody(w, id, Trying(w, id, most), n)]
  BY <1>1 DEF Trying, TryBody, TryMore
<1> QED  BY <1>2

LEMMA ClearDef ==
    ASSUME NEW f
    PROVE  \A n \in 0 .. Cap \div 2 : Clearing(f)[n] = ClearBody(f, Clearing(f), n)
<1>1. \E g : g = [n \in 0 .. Cap \div 2 |-> ClearBody(f, g, n)]
  <2>1. Cap \div 2 \in Nat
    BY Fec2Assumption
  <2> QED  BY <2>1, ClearExists
<1>2. Clearing(f) = [n \in 0 .. Cap \div 2 |-> ClearBody(f, Clearing(f), n)]
  BY <1>1 DEF Clearing, ClearBody, ClearMore
<1> QED  BY <1>2

-----------------------------------------------------------------------------
(* Numbers. *)

LEMMA WeightFacts ==
    /\ \A k \in 0 .. SnBits : Weight[k] \in Nat /\ Weight[k] >= 1
    /\ \A k \in 1 .. SnBits : Weight[k] = 2 * Weight[k - 1]
    /\ Weight[0] = 1
<1> DEFINE S == {k \in 0 .. SnBits : ~(Weight[k] \in Nat /\ Weight[k] >= 1)}
<1>1. SnBits \in Nat
  BY Fec2Assumption
<1>2. Weight[0] = 1
  BY <1>1, WeightDef DEF WeightBody
<1>3. \A k \in 1 .. SnBits : k \in 0 .. SnBits /\ k - 1 \in 0 .. SnBits
  BY <1>1
<1>4. \A k \in 1 .. SnBits : Weight[k] = 2 * Weight[k - 1]
  BY <1>1, <1>3, WeightDef DEF WeightBody
<1>5. 0 \notin S /\ \A k \in 1 .. SnBits : k \in S => k - 1 \in S
  BY <1>2, <1>3, <1>4
<1>6. S = {}
  BY <1>1, <1>5, NoLeast
<1> QED  BY <1>2, <1>4, <1>6

LEMMA SnModFacts ==
    /\ SnBits \in Nat /\ SnMod \in Nat /\ SnMod >= 1 /\ Cap \in Nat /\ Cap >= 1
    /\ SnMod % Cap = 0 /\ 2 * Cap <= SnMod
BY WeightFacts, Fec2Assumption DEF SnMod

\* Bit and rest of a number.
LEMMA HighBit ==
    ASSUME NEW x \in Nat, NEW v \in Nat, v >= 1
    PROVE  x % (2 * v) = (x % v) + v * ((x \div v) % 2)
<1> DEFINE q == x \div v
           r == x % v
           c == q \div 2
           b == q % 2
<1>1. q \in Nat /\ r \in 0 .. v - 1 /\ x = v * q + r
  OBVIOUS
<1>2. c \in Nat /\ b \in 0 .. 1 /\ q = 2 * c + b
  BY <1>1
<1> HIDE DEF q, r, c, b
<1>3. x = (2 * v) * c + (v * b + r)
  BY <1>1, <1>2
<1>4. v * b \in 0 .. v
  BY <1>2
<1> DEFINE m == v * b + r
           u == 2 * v
<1>5. m \in 0 .. u - 1 /\ u \in Nat /\ u >= 1 /\ x = u * c + m
  BY <1>1, <1>3, <1>4, <1>2
<1> HIDE DEF m, u
<1>6. x % u = m
  BY <1>2, <1>5
<1> QED  BY <1>6 DEF m, u, q, r, b

LEMMA BitOfOne ==
    ASSUME NEW x \in Nat, NEW k \in 0 .. SnBits
    PROVE  XorBit({x}, k) = (x \div Weight[k]) % 2
<1>1. Weight[k] \in Nat /\ Weight[k] >= 1
  BY WeightFacts
<1> DEFINE b == (x \div Weight[k]) % 2
           S == {y \in {x} : (y \div Weight[k]) % 2 = 1}
<1>2. b \in 0 .. 1
  BY <1>1
<1>3. XorBit({x}, k) = Cardinality(S) % 2
  BY DEF XorBit
<1>4. ASSUME b = 1  PROVE Cardinality(S) % 2 = b
  <2>1. S = {x}
    BY <1>4
  <2>2. Cardinality(S) = 1
    BY <2>1, FS_Singleton
  <2> HIDE DEF S, b
  <2> QED  BY <1>4, <2>2
<1>5. ASSUME b = 0  PROVE Cardinality(S) % 2 = b
  <2>1. S = {}
    BY <1>5
  <2>2. Cardinality(S) = 0
    BY <2>1, FS_EmptySet
  <2> HIDE DEF S, b
  <2> QED  BY <1>5, <2>2
<1>6. Cardinality(S) % 2 = b
  <2> HIDE DEF S, b
  <2> QED  BY <1>2, <1>4, <1>5
<1> QED  BY <1>3, <1>6

\* The number in the field pack_sn_ of a packet.
LEMMA PackSnOfOne ==
    ASSUME NEW x \in SN
    PROVE  PackSn({x}) = x
<1> DEFINE S == {k \in 0 .. SnBits : XorBelow({x})[k] # x % Weight[k]}
           B == XorBelow({x})
<1>1. SnBits \in Nat /\ x \in Nat /\ x < SnMod /\ SnMod \in Nat
  BY SnModFacts DEF SN
<1>2. 0 \notin S
  <2>1. B[0] = 0
    BY <1>1, BelowDef DEF BelowBody
  <2> QED  BY <1>1, <2>1, WeightFacts
<1>3. ASSUME NEW k \in 1 .. SnBits, k - 1 \notin S  PROVE k \notin S
  <2>1. k \in 0 .. SnBits /\ k - 1 \in 0 .. SnBits /\ k # 0
    BY <1>1
  <2> DEFINE v == Weight[k - 1]
  <2>2. v \in Nat /\ v >= 1 /\ Weight[k] = 2 * v
    BY <2>1, WeightFacts
  <2>3. B[k] = B[k - 1] + v * XorBit({x}, k - 1)
    BY <2>1, BelowDef DEF BelowBody
  <2>4. B[k - 1] = x % v
    BY <1>3, <2>1
  <2>5. XorBit({x}, k - 1) = (x \div v) % 2
    BY <1>1, <2>1, BitOfOne
  <2> HIDE DEF v, B
  <2>6. x % (2 * v) = (x % v) + v * ((x \div v) % 2)
    BY <1>1, <2>2, HighBit
  <2>7. B[k] = x % Weight[k]
    BY <2>2, <2>3, <2>4, <2>5, <2>6
  <2> QED  BY <2>7 DEF B
<1>4. S = {}
  <2> HIDE DEF S
  <2>1. S \in SUBSET (0 .. SnBits)
    BY DEF S
  <2> QED  BY <1>1, <1>2, <1>3, <2>1, NoLeast
<1>5. SnBits \in 0 .. SnBits
  BY <1>1
<1>6. XorBelow({x})[SnBits] = x % SnMod
  BY <1>4, <1>5 DEF SnMod
<1> QED  BY <1>1, <1>6 DEF PackSn

-----------------------------------------------------------------------------
(* Books, blocks and positions. *)

Blocks == {2, 4, 16}

LEMMA ModMod ==
    ASSUME NEW d \in Blocks, NEW C \in Nat, C >= 1, C % d = 0, NEW x \in Nat
    PROVE  (x % C) % d = x % d
<1> DEFINE q == x \div C
           r == x % C
           c == C \div d
<1>1. q \in Nat /\ r \in Nat /\ x = C * q + r
  OBVIOUS
<1>2. c \in Nat /\ C = d * c
  BY DEF Blocks
<1> DEFINE t == c * q
<1> HIDE DEF q, r, c
<1>3. t \in Nat
  BY <1>1, <1>2
<1>4. C * q = d * t
  BY <1>1, <1>2 DEF Blocks
<1> HIDE DEF t
<1>5. x = d * t + r
  BY <1>1, <1>4
<1>6. x % d = r % d
  BY <1>1, <1>3, <1>5 DEF Blocks
<1> QED  BY <1>6 DEF r

\* Within a block the numbers run on, in the ring as well.
LEMMA ModPlus ==
    ASSUME NEW d \in Blocks, NEW C \in Nat, C >= 1, C % d = 0,
           NEW s \in Nat, s % d = 0, NEW q \in 0 .. d - 1
    PROVE  (s + q) % C = (s % C) + q
<1> DEFINE u == s \div C
           r == s % C
           c == C \div d
           m == r \div d
<1>1. u \in Nat /\ r \in 0 .. C - 1 /\ s = C * u + r
  OBVIOUS
<1>2. r % d = 0
  BY ModMod
<1>3. c \in Nat /\ C = d * c
  BY DEF Blocks
<1> HIDE DEF u, r, c
<1>4. m \in Nat /\ r = d * m
  BY <1>1, <1>2 DEF Blocks
<1> HIDE DEF m
<1>5. m < c
  BY <1>1, <1>3, <1>4 DEF Blocks
<1>6. r + q \in 0 .. C - 1
  BY <1>3, <1>4, <1>5 DEF Blocks
<1>7. q \in Nat
  BY DEF Blocks
<1>8. s + q = C * u + (r + q)
  BY <1>1, <1>7
<1> DEFINE z == r + q
<1>9. z \in 0 .. C - 1 /\ s + q = C * u + z
  BY <1>6, <1>8
<1> HIDE DEF z
<1>10. (s + q) % C = z
  BY <1>1, <1>9
<1> QED  BY <1>10 DEF z, r

LEMMA BookIs ==
    /\ Book(0) = [h |-> 4, v |-> 4, dirs |-> {"H", "V", "U", "D"}, block |-> 16]
    /\ Book(1) = [h |-> 4, v |-> 4, dirs |-> {"H", "V"}, block |-> 16]
    /\ Book(2) = [h |-> 4, v |-> 0, dirs |-> {"H"}, block |-> 4]
    /\ Book(3) = [h |-> 2, v |-> 2, dirs |-> {"H", "V", "U", "D"}, block |-> 4]
    /\ Book(4) = [h |-> 2, v |-> 2, dirs |-> {"H", "V"}, block |-> 4]
    /\ Book(5) = [h |-> 2, v |-> 0, dirs |-> {"H"}, block |-> 2]
BY DEF Book, CodeBook

AllDirs == {"H", "V", "U", "D"}

LEMMA BookFacts ==
    ASSUME NEW b \in Books
    PROVE  /\ b \in 0 .. 5 /\ Book(b).h \in {2, 4} /\ Book(b).block \in Blocks
           /\ Book(b).dirs \subseteq AllDirs /\ Cap % Book(b).block = 0
           /\ SnMod % Book(b).block = 0 /\ Book(b).block <= Cap
<1>1. b \in 0 .. 5 /\ Cap % Book(b).block = 0
  BY Fec2Assumption
<1>2. Book(b).h \in {2, 4} /\ Book(b).block \in Blocks /\ Book(b).dirs \subseteq AllDirs
  <2>1. b = 0 \/ b = 1 \/ b = 2 \/ b = 3 \/ b = 4 \/ b = 5
    BY <1>1
  <2> QED  BY <2>1, BookIs DEF Blocks, AllDirs
<1>3. SnMod % Book(b).block = 0
  <2>1. (SnMod % Cap) % Book(b).block = SnMod % Book(b).block
    BY <1>1, <1>2, ModMod, SnModFacts
  <2>2. 0 % Book(b).block = 0
    BY <1>2 DEF Blocks
  <2> QED  BY <2>1, <2>2, SnModFacts
<1>4. Book(b).block <= Cap
  BY <1>1, <1>2, SnModFacts DEF Blocks
<1> QED  BY <1>1, <1>2, <1>3, <1>4

Aligned(s, b) == s \in SN /\ s % Book(b).block = 0

LEMMA AlignedFacts ==
    ASSUME NEW b \in Books, NEW s, Aligned(s, b), NEW q \in 0 .. Book(b).block - 1
    PROVE  /\ q \in Nat /\ s \in Nat /\ s + q \in SN /\ (s + q) % SnMod = s + q
           /\ CachePos(s + q) = CachePos(s) + q /\ CachePos(s) \in Nat
           /\ InMatrix(s + q, b) = q
<1> DEFINE d == Book(b).block
<1>1. d \in Blocks /\ Cap % d = 0 /\ SnMod % d = 0 /\ s \in Nat /\ s < SnMod /\ s % d = 0
  BY BookFacts, SnModFacts DEF Aligned, SN
<1>2. q \in Nat /\ q \in 0 .. d - 1
  BY <1>1 DEF Blocks
<1> HIDE DEF d
<1>3. (s + q) % SnMod = (s % SnMod) + q /\ (s + q) % Cap = (s % Cap) + q
  BY <1>1, <1>2, ModPlus, SnModFacts
<1>4. s % SnMod = s
  BY <1>1, SnModFacts
<1>5. (s + q) % SnMod = s + q
  BY <1>3, <1>4
<1>6. (s + q) % SnMod \in 0 .. SnMod - 1
  BY <1>1, <1>2, SnModFacts
<1>7. s + q \in SN
  BY <1>5, <1>6 DEF SN
<1>8. s % Cap \in Nat
  BY <1>1, SnModFacts
<1>9. InMatrix(s + q, b) = q
  <2>1. ((s + q) % Cap) % d = (s + q) % d
    BY <1>1, <1>2, ModMod, SnModFacts
  <2>2. (s + q) % d = (s % d) + q
    <3>1. d \in Nat /\ d >= 1 /\ d % d = 0
      BY <1>1 DEF Blocks
    <3> QED  BY <1>1, <1>2, <3>1, ModPlus
  <2>3. 0 + q = q
    BY <1>2
  <2> QED  BY <1>1, <2>1, <2>2, <2>3 DEF InMatrix, CachePos, d
<1> QED  BY <1>1, <1>2, <1>3, <1>5, <1>7, <1>8, <1>9 DEF CachePos

\* A number stands in the block it is said to start.
LEMMA StartFacts ==
    ASSUME NEW b \in Books, NEW x \in SN
    PROVE  /\ Aligned(StartSn(x, b), b) /\ InMatrix(x, b) \in 0 .. Book(b).block - 1
           /\ x = StartSn(x, b) + InMatrix(x, b)
<1> DEFINE d == Book(b).block
<1>1. d \in Blocks /\ Cap % d = 0 /\ x \in Nat /\ x < SnMod
  BY BookFacts, SnModFacts DEF SN
<1>2. InMatrix(x, b) = x % d
  BY <1>1, ModMod, SnModFacts DEF InMatrix, CachePos
<1>3. x % d \in 0 .. d - 1 /\ x - (x % d) \in Nat /\ (x - (x % d)) % d = 0
  BY <1>1 DEF Blocks
<1>4. x - (x % d) \in SN
  BY <1>1, <1>3, SnModFacts DEF SN, Blocks
<1> HIDE DEF d
<1>5. x = (x - (x % d)) + (x % d)
  BY <1>1 DEF Blocks
<1> QED  BY <1>2, <1>3, <1>4, <1>5 DEF StartSn, Aligned, d

-----------------------------------------------------------------------------
(* Lines and the packets of parity. *)

Lines == AllDirs \X (0 .. 6)

LEMMA RowCol ==
    ASSUME NEW b \in Books, NEW p \in 0 .. Book(b).block - 1
    PROVE  /\ Row(p, b) \in 0 .. 3 /\ Col(p, b) \in 0 .. Book(b).h - 1
           /\ p = Book(b).h * Row(p, b) + Col(p, b) /\ p \in Nat
<1>1. b = 0 \/ b = 1 \/ b = 2 \/ b = 3 \/ b = 4 \/ b = 5
  BY BookFacts
<1>2. /\ b \in {0, 1} => Book(b).h = 4 /\ Book(b).block = 16
      /\ b = 2 => Book(b).h = 4 /\ Book(b).block = 4
      /\ b \in {3, 4} => Book(b).h = 2 /\ Book(b).block = 4
      /\ b = 5 => Book(b).h = 2 /\ Book(b).block = 2
  BY BookIs
<1> QED  BY <1>1, <1>2 DEF Row, Col

LEMMA LineFacts ==
    ASSUME NEW b \in Books, NEW p \in 0 .. Book(b).block - 1, NEW d \in AllDirs, HasLine(p, b, d)
    PROVE  /\ Line(p, b, d) \in Lines /\ Line(p, b, d)[1] = d /\ d \in Book(b).dirs
           /\ p \in Members(Line(p, b, d), b)
<1> DEFINE y == Row(p, b)
           x == Col(p, b)
           h == Book(b).h
           k == CASE d = "H" -> y [] d = "V" -> x [] d = "U" -> y + x - 1 [] d = "D" -> y - x + h - 2
<1>1. y \in 0 .. 3 /\ x \in 0 .. h - 1 /\ h \in {2, 4}
  BY RowCol, BookFacts
<1>2. /\ d \in Book(b).dirs /\ (d = "U" => y + x \in 1 .. 2 * h - 3)
      /\ (d = "D" => y - x \in 2 - h .. h - 2)
  BY DEF HasLine
<1>3. Line(p, b, d) = <<d, k>>
  BY DEF Line
<1>4. k \in 0 .. 6
  <2> HIDE DEF y, x, h
  <2>1. CASE d = "H"
    BY <1>1, <2>1
  <2>2. CASE d = "V"
    BY <1>1, <2>2
  <2>3. CASE d = "U"
    BY <1>1, <1>2, <2>3
  <2>4. CASE d = "D"
    BY <1>1, <1>2, <2>4
  <2> QED  BY <2>1, <2>2, <2>3, <2>4 DEF AllDirs
<1> HIDE DEF k
<1>5. Line(p, b, d)[1] = d
  BY <1>3
<1> QED  BY <1>2, <1>3, <1>4, <1>5 DEF Lines, Members

\* The bitmap of a line tells its members apart.
LEMMA BitInjective ==
    ASSUME NEW b \in Books, NEW line, NEW p \in Members(line, b), NEW q \in Members(line, b),
           Bit(p, b, line[1]) = Bit(q, b, line[1])
    PROVE  p = q
<1> DEFINE d == line[1]
           y == Row(p, b)
           x == Col(p, b)
           v == Row(q, b)
           u == Col(q, b)
           h == Book(b).h
<1>1. /\ p \in 0 .. Book(b).block - 1 /\ q \in 0 .. Book(b).block - 1
      /\ Line(p, b, d) = Line(q, b, d) /\ d \in AllDirs
  BY BookFacts DEF Members, HasLine
<1>2. /\ y \in Nat /\ x \in Nat /\ v \in Nat /\ u \in Nat /\ h \in {2, 4}
      /\ p = h * y + x /\ q = h * v + u
  BY <1>1, RowCol, BookFacts
<1>3. /\ d = "H" => x = u
      /\ d # "H" => y = v
  BY DEF Bit
<1>4. /\ d = "H" => y = v
      /\ d = "V" => x = u
      /\ d = "U" => y + x - 1 = v + u - 1
      /\ d = "D" => y - x + h - 2 = v - u + h - 2
  BY <1>1 DEF Line
<1> HIDE DEF d, y, x, v, u, h
<1> QED  BY <1>1, <1>2, <1>3, <1>4 DEF AllDirs

LEMMA BitIsNat ==
    ASSUME NEW b \in Books, NEW q \in 0 .. Book(b).block - 1, NEW d
    PROVE  Bit(q, b, d) \in 0 .. 3
<1>1. Row(q, b) \in 0 .. 3 /\ Col(q, b) \in 0 .. Book(b).h - 1 /\ Book(b).h \in {2, 4}
  BY RowCol, BookFacts
<1>2. Col(q, b) \in 0 .. 3
  BY <1>1
<1> QED  BY <1>1, <1>2 DEF Bit

\* The positions a bitmap names, and the XOR of the packets there.
Named(line, b, bits) == {q \in Members(line, b) : Bit(q, b, line[1]) \in bits}
At(s, S) == {(s + q) % SnMod : q \in S}

Packs ==
    {k \in [book : Books, start : SN, line : Lines, bits : SUBSET (0 .. 3), bytes : SUBSET SN] :
        /\ Aligned(k.start, k.book) /\ k.line[1] \in Book(k.book).dirs
        /\ k.bits \subseteq {Bit(q, k.book, k.line[1]) : q \in Members(k.line, k.book)}
        /\ k.bytes = At(k.start, Named(k.line, k.book, k.bits))}

LEMMA PackIsHonest ==
    ASSUME NEW k \in Packs
    PROVE  /\ ~IsData(k)
           /\ k.bytes = {(k.start + q) % SnMod : q \in
                {q \in Members(k.line, k.book) : Bit(q, k.book, k.line[1]) \in k.bits}}
BY DEF Packs, IsData, At, Named

LEMMA NamedOne ==
    ASSUME NEW b \in Books, NEW line, NEW p \in Members(line, b)
    PROVE  Named(line, b, {Bit(p, b, line[1])}) = {p}
BY BitInjective DEF Named

LEMMA NamedMore ==
    ASSUME NEW b \in Books, NEW line, NEW p \in Members(line, b), NEW bits
    PROVE  Named(line, b, bits \cup {Bit(p, b, line[1])}) = Named(line, b, bits) \cup {p}
BY BitInjective DEF Named

LEMMA MembersIn ==
    ASSUME NEW b, NEW line, NEW p \in Members(line, b)
    PROVE  p \in 0 .. Book(b).block - 1 /\ line[1] \in Book(b).dirs
BY DEF Members, HasLine

\* A line that starts with the packet at position p.
LEMMA FirstPack ==
    ASSUME NEW b \in Books, NEW s, Aligned(s, b), NEW line \in Lines, NEW p \in Members(line, b)
    PROVE  [book |-> b, start |-> s, line |-> line, bits |-> {Bit(p, b, line[1])},
            bytes |-> {s + p}] \in Packs
<1> DEFINE k == [book |-> b, start |-> s, line |-> line, bits |-> {Bit(p, b, line[1])},
                 bytes |-> {s + p}]
<1>1. p \in 0 .. Book(b).block - 1 /\ s \in SN
  BY MembersIn DEF Aligned
<1>2. s + p \in SN /\ (s + p) % SnMod = s + p
  BY <1>1, AlignedFacts
<1>3. At(s, Named(line, b, {Bit(p, b, line[1])})) = {s + p}
  BY <1>2, NamedOne DEF At
<1>4. Bit(p, b, line[1]) \in 0 .. 3
  BY <1>1, BitIsNat
<1>5. k \in [book : Books, start : SN, line : Lines, bits : SUBSET (0 .. 3), bytes : SUBSET SN]
  BY <1>1, <1>2, <1>4
<1>6. /\ k.book = b /\ k.start = s /\ k.line = line /\ k.bits = {Bit(p, b, line[1])}
      /\ k.bytes = {s + p}
  OBVIOUS
<1> HIDE DEF k
<1>7. k \in Packs
  BY <1>3, <1>5, <1>6, MembersIn DEF Packs
<1> QED  BY <1>7 DEF k

\* A packet whose members so far lie before position p, and one more.
LEMMA NextPack ==
    ASSUME NEW k \in Packs, NEW p \in Members(k.line, k.book),
           \A i \in k.bits : \E q \in Members(k.line, k.book) : q < p /\ i = Bit(q, k.book, k.line[1]),
           NEW m, m = [k EXCEPT !.bits = k.bits \cup {Bit(p, k.book, k.line[1])},
                                !.bytes = SymDiff(k.bytes, {k.start + p})]
    PROVE  /\ m \in Packs
           /\ \A j \in {Bit(p, k.book, k.line[1])} \cup k.bits :
                \E q \in Members(k.line, k.book) : q <= p /\ j = Bit(q, k.book, k.line[1])
<1> DEFINE b == k.book
           s == k.start
           l == k.line
           i == Bit(p, b, l[1])
           B == k.bits \cup {i}
           X == SymDiff(k.bytes, {s + p})
           n == [k EXCEPT !.bits = B, !.bytes = X]
           N == Named(l, b, k.bits)
<1>1. /\ b \in Books /\ s \in SN /\ l \in Lines /\ k.bits \in SUBSET (0 .. 3)
      /\ k.bytes \in SUBSET SN /\ Aligned(s, b) /\ k.bytes = At(s, N) /\ l[1] \in Book(b).dirs
      /\ k.bits \subseteq {Bit(q, b, l[1]) : q \in Members(l, b)}
      /\ k \in [book : Books, start : SN, line : Lines, bits : SUBSET (0 .. 3), bytes : SUBSET SN]
  BY DEF Packs
<1>2. p \in 0 .. Book(b).block - 1
  BY MembersIn
<1>3. s + p \in SN /\ (s + p) % SnMod = s + p /\ p \in Nat /\ s \in Nat
  BY <1>1, <1>2, AlignedFacts
<1>4. ASSUME NEW q \in N  PROVE q < p /\ q \in Nat /\ (s + q) % SnMod = s + q
  <2>1. q \in Members(l, b) /\ Bit(q, b, l[1]) \in k.bits
    BY DEF Named
  <2>2. PICK r \in Members(l, b) : r < p /\ Bit(q, b, l[1]) = Bit(r, b, l[1])
    BY <2>1
  <2>3. q = r
    BY <1>1, <2>1, <2>2, BitInjective
  <2>4. q \in 0 .. Book(b).block - 1
    BY <2>1, MembersIn
  <2> QED  BY <1>1, <2>2, <2>3, <2>4, AlignedFacts
<1>5. s + p \notin k.bytes
  BY <1>1, <1>3, <1>4 DEF At
<1>6. X = k.bytes \cup {s + p}
  BY <1>5 DEF SymDiff
<1>7. Named(l, b, B) = N \cup {p}
  BY <1>1, NamedMore
<1>8. At(s, N \cup {p}) = At(s, N) \cup {s + p}
  BY <1>3 DEF At
<1>9. i \in 0 .. 3
  BY <1>1, <1>2, BitIsNat
<1>10. B \in SUBSET (0 .. 3) /\ X \in SUBSET SN
  BY <1>1, <1>3, <1>6, <1>9
<1>11. B \subseteq {Bit(q, b, l[1]) : q \in Members(l, b)}
  BY <1>1
<1>12. X = At(s, Named(l, b, B))
  BY <1>1, <1>6, <1>7, <1>8
<1>13. n \in [book : Books, start : SN, line : Lines, bits : SUBSET (0 .. 3), bytes : SUBSET SN]
       /\ n.book = b /\ n.start = s /\ n.line = l /\ n.bits = B /\ n.bytes = X
  <2> HIDE DEF B, X, i, N
  <2> QED  BY <1>1, <1>10
<1>14. n \in Packs
  <2> HIDE DEF n, B, X
  <2> QED  BY <1>1, <1>11, <1>12, <1>13 DEF Packs
<1>15. \A j \in k.bits \cup {i} : \E q \in Members(l, b) : q <= p /\ j = Bit(q, b, l[1])
  <2>1. p <= p
    BY <1>3
  <2>2. \A q \in Members(l, b) : q < p => q <= p
    BY <1>3, MembersIn
  <2> QED  BY <2>1, <2>2
<1>16. m = n
  OBVIOUS
<1> HIDE DEF n
<1>17. m \in Packs
  BY <1>14, <1>16
<1> QED  BY <1>15, <1>17, Zenon

-----------------------------------------------------------------------------
(* The encoder.  While the packet x at position n of its block is encoded, *)
(* the lines in the directions D have it already.                          *)

EncRec(e) ==
    e = [using |-> e.using, book |-> e.book, start |-> e.start, par |-> e.par,
         want |-> e.want, next |-> e.next]

LEMMA SetUsing ==
    ASSUME NEW e, EncRec(e), NEW v
    PROVE  LET q == [e EXCEPT !.using = v] IN
           /\ EncRec(q) /\ q.using = v /\ q.book = e.book /\ q.start = e.start
           /\ q.par = e.par /\ q.want = e.want /\ q.next = e.next
BY DEF EncRec

LEMMA SetBook ==
    ASSUME NEW e, EncRec(e), NEW v
    PROVE  LET q == [e EXCEPT !.book = v] IN
           /\ EncRec(q) /\ q.using = e.using /\ q.book = v /\ q.start = e.start
           /\ q.par = e.par /\ q.want = e.want /\ q.next = e.next
BY DEF EncRec

LEMMA SetStart ==
    ASSUME NEW e, EncRec(e), NEW v
    PROVE  LET q == [e EXCEPT !.start = v] IN
           /\ EncRec(q) /\ q.using = e.using /\ q.book = e.book /\ q.start = v
           /\ q.par = e.par /\ q.want = e.want /\ q.next = e.next
BY DEF EncRec

LEMMA SetPar ==
    ASSUME NEW e, EncRec(e), NEW v
    PROVE  LET q == [e EXCEPT !.par = v] IN
           /\ EncRec(q) /\ q.using = e.using /\ q.book = e.book /\ q.start = e.start
           /\ q.par = v /\ q.want = e.want /\ q.next = e.next
BY DEF EncRec

LEMMA SetNext ==
    ASSUME NEW e, EncRec(e), NEW v
    PROVE  LET q == [e EXCEPT !.next = v] IN
           /\ EncRec(q) /\ q.using = e.using /\ q.book = e.book /\ q.start = e.start
           /\ q.par = e.par /\ q.want = e.want /\ q.next = v
BY DEF EncRec

IsEnc(e) ==
    /\ EncRec(e) /\ e.using \in BOOLEAN /\ e.book \in Books /\ e.want \in Books
    /\ e.start \in SN /\ e.next \in SN

Loose(par, b) ==
    /\ par = [l \in DOMAIN par |-> par[l]] /\ DOMAIN par \subseteq Lines
    /\ \A l \in DOMAIN par : l[1] \in Book(b).dirs /\ par[l] \in Packs

Grown(k, l, b, s, n) ==
    /\ k.line = l /\ k.book = b /\ k.start = s
    /\ \A i \in k.bits : \E q \in Members(l, b) : q < n /\ i = Bit(q, b, l[1])

ParOk(par, b, s, D, n) ==
    /\ Loose(par, b)
    /\ \A l \in DOMAIN par : Grown(par[l], l, b, s, IF l[1] \in D THEN n + 1 ELSE n)

EncOk(e) ==
    /\ IsEnc(e) /\ Loose(e.par, e.book)
    /\ ~e.using => DOMAIN e.par = {}
    /\ e.using =>
        /\ Aligned(e.start, e.book)
        /\ \E n \in 1 .. Book(e.book).block :
              e.next = (e.start + n) % SnMod /\ ParOk(e.par, e.book, e.start, {}, n)

OutOk(out) == out \subseteq Packs /\ IsFiniteSet(out)

Entered(acc, x, D) ==
    /\ acc = [e |-> acc.e, out |-> acc.out] /\ IsEnc(acc.e) /\ OutOk(acc.out)
    /\ acc.e.using /\ acc.e.next = (x + 1) % SnMod
    /\ Aligned(acc.e.start, acc.e.book)
    /\ InMatrix(x, acc.e.book) \in 0 .. Book(acc.e.book).block - 1
    /\ x = acc.e.start + InMatrix(x, acc.e.book)
    /\ ParOk(acc.e.par, acc.e.book, acc.e.start, D, InMatrix(x, acc.e.book))

LEMMA LinesFinite == IsFiniteSet(Lines)
<1>1. IsFiniteSet(0 .. 6)
  BY FS_Interval, 0 \in Int, 6 \in Int
<1>2. IsFiniteSet(AllDirs)
  <2>1. AllDirs = (({"H"} \cup {"V"}) \cup {"U"}) \cup {"D"}
    BY DEF AllDirs
  <2>2. IsFiniteSet({"H"}) /\ IsFiniteSet({"V"}) /\ IsFiniteSet({"U"}) /\ IsFiniteSet({"D"})
    BY FS_Singleton
  <2>3. IsFiniteSet({"H"} \cup {"V"})
    BY <2>2, FS_Union
  <2>4. IsFiniteSet(({"H"} \cup {"V"}) \cup {"U"})
    BY <2>2, <2>3, FS_Union
  <2> QED  BY <2>1, <2>2, <2>4, FS_Union
<1> QED  BY <1>1, <1>2, FS_Product DEF Lines

LEMMA RangeOk ==
    ASSUME NEW par, NEW b, Loose(par, b)
    PROVE  OutOk(Range(par)) /\ IsFiniteSet(DOMAIN par)
<1>1. IsFiniteSet(DOMAIN par)
  BY LinesFinite, FS_Subset DEF Loose
<1>2. Range(par) = {par[l] : l \in DOMAIN par}
  BY DEF Range
<1>3. IsFiniteSet({par[l] : l \in DOMAIN par})
  <2> DEFINE S == DOMAIN par
             g == [l \in S |-> par[l]]
  <2>1. g \in Surjection(S, {par[l] : l \in S})
    BY DEF Surjection
  <2> HIDE DEF g
  <2> QED  BY <1>1, <2>1, FS_Surjection
<1> QED  BY <1>1, <1>2, <1>3 DEF OutOk, Loose

LEMMA OutJoin ==
    ASSUME NEW A, NEW B, OutOk(A), OutOk(B)
    PROVE  OutOk(A \cup B)
BY FS_Union DEF OutOk

\* Clear leaves nothing: only a book with diagonals has any.
LEMMA ClearedNone ==
    ASSUME NEW m, NEW b, m.book = b, Loose(m.par, b)
    PROVE  DOMAIN ClearedPar(m) = {} /\ \A c : Loose(ClearedPar(m), c)
<1>1. {l \in DOMAIN m.par : l[1] \in {"U", "D"} /\ Book(b).dirs \cap {"U", "D"} = {}} = {}
  BY DEF Loose
<1>2. ClearedPar(m) = [l \in {} |-> m.par[l]]
  BY <1>1 DEF ClearedPar, Restrict
<1> QED  BY <1>2 DEF Loose

\* What SetEmptyFecEnCode leaves.
Fresh(acc, want, next) ==
    /\ acc = [e |-> acc.e, out |-> acc.out] /\ IsEnc(acc.e) /\ OutOk(acc.out)
    /\ ~acc.e.using /\ acc.e.book = want /\ acc.e.want = want /\ acc.e.next = next
    /\ DOMAIN acc.e.par = {} /\ \A c : Loose(acc.e.par, c)

LEMMA SetEmptyFacts ==
    ASSUME NEW acc, acc = [e |-> acc.e, out |-> acc.out], IsEnc(acc.e), OutOk(acc.out),
           Loose(acc.e.par, acc.e.book), NEW x, NEW y
    PROVE  Fresh(SetEmptyFecEnCode(acc, x, y), acc.e.want, acc.e.next)
<1> DEFINE e == acc.e
           P == ClearedPar(e)
           n == [e EXCEPT !.using = FALSE, !.book = e.want, !.start = 0, !.par = P]
           o == IF Delta(y, x) <= Cap THEN acc.out \cup Range(e.par) ELSE acc.out
<1>1. SetEmptyFecEnCode(acc, x, y) = [e |-> n, out |-> o]
  BY DEF SetEmptyFecEnCode
<1>2. DOMAIN P = {} /\ \A c : Loose(P, c)
  BY ClearedNone
<1>3. OutOk(o)
  BY RangeOk, OutJoin
<1> HIDE DEF P, o
<1>4. EncRec(e)
  BY DEF IsEnc
<1>5. /\ n.using = FALSE /\ n.book = e.want /\ n.start = 0 /\ n.par = P /\ n.want = e.want
      /\ n.next = e.next /\ EncRec(n)
  <2> DEFINE a == [e EXCEPT !.using = FALSE]
             c == [a EXCEPT !.book = e.want]
             d == [c EXCEPT !.start = 0]
             f == [d EXCEPT !.par = P]
  <2>1. n = f
    OBVIOUS
  <2>2. /\ EncRec(a) /\ a.using = FALSE /\ a.book = e.book /\ a.start = e.start
        /\ a.par = e.par /\ a.want = e.want /\ a.next = e.next
    BY <1>4, SetUsing
  <2> HIDE DEF a
  <2>3. /\ EncRec(c) /\ c.using = a.using /\ c.book = e.want /\ c.start = a.start
        /\ c.par = a.par /\ c.want = a.want /\ c.next = a.next
    BY <2>2, SetBook
  <2> HIDE DEF c
  <2>4. /\ EncRec(d) /\ d.using = c.using /\ d.book = c.book /\ d.start = 0
        /\ d.par = c.par /\ d.want = c.want /\ d.next = c.next
    BY <2>3, SetStart
  <2> HIDE DEF d
  <2>5. /\ EncRec(f) /\ f.using = d.using /\ f.book = d.book /\ f.start = d.start
        /\ f.par = P /\ f.want = d.want /\ f.next = d.next
    BY <2>4, SetPar
  <2> HIDE DEF f, n
  <2> QED  BY <2>1, <2>2, <2>3, <2>4, <2>5
<1> HIDE DEF n
<1>6. 0 \in SN
  BY SnModFacts DEF SN
<1>7. IsEnc(n)
  BY <1>5, <1>6 DEF IsEnc
<1> DEFINE r == [e |-> n, out |-> o]
<1>8. r.e = n /\ r.out = o /\ r = [e |-> r.e, out |-> r.out]
  OBVIOUS
<1> HIDE DEF r
<1>9. Fresh(r, e.want, e.next)
  BY <1>2, <1>3, <1>5, <1>7, <1>8 DEF Fresh
<1> QED  BY <1>1, <1>9 DEF r

LEMMA FreshIsLoose ==
    ASSUME NEW acc, NEW w, NEW n, Fresh(acc, w, n)
    PROVE  Loose(acc.e.par, acc.e.book)
BY DEF Fresh

\* A block is begun with the packet x.
LEMMA StartBlockFacts ==
    ASSUME NEW acc, NEW x \in SN, NEW w, Fresh(acc, w, (x + 1) % SnMod)
    PROVE  Entered(StartBlock(acc, x), x, {})
<1> DEFINE e == acc.e
           b == e.book
           s == StartSn(x, b)
           n == [e EXCEPT !.using = TRUE, !.start = s]
<1>1. StartBlock(acc, x) = [e |-> n, out |-> acc.out]
  BY DEF StartBlock
<1>2. /\ IsEnc(e) /\ OutOk(acc.out) /\ b \in Books /\ Loose(e.par, b) /\ DOMAIN e.par = {}
      /\ e.next = (x + 1) % SnMod
  BY DEF Fresh, IsEnc
<1>3. Aligned(s, b) /\ InMatrix(x, b) \in 0 .. Book(b).block - 1 /\ x = s + InMatrix(x, b)
  BY <1>2, StartFacts
<1>4. s \in SN
  BY <1>3 DEF Aligned
<1> HIDE DEF s
<1>5. EncRec(e)
  BY <1>2 DEF IsEnc
<1>6. /\ n.using = TRUE /\ n.book = b /\ n.start = s /\ n.par = e.par /\ n.want = e.want
      /\ n.next = e.next /\ EncRec(n)
  <2> DEFINE a == [e EXCEPT !.using = TRUE]
             c == [a EXCEPT !.start = s]
  <2>1. n = c
    OBVIOUS
  <2>2. /\ EncRec(a) /\ a.using = TRUE /\ a.book = e.book /\ a.start = e.start
        /\ a.par = e.par /\ a.want = e.want /\ a.next = e.next
    BY <1>5, SetUsing
  <2> HIDE DEF a
  <2>3. /\ EncRec(c) /\ c.using = a.using /\ c.book = a.book /\ c.start = s
        /\ c.par = a.par /\ c.want = a.want /\ c.next = a.next
    BY <2>2, SetStart
  <2> HIDE DEF c, n
  <2> QED  BY <2>1, <2>2, <2>3
<1> HIDE DEF n
<1>7. IsEnc(n)
  BY <1>2, <1>4, <1>6 DEF IsEnc
<1>8. ParOk(e.par, b, s, {}, InMatrix(x, b))
  BY <1>2 DEF ParOk
<1> DEFINE r == [e |-> n, out |-> acc.out]
<1>9. r.e = n /\ r.out = acc.out /\ r = [e |-> r.e, out |-> r.out]
  OBVIOUS
<1> HIDE DEF r
<1>10. Entered(r, x, {})
  BY <1>2, <1>3, <1>6, <1>7, <1>8, <1>9 DEF Entered
<1> QED  BY <1>1, <1>10 DEF r

LEMMA GrownMore ==
    ASSUME NEW k, NEW l, NEW b, NEW s, NEW n \in Nat, Grown(k, l, b, s, n)
    PROVE  Grown(k, l, b, s, n + 1)
<1>1. \A q \in Members(l, b) : q < n => q < n + 1
  BY MembersIn
<1> QED  BY <1>1 DEF Grown

LEMMA ParMore ==
    ASSUME NEW P, NEW b, NEW s, NEW D, NEW d, NEW n \in Nat, ParOk(P, b, s, D, n)
    PROVE  ParOk(P, b, s, D \cup {d}, n)
<1>1. ASSUME NEW l \in DOMAIN P
      PROVE  Grown(P[l], l, b, s, IF l[1] \in D \cup {d} THEN n + 1 ELSE n)
  <2>1. Grown(P[l], l, b, s, IF l[1] \in D THEN n + 1 ELSE n)
    BY DEF ParOk
  <2>2. CASE l[1] \in D
    BY <2>1, <2>2
  <2>3. CASE l[1] \notin D
    BY <2>1, <2>3, GrownMore
  <2> QED  BY <2>2, <2>3
<1> QED  BY <1>1 DEF ParOk

LEMMA ParWith ==
    ASSUME NEW P, NEW b, NEW s, NEW D, NEW n \in Nat, ParOk(P, b, s, D, n),
           NEW l \in Lines, l[1] \in Book(b).dirs, l[1] \in D,
           NEW k \in Packs, Grown(k, l, b, s, n + 1)
    PROVE  ParOk(With(P, l, k), b, s, D, n)
<1> DEFINE W == With(P, l, k)
<1>1. /\ W = [j \in DOMAIN W |-> W[j]] /\ DOMAIN W = DOMAIN P \cup {l} /\ W[l] = k
      /\ \A j \in DOMAIN P : j # l => W[j] = P[j]
  BY DEF With
<1> HIDE DEF W
<1>2. /\ DOMAIN P \subseteq Lines
      /\ \A j \in DOMAIN P : /\ j[1] \in Book(b).dirs /\ P[j] \in Packs
                             /\ Grown(P[j], j, b, s, IF j[1] \in D THEN n + 1 ELSE n)
  BY DEF ParOk, Loose
<1>3. Loose(W, b)
  BY <1>1, <1>2 DEF Loose
<1>4. \A j \in DOMAIN W : Grown(W[j], j, b, s, IF j[1] \in D THEN n + 1 ELSE n)
  BY <1>1, <1>2
<1> QED  BY <1>3, <1>4 DEF ParOk, W

LEMMA ParWithout ==
    ASSUME NEW P, NEW b, NEW s, NEW D, NEW n, ParOk(P, b, s, D, n), NEW l
    PROVE  ParOk(Without(P, l), b, s, D, n)
<1> DEFINE W == Without(P, l)
<1>1. /\ W = [j \in DOMAIN W |-> W[j]] /\ DOMAIN W = DOMAIN P \ {l}
      /\ \A j \in DOMAIN W : W[j] = P[j]
  BY DEF Without, Restrict
<1> HIDE DEF W
<1>2. Loose(W, b)
  BY <1>1 DEF Loose, ParOk
<1>3. \A j \in DOMAIN W : Grown(W[j], j, b, s, IF j[1] \in D THEN n + 1 ELSE n)
  BY <1>1 DEF ParOk
<1> QED  BY <1>2, <1>3 DEF ParOk, W

LEMMA ParReplaced ==
    ASSUME NEW acc, NEW x, NEW D, Entered(acc, x, D), NEW P, NEW out, OutOk(out), NEW F,
           ParOk(P, acc.e.book, acc.e.start, F, InMatrix(x, acc.e.book))
    PROVE  Entered([e |-> [acc.e EXCEPT !.par = P], out |-> out], x, F)
<1> DEFINE e == acc.e
           n == [e EXCEPT !.par = P]
           r == [e |-> n, out |-> out]
<1>1. IsEnc(e) /\ EncRec(e)
  BY DEF Entered, IsEnc
<1>2. /\ EncRec(n) /\ n.using = e.using /\ n.book = e.book /\ n.start = e.start
      /\ n.par = P /\ n.want = e.want /\ n.next = e.next
  BY <1>1, SetPar
<1> HIDE DEF n
<1>3. r.e = n /\ r.out = out /\ r = [e |-> r.e, out |-> r.out]
  OBVIOUS
<1> HIDE DEF r
<1>4. IsEnc(n)
  BY <1>1, <1>2 DEF IsEnc
<1>5. Entered(r, x, F)
  BY <1>2, <1>3, <1>4 DEF Entered
<1> QED  BY <1>5 DEF r, n

LEMMA StoreFacts ==
    ASSUME NEW acc, NEW x, NEW D, Entered(acc, x, D), NEW d \in AllDirs,
           NEW l \in Lines, l[1] = d, d \in Book(acc.e.book).dirs, NEW p,
           NEW k \in Packs, Grown(k, l, acc.e.book, acc.e.start, InMatrix(x, acc.e.book) + 1)
    PROVE  Entered(Store(acc, p, l, k), x, D \cup {d})
<1> DEFINE b == acc.e.book
           n == InMatrix(x, b)
           P == acc.e.par
           E == D \cup {d}
<1>1. n \in Nat /\ ParOk(P, b, acc.e.start, D, n) /\ OutOk(acc.out)
  <2>1. b \in Books /\ n \in 0 .. Book(b).block - 1 /\ ParOk(P, b, acc.e.start, D, n)
        /\ OutOk(acc.out)
    BY DEF Entered, IsEnc
  <2>2. Book(b).block \in Blocks
    BY <2>1, BookFacts
  <2> QED  BY <2>1, <2>2 DEF Blocks
<1>2. ParOk(P, b, acc.e.start, E, n)
  BY <1>1, ParMore
<1>3. ParOk(Without(P, l), b, acc.e.start, E, n) /\ ParOk(With(P, l, k), b, acc.e.start, E, n)
  BY <1>1, <1>2, ParWith, ParWithout
<1>4. OutOk(acc.out \cup {k})
  BY <1>1, OutJoin, FS_Singleton DEF OutOk
<1>5. Entered([e |-> [acc.e EXCEPT !.par = Without(P, l)], out |-> acc.out \cup {k}], x, E)
  BY <1>3, <1>4, ParReplaced
<1>6. Entered([e |-> [acc.e EXCEPT !.par = With(P, l, k)], out |-> acc.out], x, E)
  BY <1>1, <1>3, ParReplaced
<1> QED  BY <1>5, <1>6 DEF Store

LEMMA EncodeLineFacts ==
    ASSUME NEW acc, NEW x, NEW D, Entered(acc, x, D), NEW d \in AllDirs, d \notin D,
           HasLine(InMatrix(x, acc.e.book), acc.e.book, d), NEW fail \in BOOLEAN
    PROVE  LET p == InMatrix(x, acc.e.book) IN
           Entered(EncodeLine(acc, x, p, Line(p, acc.e.book, d), fail), x, D \cup {d})
<1> DEFINE b == acc.e.book
           s == acc.e.start
           p == InMatrix(x, b)
           l == Line(p, b, d)
           P == acc.e.par
           E == D \cup {d}
           R == EncodeLine(acc, x, p, l, fail)
           i == Bit(p, b, l[1])
<1>1. /\ b \in Books /\ p \in 0 .. Book(b).block - 1 /\ ParOk(P, b, s, D, p) /\ OutOk(acc.out)
      /\ Aligned(s, b) /\ x = s + p /\ acc = [e |-> acc.e, out |-> acc.out]
  BY DEF Entered, IsEnc
<1>2. p \in Nat
  BY <1>1, BookFacts DEF Blocks
<1>3. l \in Lines /\ l[1] = d /\ d \in Book(b).dirs /\ p \in Members(l, b)
  BY <1>1, LineFacts
<1>4. ParOk(P, b, s, E, p)
  BY <1>1, <1>2, ParMore
<1>5. p < p + 1
  BY <1>2
<1> HIDE DEF b, s, p, l, P, i
<1>6. CASE l \notin DOMAIN P \/ FirstOfLine(p, b, l)
  <2> DEFINE k == [book |-> b, start |-> s, line |-> l, bits |-> {i}, bytes |-> {x}]
  <2>1. R = IF fail THEN [e |-> [acc.e EXCEPT !.par = Without(P, l)], out |-> acc.out]
            ELSE Store(acc, p, l, k)
    BY <1>6 DEF EncodeLine, b, s, P, i
  <2>2. k \in Packs
    BY <1>1, <1>3, FirstPack DEF i
  <2>3. Grown(k, l, b, s, p + 1)
    <3>1. k.line = l /\ k.book = b /\ k.start = s /\ k.bits = {i}
      OBVIOUS
    <3> HIDE DEF k
    <3> QED  BY <1>3, <1>5, <3>1 DEF Grown, i
  <2> HIDE DEF k
  <2>4. Entered(Store(acc, p, l, k), x, E)
    BY <1>3, <2>2, <2>3, StoreFacts DEF b, s, p
  <2>5. Entered([e |-> [acc.e EXCEPT !.par = Without(P, l)], out |-> acc.out], x, E)
    <3>1. ParOk(Without(P, l), b, s, E, p)
      BY <1>4, ParWithout
    <3> QED  BY <1>1, <3>1, ParReplaced DEF b, s, p
  <2> HIDE DEF R
  <2>6. Entered(R, x, E)
    BY <2>1, <2>4, <2>5
  <2> QED  BY <2>6 DEF R, l, p, b
<1>7. CASE l \in DOMAIN P /\ ~FirstOfLine(p, b, l)
  <2> DEFINE o == P[l]
             k == [o EXCEPT !.bits = o.bits \cup {i}, !.bytes = SymDiff(o.bytes, {x})]
  <2>1. R = IF fail THEN acc ELSE Store(acc, p, l, k)
    BY <1>7 DEF EncodeLine, b, s, P, i
  <2>2. o \in Packs /\ Grown(o, l, b, s, p)
    BY <1>1, <1>3, <1>7 DEF ParOk, Loose
  <2>3. o.line = l /\ o.book = b /\ o.start = s
        /\ \A j \in o.bits : \E q \in Members(l, b) : q < p /\ j = Bit(q, b, l[1])
    BY <2>2 DEF Grown
  <2> HIDE DEF o
  <2>10. k = [o EXCEPT !.bits = o.bits \cup {Bit(p, o.book, o.line[1])},
                       !.bytes = SymDiff(o.bytes, {o.start + p})]
    BY <1>1, <2>3 DEF i
  <2>11. p \in Members(o.line, o.book)
    BY <1>3, <2>3
  <2>4. k \in Packs /\ \A j \in {i} \cup o.bits :
                          \E q \in Members(l, b) : q <= p /\ j = Bit(q, b, l[1])
    <3> HIDE DEF k
    <3>1. \A j \in o.bits : \E q \in Members(o.line, o.book) :
             q < p /\ j = Bit(q, o.book, o.line[1])
      BY <2>3
    <3>2. k \in Packs /\ \A j \in {Bit(p, o.book, o.line[1])} \cup o.bits :
             \E q \in Members(o.line, o.book) : q <= p /\ j = Bit(q, o.book, o.line[1])
      BY <2>2, <2>10, <2>11, <3>1, NextPack, Zenon
    <3> QED  BY <2>3, <3>2 DEF i
  <2>5. k.line = l /\ k.book = b /\ k.start = s /\ k.bits = o.bits \cup {i}
    <3>1. o \in [book : Books, start : SN, line : Lines, bits : SUBSET (0 .. 3), bytes : SUBSET SN]
      BY <2>2 DEF Packs
    <3> QED  BY <2>3, <3>1
  <2> HIDE DEF k
  <2>6. Grown(k, l, b, s, p + 1)
    <3>1. \A q \in Members(l, b) : q <= p => q < p + 1
      BY <1>2, MembersIn
    <3> QED  BY <2>4, <2>5, <3>1 DEF Grown
  <2>7. Entered(Store(acc, p, l, k), x, E)
    BY <1>3, <2>4, <2>6, StoreFacts DEF b, s, p
  <2>8. Entered(acc, x, E)
    BY <1>4 DEF Entered, b, s, p, P
  <2> HIDE DEF R
  <2>9. Entered(R, x, E)
    BY <2>1, <2>7, <2>8
  <2> QED  BY <2>9 DEF R, l, p, b
<1> QED  BY <1>6, <1>7

LEMMA EncodeDirFacts ==
    ASSUME NEW acc, NEW x, NEW D, Entered(acc, x, D), NEW d \in AllDirs, d \notin D,
           NEW fail \in BOOLEAN
    PROVE  Entered(EncodeDir(acc, x, InMatrix(x, acc.e.book), d, fail), x, D \cup {d})
<1> DEFINE b == acc.e.book
           p == InMatrix(x, b)
<1>1. CASE HasLine(p, b, d)
  <2>1. Entered(EncodeLine(acc, x, p, Line(p, b, d), fail), x, D \cup {d})
    BY <1>1, EncodeLineFacts
  <2> QED  BY <1>1, <2>1 DEF EncodeDir
<1>2. CASE ~HasLine(p, b, d)
  <2>1. b \in Books /\ p \in 0 .. Book(b).block - 1
    BY DEF Entered, IsEnc
  <2>2. p \in Nat
    BY <2>1, BookFacts DEF Blocks
  <2>3. ParOk(acc.e.par, b, acc.e.start, D \cup {d}, p)
    BY <2>2, ParMore DEF Entered
  <2>4. Entered(acc, x, D \cup {d})
    BY <2>3 DEF Entered
  <2> QED  BY <1>2, <2>4 DEF EncodeDir
<1> QED  BY <1>1, <1>2

LEMMA AlongOne ==
    ASSUME NEW acc, NEW x, NEW D, Entered(acc, x, D), NEW d \in AllDirs, d \notin D, NEW fails,
           NEW E, E = D \cup {d}
    PROVE  Entered(EncodeDir(acc, x, InMatrix(x, acc.e.book), d, d \in fails), x, E)
<1> DEFINE fail == d \in fails
<1>1. fail \in BOOLEAN
  OBVIOUS
<1> HIDE DEF fail
<1>2. Entered(EncodeDir(acc, x, InMatrix(x, acc.e.book), d, fail), x, D \cup {d})
  BY <1>1, EncodeDirFacts
<1> QED  BY <1>2 DEF fail

\* The four directions in turn.
LEMMA AlongFacts ==
    ASSUME NEW acc, NEW x, Entered(acc, x, {}), NEW fails
    PROVE  LET Along(a, d) == EncodeDir(a, x, InMatrix(x, a.e.book), d, d \in fails)
           IN  Entered(Along(Along(Along(Along(acc, "H"), "V"), "U"), "D"), x, AllDirs)
<1> DEFINE Along(a, d) == EncodeDir(a, x, InMatrix(x, a.e.book), d, d \in fails)
           h == Along(acc, "H")
           v == Along(h, "V")
           u == Along(v, "U")
           z == Along(u, "D")
           E1 == {"H"}
           E2 == {"H", "V"}
           E3 == {"H", "V", "U"}
<1>0. /\ "H" \in AllDirs /\ "V" \in AllDirs /\ "U" \in AllDirs /\ "D" \in AllDirs
      /\ E1 = {} \cup {"H"} /\ E2 = E1 \cup {"V"} /\ E3 = E2 \cup {"U"} /\ AllDirs = E3 \cup {"D"}
      /\ "H" \notin {} /\ "V" \notin E1 /\ "U" \notin E2 /\ "D" \notin E3
  BY DEF AllDirs
<1> HIDE DEF E1, E2, E3
<1>1. Entered(h, x, E1)
  BY <1>0, AlongOne, Zenon
<1> HIDE DEF h
<1>2. Entered(v, x, E2)
  BY <1>0, <1>1, AlongOne, Zenon
<1> HIDE DEF v
<1>3. Entered(u, x, E3)
  BY <1>0, <1>2, AlongOne, Zenon
<1> HIDE DEF u
<1>4. Entered(z, x, AllDirs)
  BY <1>0, <1>3, AlongOne, Zenon
<1> QED  BY <1>4 DEF h, v, u

LEMMA NextSn ==
    ASSUME NEW x \in SN
    PROVE  (x + 1) % SnMod \in SN
BY SnModFacts DEF SN

\* EnterBlock: a new block, or the next position of the one begun.
LEMMA EnterFacts ==
    ASSUME NEW acc, NEW x \in SN, acc = [e |-> acc.e, out |-> acc.out], IsEnc(acc.e),
           OutOk(acc.out), Loose(acc.e.par, acc.e.book), acc.e.next = (x + 1) % SnMod,
           acc.e.using =>
             /\ Aligned(acc.e.start, acc.e.book)
             /\ \E n \in 1 .. Book(acc.e.book).block :
                   /\ x = (acc.e.start + n) % SnMod
                   /\ ParOk(acc.e.par, acc.e.book, acc.e.start, {}, n)
    PROVE  Entered(EnterBlock(acc, x), x, {})
<1> DEFINE e == acc.e
           b == e.book
           s == e.start
<1>1. CASE NewBlock(e, x)
  <2> DEFINE f == SetEmptyFecEnCode(acc, x, s)
  <2>1. Fresh(f, e.want, (x + 1) % SnMod)
    BY SetEmptyFacts
  <2> HIDE DEF f
  <2>2. Entered(StartBlock(f, x), x, {})
    BY <2>1, StartBlockFacts
  <2> QED  BY <1>1, <2>2 DEF EnterBlock, f
<1>2. CASE ~NewBlock(e, x)
  <2>1. e.using /\ InMatrix(x, b) # 0
    BY <1>2 DEF NewBlock
  <2>2. PICK n \in 1 .. Book(b).block : x = (s + n) % SnMod /\ ParOk(e.par, b, s, {}, n)
    BY <2>1
  <2>3. b \in Books /\ Aligned(s, b) /\ Book(b).block \in Blocks /\ s \in Nat /\ s \in SN
    BY <2>1, BookFacts, SnModFacts DEF IsEnc, Aligned, SN
  <2>4. n # Book(b).block
    <3>1. SUFFICES ASSUME n = Book(b).block PROVE FALSE
      OBVIOUS
    <3> DEFINE d == Book(b).block
    <3>2. d \in Blocks /\ Cap % d = 0 /\ SnMod % d = 0 /\ s % d = 0
      BY <2>3, BookFacts DEF Aligned
    <3>3. InMatrix(x, b) = x % d
      <4>1. x \in Nat
        BY SnModFacts DEF SN
      <4> QED  BY <3>2, <4>1, ModMod, SnModFacts DEF InMatrix, CachePos
    <3>4. (s + d) % d = 0 /\ s + d \in Nat
      BY <2>3, <3>2 DEF Blocks
    <3>5. x % d = (s + d) % d
      BY <2>2, <3>1, <3>2, <3>4, ModMod, SnModFacts
    <3> QED  BY <2>1, <3>3, <3>4, <3>5
  <2>5. n \in 0 .. Book(b).block - 1
    BY <2>3, <2>4 DEF Blocks
  <2>6. x = s + n /\ InMatrix(x, b) = n
    BY <2>2, <2>3, <2>5, AlignedFacts
  <2>7. Entered(acc, x, {})
    BY <2>1, <2>2, <2>3, <2>5, <2>6 DEF Entered
  <2> QED  BY <1>2, <2>7 DEF EnterBlock
<1> QED  BY <1>1, <1>2

LEMMA EncodeFacts ==
    ASSUME NEW e, EncOk(e), NEW x \in SN, NEW fails
    PROVE  EncOk(Encode(e, x, fails).e) /\ OutOk(Encode(e, x, fails).out)
<1> DEFINE a == [e |-> e, out |-> {}]
           c == Continued(a, x)
           y == (x + 1) % SnMod
           g == Expecting(c, y)
           m == EnterBlock(g, x)
           r == Encode(e, x, fails)
<1>1. a.e = e /\ a.out = {} /\ a = [e |-> a.e, out |-> a.out] /\ OutOk(a.out)
  BY FS_EmptySet DEF OutOk
<1>2. IsEnc(e) /\ Loose(e.par, e.book) /\ y \in SN
  BY NextSn DEF EncOk
<1> HIDE DEF a
<1>3. /\ c = [e |-> c.e, out |-> c.out] /\ IsEnc(c.e) /\ OutOk(c.out) /\ Loose(c.e.par, c.e.book)
      /\ c.e.using =>
           /\ Aligned(c.e.start, c.e.book)
           /\ \E n \in 1 .. Book(c.e.book).block :
                 x = (c.e.start + n) % SnMod /\ ParOk(c.e.par, c.e.book, c.e.start, {}, n)
  <2>1. CASE e.next = x
    <3>1. c = a
      BY <1>1, <2>1 DEF Continued
    <3> QED  BY <1>1, <1>2, <2>1, <3>1 DEF EncOk
  <2>2. CASE e.next # x
    <3>1. c = SetEmptyFecEnCode(a, x, e.next)
      BY <1>1, <2>2 DEF Continued
    <3>2. Fresh(SetEmptyFecEnCode(a, x, e.next), e.want, e.next)
      BY <1>1, <1>2, SetEmptyFacts
    <3> HIDE DEF c
    <3>3. Fresh(c, e.want, e.next)
      BY <3>1, <3>2
    <3> QED  BY <3>3 DEF Fresh
  <2> QED  BY <2>1, <2>2
<1> HIDE DEF c, y
<1>4. /\ g = [e |-> g.e, out |-> g.out] /\ IsEnc(g.e) /\ OutOk(g.out)
      /\ g.e.next = y /\ g.e.par = c.e.par /\ g.e.book = c.e.book /\ g.e.start = c.e.start
      /\ g.e.using = c.e.using
  <2> DEFINE k == [c.e EXCEPT !.next = y]
  <2>1. /\ EncRec(k) /\ k.using = c.e.using /\ k.book = c.e.book /\ k.start = c.e.start
        /\ k.par = c.e.par /\ k.want = c.e.want /\ k.next = y
    BY <1>3, SetNext DEF IsEnc
  <2>2. g = [e |-> k, out |-> c.out]
    BY DEF Expecting
  <2> HIDE DEF k, g
  <2>3. g.e = k /\ g.out = c.out /\ g = [e |-> g.e, out |-> g.out]
    BY <2>2
  <2>4. IsEnc(k)
    BY <1>2, <1>3, <2>1 DEF IsEnc
  <2> QED  BY <1>3, <2>1, <2>3, <2>4
<1> HIDE DEF g
<1>5. Entered(m, x, {})
  BY <1>3, <1>4, EnterFacts DEF y
<1>6. r = LET Along(z, d) == EncodeDir(z, x, InMatrix(x, z.e.book), d, d \in fails)
          IN  Along(Along(Along(Along(m, "H"), "V"), "U"), "D")
  BY DEF Encode, BlockEncode, m, g, c, y, a
<1> HIDE DEF m
<1>7. Entered(r, x, AllDirs)
  <2> HIDE DEF r
  <2> QED  BY <1>5, <1>6, AlongFacts
<1> HIDE DEF r
<1>8. EncOk(r.e)
  <2> DEFINE b == r.e.book
             s == r.e.start
             n == InMatrix(x, b)
  <2>1. /\ IsEnc(r.e) /\ r.e.using /\ r.e.next = (x + 1) % SnMod /\ Aligned(s, b)
        /\ n \in 0 .. Book(b).block - 1 /\ x = s + n /\ ParOk(r.e.par, b, s, AllDirs, n)
        /\ b \in Books
    BY <1>7 DEF Entered, IsEnc
  <2>2. Book(b).block \in Blocks /\ Book(b).dirs \subseteq AllDirs /\ s \in Nat
    BY <2>1, BookFacts, SnModFacts DEF Aligned, SN
  <2>3. n + 1 \in 1 .. Book(b).block /\ r.e.next = (s + (n + 1)) % SnMod
    BY <2>1, <2>2 DEF Blocks
  <2>4. ParOk(r.e.par, b, s, {}, n + 1)
    <3>1. ASSUME NEW l \in DOMAIN r.e.par
          PROVE  Grown(r.e.par[l], l, b, s, n + 1)
      BY <2>1, <2>2 DEF ParOk, Loose
    <3> QED  BY <2>1, <3>1 DEF ParOk
  <2> QED  BY <2>1, <2>3, <2>4 DEF EncOk, ParOk
<1> QED  BY <1>7, <1>8 DEF Entered, r

\* PopAllPack of the encoder.
LEMMA PopAllFacts ==
    ASSUME NEW e, EncOk(e)
    PROVE  EncOk(PopAllEnc(e))
<1> DEFINE P == ClearedPar(e)
           n == [e EXCEPT !.using = FALSE, !.start = 0, !.par = P]
           a == [e EXCEPT !.using = FALSE]
           c == [a EXCEPT !.start = 0]
           f == [c EXCEPT !.par = P]
<1>1. IsEnc(e) /\ EncRec(e) /\ Loose(e.par, e.book)
  BY DEF EncOk, IsEnc
<1>2. DOMAIN P = {} /\ \A k : Loose(P, k)
  BY <1>1, ClearedNone
<1> HIDE DEF P
<1>3. n = f
  OBVIOUS
<1>4. /\ EncRec(a) /\ a.using = FALSE /\ a.book = e.book /\ a.start = e.start
      /\ a.par = e.par /\ a.want = e.want /\ a.next = e.next
  BY <1>1, SetUsing
<1> HIDE DEF a
<1>5. /\ EncRec(c) /\ c.using = a.using /\ c.book = a.book /\ c.start = 0
      /\ c.par = a.par /\ c.want = a.want /\ c.next = a.next
  BY <1>4, SetStart
<1> HIDE DEF c
<1>6. /\ EncRec(f) /\ f.using = c.using /\ f.book = c.book /\ f.start = c.start
      /\ f.par = P /\ f.want = c.want /\ f.next = c.next
  BY <1>5, SetPar
<1> HIDE DEF f, n
<1>7. 0 \in SN
  BY SnModFacts DEF SN
<1>8. EncOk(n)
  BY <1>1, <1>2, <1>3, <1>4, <1>5, <1>6, <1>7 DEF EncOk, IsEnc
<1> QED  BY <1>8 DEF PopAllEnc, n, P

\* ChangeFecMode: the book wanted takes effect with the next block.
LEMMA ChangeFacts ==
    ASSUME NEW e, EncOk(e), NEW b \in Books
    PROVE  EncOk([e EXCEPT !.want = b])
<1> DEFINE n == [e EXCEPT !.want = b]
<1>1. EncRec(e) /\ IsEnc(e)
  BY DEF EncOk, IsEnc
<1>2. /\ EncRec(n) /\ n.using = e.using /\ n.book = e.book /\ n.start = e.start
      /\ n.par = e.par /\ n.want = b /\ n.next = e.next
  BY <1>1 DEF EncRec
<1> HIDE DEF n
<1>3. IsEnc(n)
  BY <1>1, <1>2 DEF IsEnc
<1>4. EncOk(n)
  BY <1>2, <1>3 DEF EncOk
<1> QED  BY <1>4 DEF n

-----------------------------------------------------------------------------
(* The network. *)

Packets == Packs \cup [data : SN]

LEMMA DataIsData ==
    ASSUME NEW p \in [data : SN]
    PROVE  IsData(p) /\ p.data \in SN
BY DEF IsData

LEMMA PacketKinds ==
    ASSUME NEW p \in Packets
    PROVE  /\ IsData(p) => p.data \in SN
           /\ ~IsData(p) => p \in Packs
BY DataIsData, PackIsHonest, Zenon DEF Packets

\* SetToSeq enumerates a finite set.
LEMMA SetToSeqFacts ==
    ASSUME NEW S, IsFiniteSet(S)
    PROVE  SetToSeq(S) \in Seq(S)
<1> DEFINE n == Cardinality(S)
<1>1. n \in Nat /\ ExistsBijection(1 .. n, S)
  BY FS_CardinalityType
<1>2. PICK f : f \in Bijection(1 .. n, S)
  BY <1>1 DEF ExistsBijection
<1>3. f \in [1 .. n -> S] /\ IsInjective(f)
  BY <1>2 DEF Bijection, Injection, IsInjective
<1>4. SetToSeq(S) \in [1 .. n -> S]
  BY <1>3 DEF SetToSeq
<1> QED  BY <1>1, <1>4

NetOk(n) ==
    /\ n = [queue |-> n.queue, late |-> n.late]
    /\ n.queue \in Seq(Packets) /\ n.late \subseteq Packets

LEMMA FlightFacts ==
    ASSUME NetOk(net)
    PROVE  Flight \subseteq Packets
<1>1. ToSet(net.queue) \subseteq Packets
  BY DEF NetOk, ToSet
<1> QED  BY <1>1 DEF Flight, NetOk

LEMMA ArrivesFacts ==
    ASSUME NetOk(net), NEW p, Arrives(p)
    PROVE  NetOk(net') /\ p \in Packets
<1>1. CASE net.queue # <<>> /\ p = Head(net.queue) /\ net' = [net EXCEPT !.queue = Tail(@)]
  <2>1. Head(net.queue) \in Packets /\ Tail(net.queue) \in Seq(Packets)
    BY <1>1, HeadTailProperties DEF NetOk
  <2> QED  BY <1>1, <2>1 DEF NetOk
<1>2. CASE p \in net.late /\ net' = [net EXCEPT !.late = @ \ {p}]
  BY <1>2 DEF NetOk
<1> QED  BY <1>1, <1>2 DEF Arrives

LEMMA SentFacts ==
    ASSUME NetOk(net), NEW x \in SN, NEW out, OutOk(out)
    PROVE  /\ NetOk([net EXCEPT !.queue = <<[data |-> x]>> \o SetToSeq(out)])
           /\ NetOk([net EXCEPT !.queue = <<[data |-> x]>>])
<1>1. [data |-> x] \in Packets
  BY DEF Packets
<1>2. <<[data |-> x]>> \in Seq(Packets)
  BY <1>1
<1>3. SetToSeq(out) \in Seq(Packets)
  <2>1. SetToSeq(out) \in Seq(out) /\ out \subseteq Packets
    BY SetToSeqFacts DEF OutOk, Packets
  <2> QED  BY <2>1
<1>4. <<[data |-> x]>> \o SetToSeq(out) \in Seq(Packets)
  BY <1>2, <1>3, ConcatProperties
<1>5. ASSUME NEW q \in Seq(Packets)
      PROVE  NetOk([net EXCEPT !.queue = q])
  BY DEF NetOk
<1> QED  BY <1>2, <1>4, <1>5, Zenon

EncInv == EncOk(enc) /\ NetOk(net) /\ snd \in SN

LEMMA EncInit ==
    ASSUME Init
    PROVE  EncInv
<1>1. 4 \in Books /\ 0 \in SN /\ FirstSn \in SN
  BY SnModFacts, Fec2Assumption DEF SN
<1>2. /\ enc = [using |-> FALSE, book |-> 4, start |-> 0, par |-> NoPar, want |-> 4, next |-> 0]
      /\ snd = FirstSn /\ net = [queue |-> <<>>, late |-> {}]
  BY DEF Init, NewEncoder
<1>3. DOMAIN NoPar = {} /\ Loose(NoPar, 4)
  BY DEF NoPar, Loose
<1>4. EncOk(enc)
  <2> DEFINE P == NoPar
  <2> HIDE DEF P
  <2>1. enc = [using |-> FALSE, book |-> 4, start |-> 0, par |-> P, want |-> 4, next |-> 0]
    BY <1>2 DEF P
  <2>2. /\ EncRec(enc) /\ enc.using = FALSE /\ enc.book = 4 /\ enc.start = 0 /\ enc.par = P
        /\ enc.want = 4 /\ enc.next = 0
    BY <2>1 DEF EncRec
  <2>3. DOMAIN P = {} /\ Loose(P, 4)
    BY <1>3 DEF P
  <2> QED  BY <1>1, <2>2, <2>3 DEF EncOk, IsEnc
<1>5. NetOk(net)
  BY <1>2 DEF NetOk
<1> QED  BY <1>1, <1>2, <1>4, <1>5 DEF EncInv

LEMMA EncStep ==
    ASSUME EncInv, [Next]_vars
    PROVE  EncInv'
<1> USE DEF EncInv
<1>1. ASSUME SendPlain(snd)
      PROVE  EncInv'
  <2>1. snd' \in SN
    BY <1>1, NextSn DEF SendPlain, SendData
  <2>2. OutOk({})
    BY FS_EmptySet DEF OutOk
  <2>3. NetOk(net')
    BY <1>1, <2>2, SentFacts DEF SendPlain
  <2> QED  BY <1>1, <2>1, <2>3 DEF SendPlain
<1>2. ASSUME NEW fails, SendCoded(snd, fails)
      PROVE  EncInv'
  <2> DEFINE r == Encode(enc, snd, fails)
  <2>1. snd' \in SN
    BY <1>2, NextSn DEF SendCoded, SendData
  <2>2. EncOk(r.e) /\ OutOk(r.out)
    BY EncodeFacts
  <2> HIDE DEF r
  <2>3. enc' = r.e /\ net' = [net EXCEPT !.queue = <<[data |-> snd]>> \o SetToSeq(r.out)]
    BY <1>2 DEF SendCoded, r
  <2> QED  BY <2>1, <2>2, <2>3, SentFacts
<1>3. ASSUME NEW p, ReceiveData(p) \/ ReceiveParity(p)
      PROVE  EncInv'
  BY <1>3, ArrivesFacts DEF ReceiveData, ReceiveParity
<1>4. ASSUME Disturb
      PROVE  EncInv'
  <2>1. Head(net.queue) \in Packets /\ Tail(net.queue) \in Seq(Packets)
    BY <1>4, HeadTailProperties DEF Disturb, NetOk
  <2>2. PICK late \in {net.late, net.late \cup {Head(net.queue)}} :
            net' = [queue |-> Tail(net.queue), late |-> late]
    BY <1>4 DEF Disturb
  <2>3. NetOk(net')
    BY <2>1, <2>2 DEF NetOk
  <2> QED  BY <1>4, <2>3 DEF Disturb
<1>5. ASSUME NEW b \in Books, ChangeFecMode(b)
      PROVE  EncInv'
  BY <1>5, ChangeFacts DEF ChangeFecMode
<1>6. ASSUME ResetSender
      PROVE  EncInv'
  BY <1>6, PopAllFacts DEF ResetSender
<1>7. ASSUME ResetReceiver \/ \E step \in Steps : ClearResource(step)
      PROVE  EncInv'
  BY <1>7 DEF ResetReceiver, ClearResource
<1>8. ASSUME UNCHANGED vars
      PROVE  EncInv'
  BY <1>8 DEF vars
<1> QED  BY <1>1, <1>2, <1>3, <1>4, <1>5, <1>6, <1>7, <1>8, Zenon DEF Next

LEMMA EncAlways == Spec => []EncInv
<1>1. EncInv /\ [Next]_vars => EncInv'
  BY EncStep, Zenon
<1>2. Init => EncInv
  BY EncInit, Zenon
<1> QED  BY <1>1, <1>2, PTL DEF Spec

\* For every set of books, ring and width of numbers, and without a bound on
\* what is sent or goes wrong: a parity packet under way carries the XOR of
\* exactly the packets its bitmap names (HorizontalEncode, VerticalEncode,
\* UphillEncode, DownhillEncode, SetEmptyFecEnCode).
THEOREM ParityHonestHolds == Spec => []ParityHonest
<1>1. EncInv => ParityHonest
  <2> SUFFICES ASSUME EncInv, NEW p \in Flight, ~IsData(p)
               PROVE  p.bytes = {(p.start + q) % SnMod : q \in
                     {q \in Members(p.line, p.book) : Bit(q, p.book, p.line[1]) \in p.bits}}
    BY DEF ParityHonest
  <2>1. p \in Packs
    BY FlightFacts, PacketKinds DEF EncInv
  <2> QED  BY <2>1, PackIsHonest
<1> QED  BY <1>1, EncAlways, PTL

-----------------------------------------------------------------------------
(* XOR over a line.  The books without diagonals and with blocks of at     *)
(* most four packets: 4x1, 2x2 and 2x1.                                    *)

PlainBooks == Books \subseteq {2, 4, 5}

LEMMA PlainFacts ==
    ASSUME PlainBooks, NEW b \in Books
    PROVE  /\ b = 2 \/ b = 4 \/ b = 5
           /\ Book(b).block \in {2, 4} /\ Book(b).dirs \subseteq {"H", "V"}
           /\ (b = 2 => Book(b).h = 4 /\ Book(b).block = 4 /\ Book(b).dirs = {"H"})
           /\ (b = 4 => Book(b).h = 2 /\ Book(b).block = 4 /\ Book(b).dirs = {"H", "V"})
           /\ (b = 5 => Book(b).h = 2 /\ Book(b).block = 2 /\ Book(b).dirs = {"H"})
<1>1. b = 2 \/ b = 4 \/ b = 5
  BY DEF PlainBooks
<1>2. CASE b = 2
  BY <1>2, BookIs
<1>3. CASE b = 4
  BY <1>3, BookIs
<1>4. CASE b = 5
  BY <1>4, BookIs
<1> QED  BY <1>1, <1>2, <1>3, <1>4

FourFacts == Cap % 4 = 0 /\ Cap >= 4 /\ SnMod >= 8 /\ SnMod % 4 = 0

LEMMA FourHolds == FourFacts
<1>1. Cap % 4 = 0
  BY Fec2Assumption, BookIs
<1>2. Cap >= 4 /\ SnMod >= 8
  BY <1>1, SnModFacts
<1>3. SnMod % 4 = 0
  <2>1. 4 \in Blocks
    BY DEF Blocks
  <2>2. (SnMod % Cap) % 4 = SnMod % 4
    BY <1>1, <2>1, ModMod, SnModFacts
  <2> QED  BY <2>2, SnModFacts
<1> QED  BY <1>1, <1>2, <1>3 DEF FourFacts

\* The two lowest bits of the number in what was XORed.
LEMMA LowBits ==
    ASSUME NEW R, IsFiniteSet(R)
    PROVE  /\ PackSn(R) \in Nat /\ PackSn(R) % 4 = XorBit(R, 0) + 2 * XorBit(R, 1)
           /\ Weight[0] = 1 /\ Weight[1] = 2
<1> DEFINE B == XorBelow(R)
           z == XorBit(R, 0) + 2 * XorBit(R, 1)
           S == {k \in 0 .. SnBits : k >= 2 /\ ~(B[k] \in Nat /\ B[k] % 4 = z /\ Weight[k] % 4 = 0)}
<1>1. SnBits \in Nat /\ SnMod >= 8 /\ SnMod = Weight[SnBits]
  BY SnModFacts, FourHolds DEF FourFacts, SnMod
<1>2. Weight[0] = 1 /\ \A k \in 1 .. SnBits : Weight[k] = 2 * Weight[k - 1]
  BY WeightFacts
<1>3. SnBits >= 2
  <2>1. SnBits # 0
    BY <1>1, <1>2
  <2>2. SnBits # 1
    BY <1>1, <1>2
  <2> QED  BY <1>1, <2>1, <2>2
<1>4. Weight[1] = 2 /\ Weight[2] = 4
  BY <1>1, <1>2, <1>3
<1>5. ASSUME NEW k \in 0 .. SnBits
      PROVE  XorBit(R, k) \in 0 .. 1
  <2> DEFINE T == {x \in R : (x \div Weight[k]) % 2 = 1}
             c == Cardinality(T)
  <2>1. IsFiniteSet(T)
    BY FS_Subset
  <2>2. XorBit(R, k) = c % 2
    BY DEF XorBit
  <2> HIDE DEF T
  <2>3. c \in Nat
    BY <2>1, FS_CardinalityType
  <2> HIDE DEF c
  <2> QED  BY <2>2, <2>3
<1>6. B[0] = 0 /\ \A k \in 1 .. SnBits : B[k] = B[k - 1] + Weight[k - 1] * XorBit(R, k - 1)
  <2>1. 0 \in 0 .. SnBits /\ \A k \in 1 .. SnBits : k \in 0 .. SnBits /\ k # 0
    BY <1>1
  <2> QED  BY <2>1, BelowDef DEF BelowBody
<1> HIDE DEF B
<1>7. z \in 0 .. 3 /\ B[2] = z
  <2>1. XorBit(R, 0) \in 0 .. 1 /\ XorBit(R, 1) \in 0 .. 1
    BY <1>1, <1>3, <1>5
  <2>2. B[1] = B[0] + Weight[0] * XorBit(R, 0) /\ B[2] = B[1] + Weight[1] * XorBit(R, 1)
    BY <1>1, <1>3, <1>6
  <2> QED  BY <1>2, <1>4, <1>6, <2>1, <2>2
<1> HIDE DEF z
<1>8. S \in SUBSET (0 .. SnBits) /\ 0 \notin S
  OBVIOUS
<1>9. ASSUME NEW k \in 1 .. SnBits, k - 1 \notin S
      PROVE  k \notin S
  <2>1. CASE k < 2
    BY <2>1
  <2>2. CASE k = 2
    BY <1>4, <1>7, <2>2
  <2>3. CASE k > 2
    <3> DEFINE w == Weight[k - 1]
               x == XorBit(R, k - 1)
               a == B[k - 1]
    <3>1. k - 1 \in 0 .. SnBits /\ k - 1 >= 2
      BY <1>1, <2>3
    <3>2. a \in Nat /\ a % 4 = z /\ w % 4 = 0
      BY <1>9, <3>1
    <3>3. w \in Nat /\ x \in 0 .. 1 /\ B[k] = a + w * x /\ Weight[k] = 2 * w
      BY <1>2, <1>5, <1>6, <3>1, WeightFacts
    <3> HIDE DEF w, x, a
    <3>4. B[k] = a \/ B[k] = a + w
      BY <3>2, <3>3
    <3>5. (a + w) % 4 = z /\ (2 * w) % 4 = 0
      BY <3>2, <3>3
    <3> QED  BY <3>2, <3>3, <3>4, <3>5
  <2> QED  BY <2>1, <2>2, <2>3
<1>10. S = {}
  <2> HIDE DEF S
  <2> QED  BY <1>1, <1>8, <1>9, NoLeast
<1>11. SnBits \in 0 .. SnBits
  BY <1>1
<1>12. B[SnBits] \in Nat /\ B[SnBits] % 4 = z
  BY <1>3, <1>10, <1>11
<1> QED  BY <1>2, <1>4, <1>12 DEF PackSn, B, z

\* Slots of a block, and the numbers that may stand in them.
LEMMA SlotFacts ==
    ASSUME NEW b \in Books, NEW s, Aligned(s, b), NEW q \in 0 .. Book(b).block - 1,
           NEW r \in 0 .. Book(b).block - 1
    PROVE  /\ CachePos(s + q) \in Pos
           /\ CachePos(s + q) = CachePos(s + r) => q = r
<1>1. /\ q \in Nat /\ r \in Nat /\ s \in Nat /\ CachePos(s + q) = CachePos(s) + q
      /\ CachePos(s + r) = CachePos(s) + r /\ CachePos(s) \in Nat
  BY AlignedFacts
<1>2. (s + q) % Cap \in 0 .. Cap - 1
  BY <1>1, SnModFacts
<1> QED  BY <1>1, <1>2 DEF CachePos, Pos

LEMMA InBlockIs ==
    ASSUME NEW m, m.book \in Books, Aligned(m.start, m.book), NEW x \in SN, InBlock(x, m),
           NEW q \in 0 .. Book(m.book).block - 1, CachePos(x) = CachePos(m.start + q)
    PROVE  x = m.start + q
<1> DEFINE s == m.start
           b == m.book
           d == Book(b).block
           end == (s + d) % SnMod
           z == d - 1
<1>1. /\ s \in Nat /\ x \in Nat /\ x < SnMod /\ s < SnMod /\ d \in Blocks /\ d <= Cap
      /\ SnMod \in Nat /\ 2 * Cap <= SnMod /\ Cap \in Nat
  BY BookFacts, SnModFacts DEF Aligned, SN
<1>2. z \in 0 .. d - 1 /\ z \in Nat /\ d = z + 1
  BY <1>1 DEF Blocks
<1>3. s + z \in SN
  BY <1>2, AlignedFacts
<1>4. s + d <= SnMod
  BY <1>1, <1>2, <1>3 DEF SN
<1>5. IF s <= end THEN s <= x /\ x < end ELSE s <= x \/ x < end
  BY DEF InBlock
<1> HIDE DEF s, b, d, z
<1>6. s <= x /\ x < s + d
  <2>1. CASE s + d = SnMod
    <3>1. end = 0
      BY <1>1, <2>1
    <3>2. s # 0
      BY <1>1, <1>2, <2>1
    <3> QED  BY <1>1, <1>5, <2>1, <3>1, <3>2
  <2>2. CASE s + d < SnMod
    <3>1. end = s + d
      BY <1>1, <1>2, <2>2
    <3> QED  BY <1>1, <1>2, <1>5, <3>1
  <2> QED  BY <1>1, <1>2, <1>4, <2>1, <2>2
<1> DEFINE i == x - s
<1>7. i \in 0 .. d - 1 /\ x = s + i
  BY <1>1, <1>2, <1>6
<1> HIDE DEF i
<1>8. i = q
  BY <1>7, SlotFacts DEF s, b, d
<1> QED  BY <1>7, <1>8 DEF s

\* The slots of a line hold the packets C, each once.
LEMMA XorAllIs ==
    ASSUME NEW bytes, NEW cache, NEW S, NEW C,
           \A p \in S : cache[p] = {} \/ \E x \in C : cache[p] = {x},
           \A x \in C : \E p \in S : cache[p] = {x},
           \A p, r \in S : cache[p] # {} /\ cache[p] = cache[r] => p = r
    PROVE  XorAll(bytes, cache, S) = SymDiff(bytes, C)
<1> DEFINE U == UNION {cache[p] : p \in S}
           At1(x) == {p \in S : x \in cache[p]}
<1>1. U = C
  OBVIOUS
<1>2. ASSUME NEW x \in C
      PROVE  Cardinality(At1(x)) % 2 # 0
  <2>1. PICK p \in S : cache[p] = {x}
    BY <1>2
  <2>2. ASSUME NEW r \in S, x \in cache[r]
        PROVE  r = p
    <3>1. cache[r] = {x}
      BY <2>2
    <3> QED  BY <2>1, <3>1
  <2>3. At1(x) = {p}
    BY <2>1, <2>2
  <2> DEFINE c == Cardinality(At1(x))
  <2>4. c = 1
    BY <2>3, FS_Singleton
  <2> HIDE DEF c
  <2>5. c % 2 # 0
    BY <2>4
  <2> QED  BY <2>5 DEF c
<1>3. ASSUME NEW x, x \notin C
      PROVE  Cardinality(At1(x)) % 2 = 0
  <2>1. At1(x) = {}
    BY <1>3
  <2> DEFINE c == Cardinality(At1(x))
  <2>2. c = 0
    BY <2>1, FS_EmptySet
  <2> HIDE DEF c
  <2>3. c % 2 = 0
    BY <2>2
  <2> QED  BY <2>3 DEF c
<1>4. XorAll(bytes, cache, S) =
        {x \in bytes \cup U : x \in bytes <=> Cardinality(At1(x)) % 2 = 0}
  BY DEF XorAll
<1> HIDE DEF U, At1
<1> QED  BY <1>1, <1>2, <1>3, <1>4 DEF SymDiff

\* The first row, which all three books have, and the lines of a book of one
\* direction.
LEMMA TopRow ==
    ASSUME PlainBooks, NEW b \in Books
    PROVE  /\ \A bits : Named(<<"H", 0>>, b, bits) =
                           bits \cap (IF b = 2 THEN {0, 1, 2, 3} ELSE {0, 1})
           /\ {Bit(q, b, "H") : q \in Members(<<"H", 0>>, b)} =
                (IF b = 2 THEN {0, 1, 2, 3} ELSE {0, 1})
<1> DEFINE T == IF b = 2 THEN {0, 1, 2, 3} ELSE {0, 1}
           l == <<"H", 0>>
<1>1. /\ (b = 2 => Book(b).h = 4 /\ Book(b).block = 4)
      /\ (b = 4 => Book(b).h = 2 /\ Book(b).block = 4)
      /\ (b = 5 => Book(b).h = 2 /\ Book(b).block = 2)
      /\ b = 2 \/ b = 4 \/ b = 5
      /\ "H" \in Book(b).dirs
  BY PlainFacts
<1>2. ASSUME NEW q
      PROVE  q \in Members(l, b) <=> q \in 0 .. Book(b).block - 1 /\ Row(q, b) = 0
  <2>1. HasLine(q, b, "H")
    BY <1>1 DEF HasLine
  <2>2. Line(q, b, "H") = <<"H", Row(q, b)>>
    BY DEF Line
  <2>3. l[1] = "H"
    OBVIOUS
  <2> QED  BY <2>1, <2>2, <2>3 DEF Members
<1>3. ASSUME NEW q
      PROVE  q \in 0 .. Book(b).block - 1 /\ Row(q, b) = 0 <=> q \in T
  BY <1>1 DEF Row
<1>4. Members(l, b) = T
  BY <1>2, <1>3
<1>5. ASSUME NEW q \in T
      PROVE  Bit(q, b, "H") = q
  BY <1>1 DEF Bit, Col
<1>6. \A bits : Named(l, b, bits) = {q \in Members(l, b) : Bit(q, b, "H") \in bits}
  BY DEF Named
<1> HIDE DEF T, l
<1>7. \A bits : Named(l, b, bits) = bits \cap T
  BY <1>4, <1>5, <1>6
<1>8. {Bit(q, b, "H") : q \in Members(l, b)} = T
  BY <1>4, <1>5
<1> QED  BY <1>7, <1>8, Zenon DEF l, T

LEMMA OnlyRow ==
    ASSUME PlainBooks, NEW b \in Books, b # 4, NEW line \in Lines, Members(line, b) # {}
    PROVE  line = <<"H", 0>>
<1>1. PICK p : p \in Members(line, b)
  OBVIOUS
<1>2. p \in 0 .. Book(b).block - 1 /\ line[1] \in Book(b).dirs /\ Line(p, b, line[1]) = line
  BY <1>1, MembersIn DEF Members
<1>3. /\ (b = 2 => Book(b).h = 4 /\ Book(b).block = 4)
      /\ (b = 5 => Book(b).h = 2 /\ Book(b).block = 2)
      /\ b = 2 \/ b = 5
      /\ Book(b).dirs = {"H"}
  BY PlainFacts
<1>4. Row(p, b) = 0
  BY <1>2, <1>3 DEF Row
<1>5. line[1] = "H"
  BY <1>2, <1>3
<1>6. Line(p, b, "H") = <<"H", Row(p, b)>>
  BY DEF Line
<1> QED  BY <1>2, <1>4, <1>5, <1>6

\* Packets of the second half of a row of four, XORed to one of the first half,
\* change the two lowest bits of its number.
LEMMA FalseXor ==
    ASSUME NEW s \in Nat, s % 4 = 0, NEW q \in {0, 1}, NEW E \in {{2}, {3}, {2, 3}},
           NEW R, R = {s + q} \cup {s + i : i \in E}
    PROVE  PackSn(R) \in Nat /\ PackSn(R) % 4 # q
<1>1. E = {2} \/ E = {3} \/ E = {2, 3}
  OBVIOUS
<1>2. /\ (s + q) % 2 = q /\ (s + 2) % 2 = 0 /\ (s + 3) % 2 = 1
      /\ ((s + q) \div 2) % 2 = 0 /\ ((s + 2) \div 2) % 2 = 1 /\ ((s + 3) \div 2) % 2 = 1
      /\ s + q # s + 2 /\ s + q # s + 3 /\ s + 2 # s + 3 /\ s + q \in Nat /\ s + 2 \in Nat
      /\ s + 3 \in Nat
  OBVIOUS
<1>3. R \subseteq {s + q, s + 2, s + 3}
  BY <1>1
<1>4. IsFiniteSet(R)
  <2>1. {s + q, s + 2, s + 3} = ({s + q} \cup {s + 2}) \cup {s + 3}
    OBVIOUS
  <2>2. IsFiniteSet({s + q}) /\ IsFiniteSet({s + 2}) /\ IsFiniteSet({s + 3})
    BY FS_Singleton
  <2>3. IsFiniteSet({s + q} \cup {s + 2})
    BY <2>2, FS_Union
  <2>4. IsFiniteSet(({s + q} \cup {s + 2}) \cup {s + 3})
    BY <2>2, <2>3, FS_Union
  <2> QED  BY <1>3, <2>1, <2>4, FS_Subset
<1>5. /\ PackSn(R) \in Nat /\ PackSn(R) % 4 = XorBit(R, 0) + 2 * XorBit(R, 1)
      /\ Weight[0] = 1 /\ Weight[1] = 2
  BY <1>4, LowBits
<1> DEFINE Z == {x \in R : (x \div Weight[0]) % 2 = 1}
           O == {x \in R : (x \div Weight[1]) % 2 = 1}
           cz == Cardinality(Z)
           co == Cardinality(O)
<1>6. XorBit(R, 0) = cz % 2 /\ XorBit(R, 1) = co % 2
  BY DEF XorBit
<1>7. \A x \in Nat : x \div 1 = x
  OBVIOUS
<1> DEFINE x0 == s + q
           x2 == s + 2
           x3 == s + 3
<1>8. \A x \in R : (x \in Z <=> x % 2 = 1) /\ (x \in O <=> (x \div 2) % 2 = 1) /\ x \in Nat
  BY <1>1, <1>2, <1>5, <1>7
<1>9. /\ Z \subseteq R /\ O \subseteq R /\ R \subseteq {x0, x2, x3} /\ x0 \in R
      /\ (x2 \in R <=> 2 \in E) /\ (x3 \in R <=> 3 \in E) /\ x0 # x2 /\ x0 # x3 /\ x2 # x3
      /\ x0 \notin O /\ (x2 \in R => x2 \in O) /\ (x3 \in R => x3 \in O)
      /\ (x0 \in Z <=> q = 1) /\ x2 \notin Z /\ (x3 \in R => x3 \in Z)
  <2>1. Z \subseteq R /\ O \subseteq R
    OBVIOUS
  <2>2. R \subseteq {x0, x2, x3} /\ x0 \in R /\ x0 # x2 /\ x0 # x3 /\ x2 # x3
    BY <1>2, <1>3
  <2>3. (x2 \in R <=> 2 \in E) /\ (x3 \in R <=> 3 \in E)
    BY <1>1, <1>2
  <2> HIDE DEF Z, O
  <2>4. x0 \notin O /\ (x2 \in R => x2 \in O) /\ (x3 \in R => x3 \in O)
    BY <1>2, <1>8, <2>1
  <2>5. (x0 \in Z <=> q = 1) /\ x2 \notin Z /\ (x3 \in R => x3 \in Z)
    BY <1>2, <1>8, <2>1, <2>2
  <2> QED  BY <2>1, <2>2, <2>3, <2>4, <2>5
<1> HIDE DEF Z, O, x0, x2, x3
<1>10. \A y : Cardinality({y}) = 1
  BY FS_Singleton
<1>11. Cardinality({}) = 0
  BY FS_EmptySet
<1>12. ASSUME NEW y, NEW t, y # t
       PROVE  Cardinality({y, t}) = 2
  <2>1. IsFiniteSet({y}) /\ Cardinality({y}) = 1
    BY FS_Singleton
  <2>2. Cardinality({y} \cup {t}) = Cardinality({y}) + 1
    BY <1>12, <2>1, FS_AddElement
  <2>3. {y, t} = {y} \cup {t}
    OBVIOUS
  <2> QED  BY <2>1, <2>2, <2>3
<1>13. \A y : y \in Z => (y = x0 \/ (y = x3 /\ x3 \in R))
  BY <1>9
<1>14. \A y : y \in O => ((y = x2 /\ x2 \in R) \/ (y = x3 /\ x3 \in R))
  BY <1>9
<1>15. CASE E = {2}
  <2>1. 2 \in E /\ 3 \notin E
    BY <1>15
  <2>2. O = {x2} /\ (Z = {} \/ Z = {x0})
    BY <1>9, <1>13, <1>14, <2>1
  <2>3. co = 1 /\ (cz = 0 \/ cz = 1)
    BY <1>10, <1>11, <2>2
  <2> HIDE DEF cz, co
  <2> QED  BY <1>5, <1>6, <2>3
<1>16. CASE E = {3}
  <2>1. 2 \notin E /\ 3 \in E
    BY <1>16
  <2>2. O = {x3} /\ (Z = {x3} \/ Z = {x0, x3})
    BY <1>9, <1>13, <1>14, <2>1
  <2>3. Cardinality({x0, x3}) = 2
    BY <1>9, <1>12
  <2>4. co = 1 /\ (cz = 1 \/ cz = 2)
    BY <1>10, <2>2, <2>3
  <2> HIDE DEF cz, co
  <2> QED  BY <1>5, <1>6, <2>4
<1>17. CASE E = {2, 3}
  <2>1. 2 \in E /\ 3 \in E
    BY <1>17
  <2>2. O = {x2, x3} /\ (q = 0 => Z = {x3}) /\ (q = 1 => Z = {x0, x3})
    <3>1. O = {x2, x3} /\ (x0 \notin Z => Z = {x3}) /\ (x0 \in Z => Z = {x0, x3})
      BY <1>9, <1>13, <1>14, <2>1
    <3> QED  BY <1>9, <3>1
  <2>3. Cardinality({x0, x3}) = 2 /\ Cardinality({x2, x3}) = 2
    BY <1>9, <1>12
  <2>4. co = 2 /\ (q = 0 => cz = 1) /\ (q = 1 => cz = 2)
    BY <1>10, <2>2, <2>3
  <2> HIDE DEF cz, co
  <2> QED  BY <1>5, <1>6, <2>4
<1> QED  BY <1>1, <1>15, <1>16, <1>17

\* What the parity k and all packets it names but the one at q XOR to is this
\* packet, or its number does not belong into the slot.  The matrix has the
\* book b, which need not be the one of the parity.
LEMMA XorOfLine ==
    ASSUME PlainBooks, NEW k \in Packs, NEW b \in Books, Aligned(k.start, b),
           NEW q \in Named(k.line, b, k.bits), NEW C,
           C = {k.start + i : i \in Named(k.line, b, k.bits) \ {q}},
           NEW R, R = SymDiff(k.bytes, C), CachePos(PackSn(R)) = CachePos(k.start + q)
    PROVE  R = {k.start + q}
<1> DEFINE s == k.start
           B == k.book
           l == k.line
           A == Named(l, b, k.bits)
           K == Named(l, B, k.bits)
<1>1. /\ B \in Books /\ l \in Lines /\ Aligned(s, B) /\ k.bytes = At(s, K)
      /\ k.bits \subseteq {Bit(i, B, l[1]) : i \in Members(l, B)}
  BY DEF Packs
<1>2. k.bytes = {s + i : i \in K}
  <2>1. \A i \in K : (s + i) % SnMod = s + i
    BY <1>1, MembersIn, AlignedFacts DEF Named
  <2> QED  BY <1>1, <2>1 DEF At
<1>3. \A i \in A \cup K : i \in Nat
  <2>1. \A i \in A : i \in Nat
    BY MembersIn, AlignedFacts DEF Named
  <2>2. \A i \in K : i \in Nat
    BY <1>1, MembersIn, AlignedFacts DEF Named
  <2> QED  BY <2>1, <2>2
<1>4. s \in Nat /\ q \in A
  BY SnModFacts DEF Aligned, SN
<1>5. CASE K = A
  <2>1. k.bytes = C \cup {s + q} /\ s + q \notin C
    <3> HIDE DEF A, K, s
    <3>1. s + q \notin {s + i : i \in A \ {q}}
      BY <1>3, <1>4
    <3>2. {s + i : i \in A} = {s + i : i \in A \ {q}} \cup {s + q}
      BY <1>4
    <3>3. C = {s + i : i \in A \ {q}}
      BY DEF s, A
    <3> QED  BY <1>2, <1>5, <3>1, <3>2, <3>3
  <2> QED  BY <2>1 DEF SymDiff
<1>6. CASE K # A
  <2>1. B # b
    BY <1>6
  <2>2. Members(l, b) # {}
    BY DEF Named
  <2>3. Members(l, B) # {}
    <3>1. k.bits # {}
      BY DEF Named
    <3> QED  BY <1>1, <3>1
  <2>4. l = <<"H", 0>>
    BY <1>1, <2>1, <2>2, <2>3, OnlyRow
  <2>5. l[1] = "H"
    BY <2>4
  <2>6. /\ A = k.bits \cap (IF b = 2 THEN {0, 1, 2, 3} ELSE {0, 1})
        /\ K = k.bits \cap (IF B = 2 THEN {0, 1, 2, 3} ELSE {0, 1})
        /\ k.bits \subseteq (IF B = 2 THEN {0, 1, 2, 3} ELSE {0, 1})
    <3>1. A = k.bits \cap (IF b = 2 THEN {0, 1, 2, 3} ELSE {0, 1})
      BY <2>4, TopRow
    <3>2. K = k.bits \cap (IF B = 2 THEN {0, 1, 2, 3} ELSE {0, 1})
      BY <1>1, <2>4, TopRow
    <3>3. {Bit(i, B, "H") : i \in Members(<<"H", 0>>, B)} =
            (IF B = 2 THEN {0, 1, 2, 3} ELSE {0, 1})
      BY <1>1, TopRow
    <3>4. k.bits \subseteq {Bit(i, B, "H") : i \in Members(<<"H", 0>>, B)}
      BY <1>1, <2>4, <2>5
    <3> QED  BY <3>1, <3>2, <3>3, <3>4
  <2> HIDE DEF A, K, B, s
  <2>7. B = 2 /\ b # 2
    BY <1>6, <2>1, <2>6
  <2> DEFINE E == k.bits \cap {2, 3}
  <2>8. /\ A = k.bits \cap {0, 1} /\ K = A \cup E /\ q \in {0, 1} /\ E \in {{2}, {3}, {2, 3}}
        /\ A \cap E = {}
    BY <1>4, <1>6, <2>6, <2>7
  <2> HIDE DEF E
  <2>9. R = {s + q} \cup {s + i : i \in E}
    <3>1. C = {s + i : i \in A \ {q}}
      BY DEF s, A
    <3>2. \A i \in A, j \in E : i \in Nat /\ j \in Nat /\ i # j /\ s + i # s + j
      BY <1>3, <1>4, <2>8
    <3>3. \A i \in A : i # q => s + i # s + q
      BY <1>3, <1>4
    <3>4. k.bytes = {s + i : i \in A} \cup {s + i : i \in E}
      BY <1>2, <2>8
    <3> QED  BY <1>4, <3>1, <3>2, <3>3, <3>4 DEF SymDiff
  <2>10. s % 4 = 0
    BY <1>1, <2>7, BookIs DEF Aligned
  <2>11. PackSn(R) \in Nat /\ PackSn(R) % 4 # q
    BY <1>4, <2>8, <2>9, <2>10, FalseXor
  <2>12. \A x \in Nat : CachePos(x) % 4 = x % 4
    <3>1. 4 \in Blocks
      BY DEF Blocks
    <3> QED  BY <3>1, ModMod, FourHolds, SnModFacts DEF FourFacts, CachePos
  <2>13. (s + q) % 4 = q /\ s + q \in Nat
    BY <1>4, <2>8, <2>10
  <2>14. PackSn(R) % 4 = (s + q) % 4
    BY <2>11, <2>12, <2>13 DEF s
  <2> QED  BY <2>11, <2>13, <2>14
<1> QED  BY <1>5, <1>6

-----------------------------------------------------------------------------
(* The decoder.  A slot holds a packet that belongs there, and a matrix    *)
(* honest parity of its block, sent with whatever book.                    *)

CacheOk(c) ==
    /\ c = [p \in Pos |-> c[p]]
    /\ \A p \in Pos : c[p] = {} \/ \E x \in SN : CachePos(x) = p /\ c[p] = {x}

HoldOk(par, s) ==
    /\ par = [l \in DOMAIN par |-> par[l]] /\ DOMAIN par \subseteq Lines
    /\ \A l \in DOMAIN par : par[l] \in Packs /\ par[l].line = l /\ par[l].start = s

MatRec(m) == m = [using |-> m.using, book |-> m.book, start |-> m.start, par |-> m.par]

MatOk(m) ==
    /\ MatRec(m) /\ m.using \in BOOLEAN /\ m.book \in Books /\ Aligned(m.start, m.book)
    /\ HoldOk(m.par, m.start)
    /\ ~m.using => DOMAIN m.par = {}

MatsOk(ms) == ms = [id \in Mats |-> ms[id]] /\ \A id \in Mats : MatOk(ms[id])

OneEach(out) == \A bytes \in out : \E sn \in SN : bytes = {sn}

DecRec(f) ==
    f = [book |-> f.book, cache |-> f.cache, max |-> f.max, num |-> f.num, mats |-> f.mats,
         out |-> f.out]

DecOk(f) == DecRec(f) /\ f.book \in Books /\ CacheOk(f.cache) /\ MatsOk(f.mats) /\ OneEach(f.out)

LEMMA PutBook ==
    ASSUME NEW f, DecRec(f), NEW v
    PROVE  LET q == [f EXCEPT !.book = v] IN
           /\ DecRec(q) /\ q.book = v /\ q.cache = f.cache /\ q.max = f.max
           /\ q.num = f.num /\ q.mats = f.mats /\ q.out = f.out
BY DEF DecRec

LEMMA PutCache ==
    ASSUME NEW f, DecRec(f), NEW v
    PROVE  LET q == [f EXCEPT !.cache = v] IN
           /\ DecRec(q) /\ q.book = f.book /\ q.cache = v /\ q.max = f.max
           /\ q.num = f.num /\ q.mats = f.mats /\ q.out = f.out
BY DEF DecRec

LEMMA PutMax ==
    ASSUME NEW f, DecRec(f), NEW v
    PROVE  LET q == [f EXCEPT !.max = v] IN
           /\ DecRec(q) /\ q.book = f.book /\ q.cache = f.cache /\ q.max = v
           /\ q.num = f.num /\ q.mats = f.mats /\ q.out = f.out
BY DEF DecRec

LEMMA PutNum ==
    ASSUME NEW f, DecRec(f), NEW v
    PROVE  LET q == [f EXCEPT !.num = v] IN
           /\ DecRec(q) /\ q.book = f.book /\ q.cache = f.cache /\ q.max = f.max
           /\ q.num = v /\ q.mats = f.mats /\ q.out = f.out
BY DEF DecRec

LEMMA PutMats ==
    ASSUME NEW f, DecRec(f), NEW v
    PROVE  LET q == [f EXCEPT !.mats = v] IN
           /\ DecRec(q) /\ q.book = f.book /\ q.cache = f.cache /\ q.max = f.max
           /\ q.num = f.num /\ q.mats = v /\ q.out = f.out
BY DEF DecRec

LEMMA PutOut ==
    ASSUME NEW f, DecRec(f), NEW v
    PROVE  LET q == [f EXCEPT !.out = v] IN
           /\ DecRec(q) /\ q.book = f.book /\ q.cache = f.cache /\ q.max = f.max
           /\ q.num = f.num /\ q.mats = f.mats /\ q.out = v
BY DEF DecRec

LEMMA MatUsing ==
    ASSUME NEW m, MatRec(m), NEW v
    PROVE  LET q == [m EXCEPT !.using = v] IN
           /\ MatRec(q) /\ q.using = v /\ q.book = m.book /\ q.start = m.start /\ q.par = m.par
BY DEF MatRec

LEMMA MatBook ==
    ASSUME NEW m, MatRec(m), NEW v
    PROVE  LET q == [m EXCEPT !.book = v] IN
           /\ MatRec(q) /\ q.using = m.using /\ q.book = v /\ q.start = m.start /\ q.par = m.par
BY DEF MatRec

LEMMA MatStart ==
    ASSUME NEW m, MatRec(m), NEW v
    PROVE  LET q == [m EXCEPT !.start = v] IN
           /\ MatRec(q) /\ q.using = m.using /\ q.book = m.book /\ q.start = v /\ q.par = m.par
BY DEF MatRec

LEMMA MatPar ==
    ASSUME NEW m, MatRec(m), NEW v
    PROVE  LET q == [m EXCEPT !.par = v] IN
           /\ MatRec(q) /\ q.using = m.using /\ q.book = m.book /\ q.start = m.start /\ q.par = v
BY DEF MatRec

\* Slots are freed.
LEMMA PopFacts ==
    ASSUME NEW f, DecOk(f), NEW S
    PROVE  /\ DecOk(Pop(f, S)) /\ Pop(f, S).mats = f.mats /\ Pop(f, S).out = f.out
           /\ Pop(f, S).cache = [p \in Pos |-> IF p \in S THEN {} ELSE f.cache[p]]
           /\ Pop(f, S).max = f.max /\ Pop(f, S).book = f.book
<1> DEFINE c == [p \in Pos |-> IF p \in S THEN {} ELSE f.cache[p]]
           k == f.num - Quantify(S, LAMBDA p : f.cache[p] # {})
           a == [f EXCEPT !.cache = c]
           b == [a EXCEPT !.num = k]
           n == Pop(f, S)
<1>1. n = [f EXCEPT !.cache = c, !.num = k]
  BY DEF Pop
<1> HIDE DEF n, k
<1>2. CacheOk(c)
  BY DEF CacheOk, DecOk
<1> HIDE DEF c
<1>3. n = b
  BY <1>1
<1>4. /\ DecRec(a) /\ a.book = f.book /\ a.cache = c /\ a.max = f.max
      /\ a.num = f.num /\ a.mats = f.mats /\ a.out = f.out
  BY PutCache DEF DecOk
<1> HIDE DEF a
<1>5. /\ DecRec(b) /\ b.book = a.book /\ b.cache = a.cache /\ b.max = a.max
      /\ b.num = k /\ b.mats = a.mats /\ b.out = a.out
  BY <1>4, PutNum
<1> HIDE DEF b
<1>6. DecOk(n)
  BY <1>2, <1>3, <1>4, <1>5 DEF DecOk
<1> QED  BY <1>3, <1>4, <1>5, <1>6 DEF n, c

\* A packet is put into its slot.
LEMMA PushFacts ==
    ASSUME NEW f, DecOk(f), NEW x \in SN
    PROVE  DecOk(PushPack(f, {x})) /\ PushPack(f, {x}).mats = f.mats /\ PushPack(f, {x}).out = f.out
<1> DEFINE i == CachePos(x)
           c == [f.cache EXCEPT ![i] = {x}]
           k == IF f.cache[i] = {} THEN f.num + 1 ELSE f.num
           m == IF f.max <= x \/ SnMod - 1 - f.max + x <= Cap THEN x ELSE f.max
           a == [f EXCEPT !.cache = c]
           b == [a EXCEPT !.num = k]
           d == [b EXCEPT !.max = m]
           n == PushPack(f, {x})
<1>1. n = [f EXCEPT !.cache[i] = {x}, !.num = k, !.max = m]
  BY PackSnOfOne DEF PushPack, PushAt
<1> HIDE DEF n, k, m
<1>2. CacheOk(c)
  <2>1. CacheOk(f.cache)
    BY DEF DecOk
  <2>2. c = [p \in Pos |-> IF p = i THEN {x} ELSE f.cache[p]]
    BY <2>1 DEF CacheOk
  <2> HIDE DEF c
  <2> QED  BY <2>1, <2>2 DEF CacheOk, i
<1>3. n = d
  BY <1>1
<1> HIDE DEF c
<1>4. /\ DecRec(a) /\ a.book = f.book /\ a.cache = c /\ a.max = f.max
      /\ a.num = f.num /\ a.mats = f.mats /\ a.out = f.out
  BY PutCache DEF DecOk
<1> HIDE DEF a
<1>5. /\ DecRec(b) /\ b.book = a.book /\ b.cache = a.cache /\ b.max = a.max
      /\ b.num = k /\ b.mats = a.mats /\ b.out = a.out
  BY <1>4, PutNum
<1> HIDE DEF b
<1>6. /\ DecRec(d) /\ d.book = b.book /\ d.cache = b.cache /\ d.max = m
      /\ d.num = b.num /\ d.mats = b.mats /\ d.out = b.out
  BY <1>5, PutMax
<1> HIDE DEF d
<1>7. DecOk(n)
  BY <1>2, <1>3, <1>4, <1>5, <1>6 DEF DecOk
<1> QED  BY <1>3, <1>4, <1>5, <1>6, <1>7 DEF n

\* A matrix takes the place of another.
LEMMA MatsPut ==
    ASSUME NEW f, DecOk(f), NEW id \in Mats, NEW m, MatOk(m)
    PROVE  LET n == [f EXCEPT !.mats[id] = m] IN
           DecOk(n) /\ n.mats = [f.mats EXCEPT ![id] = m] /\ n.mats[id] = m /\ n.cache = f.cache
<1> DEFINE c == [f.mats EXCEPT ![id] = m]
           a == [f EXCEPT !.mats = c]
           n == [f EXCEPT !.mats[id] = m]
<1>1. n = a
  OBVIOUS
<1>2. MatsOk(c) /\ c[id] = m
  BY DEF DecOk, MatsOk
<1> HIDE DEF c, n
<1>3. /\ DecRec(a) /\ a.book = f.book /\ a.cache = f.cache /\ a.max = f.max
      /\ a.num = f.num /\ a.mats = c /\ a.out = f.out
  BY PutMats DEF DecOk
<1> HIDE DEF a
<1>4. DecOk(n)
  BY <1>1, <1>2, <1>3 DEF DecOk
<1> QED  BY <1>1, <1>2, <1>3, <1>4 DEF n, c

LEMMA WithoutFacts ==
    ASSUME NEW par, NEW s, HoldOk(par, s), NEW line
    PROVE  HoldOk(Without(par, line), s) /\ DOMAIN Without(par, line) \subseteq DOMAIN par
<1>1. Without(par, line) = [l \in DOMAIN par \ {line} |-> par[l]]
  BY DEF Without, Restrict
<1> QED  BY <1>1 DEF HoldOk

LEMMA WithFacts ==
    ASSUME NEW par, NEW s, HoldOk(par, s), NEW k \in Packs, k.start = s
    PROVE  HoldOk(With(par, k.line, k), s)
<1>1. k.line \in Lines
  BY DEF Packs
<1>2. With(par, k.line, k) =
        [l \in DOMAIN par \cup {k.line} |-> IF l = k.line THEN k ELSE par[l]]
  BY DEF With
<1> QED  BY <1>1, <1>2 DEF HoldOk

LEMMA DropFacts ==
    ASSUME NEW f, DecOk(f), NEW id \in Mats, NEW line
    PROVE  /\ DecOk(DropPar(f, id, line))
           /\ DropPar(f, id, line).cache = f.cache
<1> DEFINE m == f.mats[id]
           P == Without(m.par, line)
           k == [m EXCEPT !.par = P]
<1>1. MatOk(m)
  BY DEF DecOk, MatsOk
<1>2. HoldOk(P, m.start) /\ DOMAIN P \subseteq DOMAIN m.par
  BY <1>1, WithoutFacts DEF MatOk
<1>3. DropPar(f, id, line) = [f EXCEPT !.mats[id] = k]
  BY DEF DropPar
<1> HIDE DEF P
<1>4. MatRec(k) /\ k.using = m.using /\ k.book = m.book /\ k.start = m.start /\ k.par = P
  BY <1>1, MatPar DEF MatOk
<1> HIDE DEF k
<1>5. MatOk(k)
  BY <1>1, <1>2, <1>4 DEF MatOk
<1> QED  BY <1>3, <1>5, MatsPut

LEMMA PosFinite == IsFiniteSet(Pos)
<1>1. 0 \in Int /\ Cap - 1 \in Int
  BY SnModFacts
<1> QED  BY <1>1, FS_Interval DEF Pos

\* The packet at q alone is missing among those the parity of the line names.
Lacks(f, id, line, q) ==
    LET m == f.mats[id]
    IN  /\ line \in DOMAIN m.par /\ q \in Named(line, m.book, m.par[line].bits)
        /\ f.cache[CachePos(m.start + q)] = {}
        /\ \A i \in Named(line, m.book, m.par[line].bits) \ {q} :
              f.cache[CachePos(m.start + i)] = {m.start + i}

LEMMA SearchFacts ==
    ASSUME NEW f, DecOk(f), NEW id \in Mats, NEW line, line \in DOMAIN f.mats[id].par
    PROVE  LET c == CalcRestorePos(f, id, line) IN
           /\ DecOk(c.f)
           /\ c.pos = {} \/ \E q : /\ Lacks(c.f, id, line, q)
                                   /\ c.pos = {CachePos(c.f.mats[id].start + q)}
<1> DEFINE m == f.mats[id]
           s == m.start
           b == m.book
           F == Foreign(f, m, LineSlots(m, line))
           g == Pop(f, F)
           N == Named(line, b, m.par[line].bits)
           V == {p \in CodedSlots(g.mats[id], line) : g.cache[p] = {}}
           c == OneMissing(g, id, line, V)
<1>1. CalcRestorePos(f, id, line) = c
  BY DEF CalcRestorePos
<1>2. MatOk(m) /\ b \in Books /\ Aligned(s, b) /\ CacheOk(f.cache)
  BY DEF DecOk, MatsOk, MatOk
<1>3. /\ DecOk(g) /\ g.mats = f.mats
      /\ g.cache = [p \in Pos |-> IF p \in F THEN {} ELSE f.cache[p]]
  BY PopFacts
<1> HIDE DEF g
<1>4. CodedSlots(m, line) = {CachePos(s + p) : p \in N}
  BY DEF CodedSlots, Named
<1>5. ASSUME NEW i \in N
      PROVE  /\ CachePos(s + i) \in Pos
             /\ g.cache[CachePos(s + i)] = {} \/ g.cache[CachePos(s + i)] = {s + i}
  <2> DEFINE p == CachePos(s + i)
  <2>1. i \in Members(line, b) /\ i \in 0 .. Book(b).block - 1
    BY MembersIn DEF Named
  <2>2. p \in Pos
    BY <1>2, <2>1, SlotFacts
  <2>3. p \in LineSlots(m, line)
    BY <2>1 DEF LineSlots
  <2>4. CASE p \in F
    BY <1>3, <2>2, <2>4
  <2>5. CASE p \notin F /\ f.cache[p] = {}
    BY <1>3, <2>2, <2>5
  <2>6. CASE p \notin F /\ f.cache[p] # {}
    <3>1. PICK x \in SN : CachePos(x) = p /\ f.cache[p] = {x}
      BY <1>2, <2>2, <2>6 DEF CacheOk
    <3>2. InBlock(PackSn(f.cache[p]), m)
      BY <2>3, <2>6 DEF Foreign
    <3>3. InBlock(x, m)
      BY <3>1, <3>2, PackSnOfOne
    <3>4. x = s + i
      BY <1>2, <2>1, <3>1, <3>3, InBlockIs
    <3>5. g.cache[p] = f.cache[p]
      BY <1>3, <2>2, <2>6
    <3>6. g.cache[p] = {s + i}
      BY <3>1, <3>4, <3>5
    <3> QED  BY <2>2, <3>6
  <2> QED  BY <2>2, <2>4, <2>5, <2>6
<1>6. V \subseteq {CachePos(s + p) : p \in N} /\ V \subseteq Pos
  BY <1>3, <1>4, <1>5
<1>7. CASE Cardinality(V) # 1
  <2>1. c.pos = {} /\ (c.f = g \/ c.f = DropPar(g, id, line))
    BY <1>7 DEF OneMissing
  <2>2. DecOk(c.f)
    BY <1>3, <2>1, DropFacts
  <2> QED  BY <1>1, <2>1, <2>2
<1>8. CASE Cardinality(V) = 1
  <2>1. IsFiniteSet(V)
    BY <1>6, PosFinite, FS_Subset
  <2>2. PICK v : V = {v}
    BY <1>8, <2>1, FS_Singleton
  <2>3. PICK q \in N : v = CachePos(s + q)
    BY <1>6, <2>2
  <2>4. c.pos = V /\ c.f = g
    BY <1>8, <2>2 DEF OneMissing
  <2>5. g.cache[CachePos(s + q)] = {}
    BY <2>2, <2>3
  <2>6. ASSUME NEW i \in N \ {q}
        PROVE  g.cache[CachePos(s + i)] = {s + i}
    <3>1. i \in 0 .. Book(b).block - 1 /\ q \in 0 .. Book(b).block - 1
      BY MembersIn DEF Named
    <3>2. CachePos(s + i) # CachePos(s + q)
      BY <1>2, <3>1, SlotFacts
    <3>3. CachePos(s + i) \notin V
      BY <2>2, <2>3, <3>2
    <3>4. CachePos(s + i) \in CodedSlots(g.mats[id], line)
      BY <1>3, <1>4
    <3>5. g.cache[CachePos(s + i)] # {}
      BY <3>3, <3>4
    <3> QED  BY <1>5, <3>5
  <2>7. Lacks(g, id, line, q)
    BY <1>3, <2>3, <2>5, <2>6 DEF Lacks
  <2> HIDE DEF c, V
  <2> QED  BY <1>1, <1>3, <2>2, <2>3, <2>4, <2>7
<1> QED  BY <1>7, <1>8

\* What is restored is the packet that was missing.
LEMMA RestoreFacts ==
    ASSUME PlainBooks, NEW f, DecOk(f), NEW id \in Mats, NEW line, NEW q, Lacks(f, id, line, q)
    PROVE  DecOk(RestoreData(f, id, line, CachePos(f.mats[id].start + q)).f)
<1> DEFINE m == f.mats[id]
           k == m.par[line]
           s == m.start
           b == m.book
           N == Named(line, b, k.bits)
           pos == CachePos(s + q)
           C == {s + i : i \in N \ {q}}
           S == CodedSlots(m, line)
           R == XorAll(k.bytes, f.cache, S)
           g == DropPar(f, id, line)
<1>1. RestoreData(f, id, line, pos) = Restored(g, R, pos)
  BY DEF RestoreData
<1>2. /\ MatOk(m) /\ b \in Books /\ Aligned(s, b) /\ line \in DOMAIN m.par
      /\ k \in Packs /\ k.line = line /\ k.start = s
  BY DEF DecOk, MatsOk, MatOk, HoldOk, Lacks
<1>3. /\ q \in N /\ f.cache[pos] = {}
      /\ \A i \in N \ {q} : f.cache[CachePos(s + i)] = {s + i}
  BY DEF Lacks
<1>4. S = {CachePos(s + i) : i \in N}
  BY DEF CodedSlots, Named
<1>5. R = SymDiff(k.bytes, C)
  <2> HIDE DEF N, k, s, S
  <2>1. \A p \in S : f.cache[p] = {} \/ \E x \in C : f.cache[p] = {x}
    BY <1>3, <1>4
  <2>2. \A x \in C : \E p \in S : f.cache[p] = {x}
    BY <1>3, <1>4
  <2>3. ASSUME NEW p \in S, NEW r \in S, f.cache[p] # {}, f.cache[p] = f.cache[r]
        PROVE  p = r
    <3>1. PICK i \in N \ {q} : p = CachePos(s + i)
      BY <1>3, <1>4, <2>3
    <3>2. PICK j \in N \ {q} : r = CachePos(s + j)
      BY <1>3, <1>4, <2>3
    <3>3. {s + i} = {s + j}
      BY <1>3, <2>3, <3>1, <3>2
    <3>4. s + i = s + j
      BY <3>3
    <3> QED  BY <3>1, <3>2, <3>4
  <2> HIDE DEF C
  <2> QED  BY <2>1, <2>2, <2>3, XorAllIs
<1>6. DecOk(g)
  BY DropFacts
<1> HIDE DEF R, g
<1>7. CASE CachePos(PackSn(R)) = pos
  <2>1. R = {s + q}
    <3>1. C = {k.start + i : i \in Named(k.line, b, k.bits) \ {q}}
      BY <1>2
    <3>2. q \in Named(k.line, b, k.bits) /\ Aligned(k.start, b)
      BY <1>2, <1>3
    <3>3. CachePos(PackSn(R)) = CachePos(k.start + q)
      BY <1>2, <1>7
    <3> HIDE DEF C, k, b, s
    <3>4. R = {k.start + q}
      BY <1>2, <1>5, <3>1, <3>2, <3>3, XorOfLine
    <3> QED  BY <1>2, <3>4
  <2>2. s + q \in SN
    <3>1. q \in 0 .. Book(b).block - 1
      BY <1>3, MembersIn DEF Named
    <3> QED  BY <1>2, <3>1, AlignedFacts
  <2> DEFINE h == PushPack(g, R)
             w == h.out \cup {R}
             n == [h EXCEPT !.out = w]
  <2>3. DecOk(h)
    BY <1>6, <2>1, <2>2, PushFacts
  <2>4. Restored(g, R, pos) = [f |-> n, ok |-> TRUE]
    BY <1>7 DEF Restored
  <2> HIDE DEF h
  <2>5. OneEach(w)
    BY <2>1, <2>2, <2>3 DEF OneEach, DecOk
  <2> HIDE DEF w
  <2>6. /\ DecRec(n) /\ n.book = h.book /\ n.cache = h.cache /\ n.max = h.max
        /\ n.num = h.num /\ n.mats = h.mats /\ n.out = w
    BY <2>3, PutOut DEF DecOk
  <2> HIDE DEF n
  <2>7. DecOk(n)
    BY <2>3, <2>5, <2>6 DEF DecOk
  <2> QED  BY <1>1, <2>4, <2>7
<1>8. CASE CachePos(PackSn(R)) # pos
  <2>1. Restored(g, R, pos) = [f |-> g, ok |-> FALSE]
    BY <1>8 DEF Restored
  <2> QED  BY <1>1, <1>6, <2>1
<1> QED  BY <1>7, <1>8

LEMMA AfterFacts ==
    ASSUME NEW r, DecOk(r.f), NEW id, NEW line, NEW pos, NEW byFec
    PROVE  DecOk(AfterRestore(r, id, line, pos, byFec).f)
<1>1. DecOk(Pop(r.f, LineSlots(r.f.mats[id], line)))
  BY PopFacts
<1> QED  BY <1>1 DEF AfterRestore

LEMMA TryLineFacts ==
    ASSUME PlainBooks, NEW f, DecOk(f), NEW id \in Mats, NEW line, NEW byFec
    PROVE  DecOk(TryLine(f, id, line, byFec).f)
<1>1. CASE line \notin DOMAIN f.mats[id].par
  BY <1>1 DEF TryLine
<1>2. CASE line \in DOMAIN f.mats[id].par
  <2> DEFINE c == CalcRestorePos(f, id, line)
  <2>1. /\ DecOk(c.f)
        /\ c.pos = {} \/ \E q : /\ Lacks(c.f, id, line, q)
                                /\ c.pos = {CachePos(c.f.mats[id].start + q)}
    BY <1>2, SearchFacts
  <2>2. TryLine(f, id, line, byFec) = AfterSearch(c, id, line, byFec)
    BY <1>2 DEF TryLine
  <2> HIDE DEF c
  <2>3. CASE c.pos = {}
    BY <2>1, <2>2, <2>3 DEF AfterSearch
  <2>4. CASE c.pos # {}
    <3>1. PICK q : /\ Lacks(c.f, id, line, q)
                   /\ c.pos = {CachePos(c.f.mats[id].start + q)}
      BY <2>1, <2>4
    <3> DEFINE pos == CHOOSE p \in c.pos : TRUE
               r == RestoreData(c.f, id, line, pos)
    <3>2. pos = CachePos(c.f.mats[id].start + q)
      BY <3>1
    <3>3. AfterSearch(c, id, line, byFec) = AfterRestore(r, id, line, pos, byFec)
      BY <2>4 DEF AfterSearch
    <3> HIDE DEF pos
    <3>4. DecOk(r.f)
      BY <2>1, <3>1, <3>2, RestoreFacts
    <3> HIDE DEF r
    <3> QED  BY <2>2, <3>3, <3>4, AfterFacts
  <2> QED  BY <2>3, <2>4
<1> QED  BY <1>1, <1>2

LEMMA TryFirstFacts ==
    ASSUME PlainBooks, NEW w, DecOk(w.f), NEW id \in Mats
    PROVE  DecOk(TryMore(w, id).f)
<1> DEFINE p == InMatrix(Head(w.todo).pos, w.f.mats[id].book)
           d == Head(w.todo).dir
           r == TryDir(w.f, id, p, d)
<1>1. DecOk(r.f)
  <2> HIDE DEF p, d
  <2>1. CASE HasLine(p, w.f.mats[id].book, d)
    BY <2>1, TryLineFacts DEF TryDir
  <2>2. CASE ~HasLine(p, w.f.mats[id].book, d)
    BY <2>2 DEF TryDir
  <2> QED  BY <2>1, <2>2
<1>2. TryFirst(w, id) = [f |-> r.f, todo |-> r.todo \o Tail(w.todo)]
  BY DEF TryFirst
<1> HIDE DEF r
<1>3. DecOk(TryFirst(w, id).f)
  BY <1>1, <1>2
<1> QED  BY <1>3 DEF TryMore

LEMMA TryFacts ==
    ASSUME PlainBooks, NEW w, DecOk(w.f), NEW id \in Mats
    PROVE  DecOk(TryRecovery(w, id))
<1> DEFINE par == w.f.mats[id].par
           most == 4 + 3 * Cardinality(DOMAIN par)
           T == Trying(w, id, most)
           S == {n \in 0 .. most : ~DecOk(T[n].f)}
<1>1. most \in Nat
  <2>1. IsFiniteSet(DOMAIN par)
    BY LinesFinite, FS_Subset DEF DecOk, MatsOk, MatOk, HoldOk
  <2> DEFINE c == Cardinality(DOMAIN par)
  <2>2. c \in Nat
    BY <2>1, FS_CardinalityType
  <2> HIDE DEF c
  <2> QED  BY <2>2 DEF c
<1>2. TryRecovery(w, id) = T[most].f
  BY DEF TryRecovery
<1> HIDE DEF most
<1>3. \A n \in 0 .. most : T[n] = TryBody(w, id, T, n)
  BY <1>1, TryDef
<1> HIDE DEF T
<1>4. S \in SUBSET (0 .. most)
  OBVIOUS
<1>5. 0 \notin S
  BY <1>1, <1>3 DEF TryBody
<1>6. ASSUME NEW n \in 1 .. most, n - 1 \notin S
      PROVE  n \notin S
  <2>1. n - 1 \in 0 .. most /\ n \in 0 .. most /\ n # 0
    BY <1>1
  <2>2. DecOk(T[n - 1].f)
    BY <1>6, <2>1
  <2>3. T[n] = TryMore(T[n - 1], id)
    BY <1>3, <2>1 DEF TryBody
  <2>4. DecOk(T[n].f)
    BY <2>2, <2>3, TryFirstFacts
  <2> QED  BY <2>4
<1> HIDE DEF S
<1>7. S = {}
  BY <1>1, <1>4, <1>5, <1>6, NoLeast
<1>8. most \in 0 .. most
  BY <1>1
<1>9. DecOk(T[most].f)
  BY <1>7, <1>8 DEF S
<1> QED  BY <1>2, <1>9

\* Clear leaves no parity: there are no diagonals.
LEMMA ClearedHold ==
    ASSUME PlainBooks, NEW m, MatOk(m)
    PROVE  DOMAIN ClearedPar(m) = {} /\ \A s : HoldOk(ClearedPar(m), s)
<1>1. ASSUME NEW l \in DOMAIN m.par
      PROVE  l[1] \notin {"U", "D"}
  <2>1. m.par[l] \in Packs /\ m.par[l].line = l
    BY DEF MatOk, HoldOk
  <2>2. m.par[l].book \in Books /\ l[1] \in Book(m.par[l].book).dirs
    BY <2>1 DEF Packs
  <2>3. Book(m.par[l].book).dirs \subseteq {"H", "V"}
    BY <2>2, PlainFacts
  <2> QED  BY <2>2, <2>3
<1>2. {l \in DOMAIN m.par : l[1] \in {"U", "D"} /\ Book(m.book).dirs \cap {"U", "D"} = {}} = {}
  BY <1>1
<1>3. ClearedPar(m) = [l \in {} |-> m.par[l]]
  BY <1>2 DEF ClearedPar, Restrict
<1> QED  BY <1>3 DEF HoldOk

LEMMA ZeroAligned ==
    ASSUME NEW b \in Books
    PROVE  Aligned(0, b)
BY BookFacts, SnModFacts DEF Aligned, SN, Blocks

LEMMA ClearFacts ==
    ASSUME PlainBooks, NEW m, MatOk(m)
    PROVE  /\ MatOk(Clear(m)) /\ DOMAIN Clear(m).par = {} /\ \A s : HoldOk(Clear(m).par, s)
           /\ \A b \in Books : MatOk(InitMatrix(m, b))
<1> DEFINE P == ClearedPar(m)
           a == [m EXCEPT !.using = FALSE]
           c == [a EXCEPT !.start = 0]
           d == [c EXCEPT !.par = P]
           n == Clear(m)
<1>1. DOMAIN P = {} /\ \A s : HoldOk(P, s)
  BY ClearedHold
<1>2. n = [m EXCEPT !.using = FALSE, !.start = 0, !.par = P]
  BY DEF Clear
<1> HIDE DEF P, n
<1>3. n = d
  BY <1>2
<1>4. MatRec(a) /\ a.using = FALSE /\ a.book = m.book /\ a.start = m.start /\ a.par = m.par
  BY MatUsing DEF MatOk
<1> HIDE DEF a
<1>5. MatRec(c) /\ c.using = a.using /\ c.book = a.book /\ c.start = 0 /\ c.par = a.par
  BY <1>4, MatStart
<1> HIDE DEF c
<1>6. MatRec(d) /\ d.using = c.using /\ d.book = c.book /\ d.start = c.start /\ d.par = P
  BY <1>5, MatPar
<1> HIDE DEF d
<1>7. MatOk(n)
  BY <1>1, <1>3, <1>4, <1>5, <1>6, ZeroAligned DEF MatOk
<1>8. ASSUME NEW b \in Books
      PROVE  MatOk(InitMatrix(m, b))
  <2> DEFINE i == InitMatrix(m, b)
  <2>1. i = [using |-> FALSE, book |-> b, start |-> 0, par |-> P]
    BY DEF InitMatrix, P
  <2> HIDE DEF i
  <2>2. MatRec(i) /\ i.using = FALSE /\ i.book = b /\ i.start = 0 /\ i.par = P
    BY <2>1 DEF MatRec
  <2>3. MatOk(i)
    BY <1>1, <2>2, ZeroAligned DEF MatOk
  <2> QED  BY <2>3 DEF i
<1> QED  BY <1>1, <1>3, <1>6, <1>7, <1>8 DEF n

\* The matrix of the block of a parity packet.
LEMMA TakenFacts ==
    ASSUME PlainBooks, NEW m, MatOk(m), NEW k \in Packs, ~TooLate(m, k)
    PROVE  LET t == Taken(m, k) IN
           /\ MatRec(t) /\ t.using = TRUE /\ t.book = k.book /\ t.start = k.start
           /\ HoldOk(t.par, k.start)
<1> DEFINE c == IF Newer(m, k) THEN Clear(m) ELSE m
           a == [c EXCEPT !.using = TRUE]
           b == [a EXCEPT !.book = k.book]
           d == [b EXCEPT !.start = k.start]
           t == Taken(m, k)
<1>1. MatRec(c) /\ HoldOk(c.par, k.start)
  <2>1. CASE Newer(m, k)
    BY <2>1, ClearFacts DEF MatOk
  <2>2. CASE ~Newer(m, k)
    <3>1. ~m.using \/ m.start = k.start
      BY <2>2 DEF TooLate
    <3>2. HoldOk(m.par, m.start) /\ MatRec(m) /\ (~m.using => DOMAIN m.par = {})
      BY DEF MatOk
    <3>3. HoldOk(m.par, k.start)
      BY <3>1, <3>2 DEF HoldOk
    <3> QED  BY <2>2, <3>2, <3>3
  <2> QED  BY <2>1, <2>2
<1>2. t = [c EXCEPT !.using = TRUE, !.book = k.book, !.start = k.start]
  BY DEF Taken
<1> HIDE DEF c, t
<1>3. t = d
  BY <1>2
<1>4. MatRec(a) /\ a.using = TRUE /\ a.book = c.book /\ a.start = c.start /\ a.par = c.par
  BY <1>1, MatUsing
<1> HIDE DEF a
<1>5. MatRec(b) /\ b.using = a.using /\ b.book = k.book /\ b.start = a.start /\ b.par = a.par
  BY <1>4, MatBook
<1> HIDE DEF b
<1>6. MatRec(d) /\ d.using = b.using /\ d.book = b.book /\ d.start = k.start /\ d.par = b.par
  BY <1>5, MatStart
<1> HIDE DEF d
<1> QED  BY <1>1, <1>3, <1>4, <1>5, <1>6 DEF t

LEMMA CachedFacts ==
    ASSUME PlainBooks, NEW f, DecOk(f), NEW id \in Mats, NEW k \in Packs, ~TooLate(f.mats[id], k)
    PROVE  DecOk(Cached(f, id, Taken(f.mats[id], k), k))
<1> DEFINE m == f.mats[id]
           t == Taken(m, k)
           P == With(t.par, k.line, k)
           n == [t EXCEPT !.par = P]
           v == IF m.book = k.book THEN f.book ELSE k.book
           a == [f EXCEPT !.book = v]
           c == [a EXCEPT !.mats[id] = n]
           r == Cached(f, id, t, k)
<1>1. MatOk(m) /\ k.book \in Books /\ Aligned(k.start, k.book)
  BY DEF DecOk, MatsOk, Packs
<1>2. /\ MatRec(t) /\ t.using = TRUE /\ t.book = k.book /\ t.start = k.start
      /\ HoldOk(t.par, k.start)
  BY <1>1, TakenFacts
<1>3. r = [f EXCEPT !.book = v, !.mats[id] = n]
  BY DEF Cached
<1> HIDE DEF t, r
<1>4. HoldOk(P, k.start)
  BY <1>2, WithFacts
<1> HIDE DEF P
<1>5. MatRec(n) /\ n.using = t.using /\ n.book = t.book /\ n.start = t.start /\ n.par = P
  BY <1>2, MatPar
<1> HIDE DEF n
<1>6. MatOk(n)
  BY <1>1, <1>2, <1>4, <1>5 DEF MatOk
<1>7. v \in Books
  BY <1>1 DEF DecOk
<1> HIDE DEF v
<1>8. r = c
  BY <1>3
<1>9. /\ DecRec(a) /\ a.book = v /\ a.cache = f.cache /\ a.max = f.max
      /\ a.num = f.num /\ a.mats = f.mats /\ a.out = f.out
  BY PutBook DEF DecOk
<1> HIDE DEF a
<1>10. DecOk(a)
  BY <1>7, <1>9 DEF DecOk
<1>11. DecOk(c)
  BY <1>6, <1>10, MatsPut
<1> HIDE DEF c
<1> QED  BY <1>8, <1>11 DEF r, t

LEMMA MatIdFacts ==
    ASSUME PlainBooks, NEW x \in SN, NEW b \in Books
    PROVE  MatId(x, b) \in Mats
<1>1. Book(b).block \in {2, 4} /\ x \in Nat /\ Cap \in Nat /\ Cap % 4 = 0 /\ Cap >= 4
  BY PlainFacts, SnModFacts, FourHolds DEF SN, FourFacts
<1> DEFINE r == x % Cap
           d == Book(b).block
           c == Cap \div 2
<1>2. r \in 0 .. Cap - 1
  BY <1>1
<1>3. c \in Nat /\ Cap = 2 * c
  BY <1>1
<1> HIDE DEF r, d, c
<1>4. r \div 2 \in 0 .. c - 1 /\ r \div 4 \in 0 .. c - 1
  BY <1>2, <1>3
<1>5. r \div d \in 0 .. c - 1
  BY <1>1, <1>4 DEF d
<1> QED  BY <1>5 DEF MatId, CachePos, Mats, r, d, c

LEMMA DecodeFacts ==
    ASSUME PlainBooks, NEW f, DecOk(f), NEW k \in Packs
    PROVE  DecOk(Decode(f, k))
<1> DEFINE id == MatId(k.start, k.book)
           m == f.mats[id]
           g == Cached(f, id, Taken(m, k), k)
           h == IF Newer(m, k) THEN Belonging(g, id) ELSE g
           w == TryLine(h, id, k.line, TRUE)
<1>1. id \in Mats
  BY MatIdFacts DEF Packs
<1>2. Decode(f, k) = IF TooLate(m, k) THEN f ELSE TryRecovery(w, id)
  BY DEF Decode, DecodeIn
<1> HIDE DEF id
<1>3. CASE TooLate(m, k)
  BY <1>2, <1>3
<1>4. CASE ~TooLate(m, k)
  <2>1. DecOk(g)
    BY <1>1, <1>4, CachedFacts
  <2> HIDE DEF g
  <2>2. DecOk(h)
    BY <2>1, PopFacts DEF Belonging
  <2> HIDE DEF h
  <2>3. DecOk(w.f)
    BY <1>1, <2>2, TryLineFacts
  <2> HIDE DEF w
  <2>4. DecOk(TryRecovery(w, id))
    BY <1>1, <2>3, TryFacts
  <2> QED  BY <1>2, <1>4, <2>4
<1> QED  BY <1>3, <1>4

LEMMA RecoveredFacts ==
    ASSUME PlainBooks, NEW f, DecOk(f), NEW x
    PROVE  DecOk(Recovered(f, x, MatrixOf(f, x)))
<1> DEFINE I == MatrixOf(f, x)
           w == [f |-> f, todo |-> Tries(CachePos(x), "")]
           id == CHOOSE i \in I : \A j \in I : SearchRank(f, i) <= SearchRank(f, j)
<1>1. I \subseteq Mats
  BY DEF MatrixOf
<1>2. Recovered(f, x, I) = IF I = {} THEN f ELSE TryRecovery(w, id)
  BY DEF Recovered
<1> HIDE DEF I
<1>3. CASE I = {}
  BY <1>2, <1>3 DEF I
<1>4. CASE I # {}
  <2>1. \A i \in I : SearchRank(f, i) = 1 \/ SearchRank(f, i) = 2
    <3> SUFFICES ASSUME NEW i \in I  PROVE SearchRank(f, i) = 1 \/ SearchRank(f, i) = 2
      OBVIOUS
    <3> DEFINE d == Book(f.mats[i].book).block
    <3>1. d = 2 \/ d = 4
      BY <1>1, PlainFacts DEF DecOk, MatsOk, MatOk
    <3>2. SearchRank(f, i) = CASE d = 2 -> 1 [] d = 4 -> 2 [] d = 16 -> 3
      BY DEF SearchRank
    <3> HIDE DEF d
    <3>3. CASE d = 2
      BY <3>2, <3>3
    <3>4. CASE d = 4
      BY <3>2, <3>4
    <3> QED  BY <3>1, <3>3, <3>4
  <2>2. \E i \in I : \A j \in I : SearchRank(f, i) <= SearchRank(f, j)
    <3>1. CASE \E i \in I : SearchRank(f, i) = 1
      BY <2>1, <3>1
    <3>2. CASE \A i \in I : SearchRank(f, i) = 2
      BY <1>4, <3>2
    <3> QED  BY <2>1, <3>1, <3>2
  <2>3. id \in I
    BY <2>2
  <2> HIDE DEF id
  <2>4. DecOk(w.f)
    OBVIOUS
  <2> HIDE DEF w
  <2>5. DecOk(TryRecovery(w, id))
    BY <1>1, <2>3, <2>4, TryFacts
  <2> QED  BY <1>2, <1>4, <2>5 DEF I
<1> QED  BY <1>3, <1>4

\* Some matrices are replaced.
LEMMA MatsAll ==
    ASSUME NEW f, DecOk(f), NEW ms, MatsOk(ms)
    PROVE  DecOk([f EXCEPT !.mats = ms])
<1> DEFINE a == [f EXCEPT !.mats = ms]
<1>1. /\ DecRec(a) /\ a.book = f.book /\ a.cache = f.cache /\ a.max = f.max
      /\ a.num = f.num /\ a.mats = ms /\ a.out = f.out
  BY PutMats DEF DecOk
<1> HIDE DEF a
<1>2. DecOk(a)
  BY <1>1 DEF DecOk
<1> QED  BY <1>2 DEF a

LEMMA ClearUnUsedFacts ==
    ASSUME PlainBooks, NEW f, DecOk(f), NEW pos
    PROVE  DecOk(ClearUnUsed(f, pos))
<1> DEFINE I == {id \in Mats : Lapped(f, f.mats[id], pos)}
           S == UNION {SlotsOf(f.mats[id]) : id \in I} \ {pos}
           ms == [id \in Mats |-> IF id \in I THEN Clear(f.mats[id]) ELSE f.mats[id]]
           g == Pop(f, S)
<1>1. ClearUnUsed(f, pos) = IF f.cache[pos] = {} THEN f ELSE [g EXCEPT !.mats = ms]
  BY DEF ClearUnUsed
<1>2. DecOk(g)
  BY PopFacts
<1> HIDE DEF g
<1>3. MatsOk(ms)
  <2>1. \A id \in Mats : MatOk(f.mats[id]) /\ MatOk(Clear(f.mats[id]))
    BY ClearFacts DEF DecOk, MatsOk
  <2> HIDE DEF I
  <2> QED  BY <2>1 DEF MatsOk
<1> HIDE DEF ms
<1>4. DecOk([g EXCEPT !.mats = ms])
  BY <1>2, <1>3, MatsAll
<1> QED  BY <1>1, <1>4

LEMMA CacheDataFacts ==
    ASSUME PlainBooks, NEW f, DecOk(f), NEW x \in SN
    PROVE  DecOk(CacheDataPack(f, x))
<1> DEFINE g == PushPack(f, {x})
           h == Recovered(g, x, MatrixOf(g, x))
<1>1. DecOk(g)
  BY PushFacts
<1>2. CacheDataPack(f, x) = ClearUnUsed(h, CachePos(x))
  BY DEF CacheDataPack
<1> HIDE DEF g
<1>3. DecOk(h)
  BY <1>1, RecoveredFacts
<1> HIDE DEF h
<1> QED  BY <1>2, <1>3, ClearUnUsedFacts

LEMMA ReleaseFacts ==
    ASSUME PlainBooks, NEW f, DecOk(f), NEW id \in Mats, NEW S
    PROVE  DecOk(Release(f, id, S))
<1> DEFINE g == Pop(f, S)
           m == Clear(g.mats[id])
<1>1. DecOk(g)
  BY PopFacts
<1>2. Release(f, id, S) = [g EXCEPT !.mats[id] = m]
  BY DEF Release
<1> HIDE DEF g
<1>3. MatOk(m)
  BY <1>1, ClearFacts DEF DecOk, MatsOk
<1> HIDE DEF m
<1> QED  BY <1>1, <1>2, <1>3, MatsPut

LEMMA ClearCompleteFacts ==
    ASSUME PlainBooks, NEW f, DecOk(f)
    PROVE  DecOk(ClearComplete(f))
<1> DEFINE c == Cap \div 2
           T == Clearing(f)
           S == {n \in 0 .. c : ~DecOk(T[n])}
<1>1. c \in Nat
  BY SnModFacts
<1>2. ClearComplete(f) = T[c]
  BY DEF ClearComplete
<1>3. \A n \in 0 .. c : T[n] = ClearBody(f, T, n)
  BY ClearDef
<1>4. \A i \in 0 .. c - 1 : i \in Mats
  BY DEF Mats
<1> HIDE DEF T, c
<1>5. S \in SUBSET (0 .. c)
  OBVIOUS
<1>6. 0 \notin S
  BY <1>1, <1>3 DEF ClearBody
<1>7. ASSUME NEW n \in 1 .. c, n - 1 \notin S
      PROVE  n \notin S
  <2> DEFINE i == n - 1
             g == T[n - 1]
  <2>1. i \in 0 .. c /\ n \in 0 .. c /\ n # 0 /\ i \in 0 .. c - 1
    BY <1>1
  <2>2. DecOk(g) /\ i \in Mats
    BY <1>4, <1>7, <2>1
  <2>3. T[n] = ClearMore(g, i)
    BY <1>3, <2>1 DEF ClearBody
  <2> HIDE DEF g, i
  <2>4. DecOk(ClearMore(g, i))
    BY <2>2, ReleaseFacts DEF ClearMore
  <2> QED  BY <2>3, <2>4
<1> HIDE DEF S
<1>8. S = {}
  BY <1>1, <1>5, <1>6, <1>7, NoLeast
<1>9. c \in 0 .. c
  BY <1>1
<1>10. DecOk(T[c])
  BY <1>8, <1>9 DEF S
<1> QED  BY <1>2, <1>10

LEMMA PopAllDecFacts ==
    ASSUME PlainBooks, NEW f, DecOk(f)
    PROVE  DecOk(PopAllDec(f))
<1> DEFINE g == Pop(f, Pos)
           ms == [id \in Mats |-> InitMatrix(g.mats[id], f.book)]
           a == [g EXCEPT !.num = 0]
           c == [a EXCEPT !.mats = ms]
           n == PopAllDec(f)
<1>1. DecOk(g)
  BY PopFacts
<1>2. n = [g EXCEPT !.num = 0, !.mats = ms]
  BY DEF PopAllDec
<1> HIDE DEF g, n
<1>3. f.book \in Books
  BY DEF DecOk
<1>4. MatsOk(ms)
  <2>1. \A id \in Mats : MatOk(InitMatrix(g.mats[id], f.book))
    BY <1>1, <1>3, ClearFacts DEF DecOk, MatsOk
  <2> QED  BY <2>1 DEF MatsOk
<1> HIDE DEF ms
<1>5. n = c
  BY <1>2
<1>6. /\ DecRec(a) /\ a.book = g.book /\ a.cache = g.cache /\ a.max = g.max
      /\ a.num = 0 /\ a.mats = g.mats /\ a.out = g.out
  BY <1>1, PutNum DEF DecOk
<1> HIDE DEF a
<1>7. DecOk(a)
  BY <1>1, <1>6 DEF DecOk
<1>8. DecOk(c)
  BY <1>4, <1>7, MatsAll
<1> HIDE DEF c
<1> QED  BY <1>5, <1>8 DEF n

LEMMA DecInit ==
    ASSUME Init
    PROVE  DecOk(dec)
<1> DEFINE c == [p \in Pos |-> {}]
           m == [using |-> FALSE, book |-> 4, start |-> 0, par |-> NoPar]
           ms == [id \in Mats |-> m]
<1>1. dec = [book |-> 4, cache |-> c, max |-> 0, num |-> 0, out |-> {}, mats |-> ms]
  BY DEF Init
<1>2. CacheOk(c)
  BY DEF CacheOk
<1>3. 4 \in Books
  BY Fec2Assumption
<1>4. MatOk(m)
  <2>1. DOMAIN NoPar = {} /\ HoldOk(NoPar, 0)
    BY DEF NoPar, HoldOk
  <2>2. MatRec(m) /\ m.using = FALSE /\ m.book = 4 /\ m.start = 0 /\ m.par = NoPar
    BY DEF MatRec
  <2> HIDE DEF m
  <2> QED  BY <1>3, <2>1, <2>2, ZeroAligned DEF MatOk
<1> HIDE DEF m
<1>5. MatsOk(ms)
  BY <1>4 DEF MatsOk
<1> HIDE DEF c, ms
<1>6. /\ DecRec(dec) /\ dec.book = 4 /\ dec.cache = c /\ dec.mats = ms /\ dec.out = {}
  BY <1>1 DEF DecRec
<1> QED  BY <1>2, <1>3, <1>5, <1>6 DEF DecOk, OneEach

LEMMA DecStep ==
    ASSUME PlainBooks, EncInv, DecOk(dec), [Next]_vars
    PROVE  DecOk(dec')
<1>1. ASSUME SendPlain(snd)
      PROVE  DecOk(dec')
  BY <1>1 DEF SendPlain, SendData
<1>2. ASSUME NEW fails, SendCoded(snd, fails)
      PROVE  DecOk(dec')
  BY <1>2 DEF SendCoded, SendData
<1>3. ASSUME NEW p \in Flight, ReceiveData(p)
      PROVE  DecOk(dec')
  <2>1. p.data \in SN
    BY <1>3, FlightFacts, PacketKinds DEF EncInv, ReceiveData
  <2> QED  BY <1>3, <2>1, CacheDataFacts DEF ReceiveData, Decoded
<1>4. ASSUME NEW p \in Flight, ReceiveParity(p)
      PROVE  DecOk(dec')
  <2>1. p \in Packs
    BY <1>4, FlightFacts, PacketKinds DEF EncInv, ReceiveParity
  <2> QED  BY <1>4, <2>1, DecodeFacts DEF ReceiveParity, Decoded
<1>5. ASSUME Disturb
      PROVE  DecOk(dec')
  BY <1>5 DEF Disturb
<1>6. ASSUME NEW b, ChangeFecMode(b)
      PROVE  DecOk(dec')
  BY <1>6 DEF ChangeFecMode
<1>7. ASSUME ResetSender
      PROVE  DecOk(dec')
  BY <1>7 DEF ResetSender
<1>8. ASSUME ResetReceiver
      PROVE  DecOk(dec')
  BY <1>8, PopAllDecFacts DEF ResetReceiver
<1>9. ASSUME NEW step, ClearResource(step)
      PROVE  DecOk(dec')
  BY <1>9, ClearCompleteFacts, PopFacts DEF ClearResource, ClearOld
<1>10. ASSUME UNCHANGED vars
       PROVE  DecOk(dec')
  BY <1>10 DEF vars
<1> QED  BY <1>1, <1>2, <1>3, <1>4, <1>5, <1>6, <1>7, <1>8, <1>9, <1>10, Zenon DEF Next

\* With the books APPLICATION_TYPE 2 selects from, for every ring and width of
\* numbers, and without a bound on what is sent or goes wrong: what the decoder
\* hands over as restored (RestoreDataByHDir, RestoreDataByVDir) is a packet
\* that was sent, never an XOR with packets of another block or book.
THEOREM RestoredWasSentHolds ==
    ASSUME PlainBooks
    PROVE  Spec => []RestoredWasSent
<1> DEFINE Inv == EncInv /\ DecOk(dec)
<1>1. Init => Inv
  BY EncInit, DecInit, Zenon
<1>2. Inv /\ [Next]_vars => Inv'
  BY EncStep, DecStep, Zenon
<1>3. Inv => RestoredWasSent
  BY DEF DecOk, OneEach, RestoredWasSent
<1> QED  BY <1>1, <1>2, <1>3, PTL DEF Spec
=============================================================================
