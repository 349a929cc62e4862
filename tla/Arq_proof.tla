----------------------------- MODULE Arq_proof -----------------------------
(***************************************************************************)
(* Proofs about the list of unconfirmed packets, for every number of       *)
(* frames, every setting and every sequence of losses and reports:         *)
(*   - the list is in the order in which its packets were last sent;       *)
(*   - a frame a report has confirmed has no node left, as long as the     *)
(*     array of the frames dropped by one report does not overflow;        *)
(*   - a frame is sent a bounded number of times.                          *)
(***************************************************************************)
EXTENDS Arq, SequenceTheorems, FiniteSetTheorems, WellFoundedInduction, TLAPS

-----------------------------------------------------------------------------
(* Least and greatest elements *)

\* A set of naturals that is not empty has a least element.
LEMMA LeastOf ==
    ASSUME NEW T, T \subseteq Nat, T # {}
    PROVE  \E x \in T : \A y \in T : x <= y
<1>1. \E R : /\ \A x, y \in Nat : <<y, x>> \in R <=> y < x
             /\ \E x \in T : \A y \in T : ~ (<<y, x>> \in R)
  <2>1. \E x \in T : \A y \in T : ~ (<<y, x>> \in OpToRel(<, Nat))
    BY NatLessThanWellFounded, WFMin
  <2>2. \A x, y \in Nat : <<y, x>> \in OpToRel(<, Nat) <=> y < x
    BY DEF OpToRel
  <2> QED  BY <2>1, <2>2, Zenon
<1>2. PICK R : /\ \A x, y \in Nat : <<y, x>> \in R <=> y < x
               /\ \E x \in T : \A y \in T : ~ (<<y, x>> \in R)
  BY <1>1
<1>3. PICK x \in T : \A y \in T : ~ (<<y, x>> \in R)
  BY <1>2
<1>4. \A y \in T : ~ (y < x)
  BY <1>2, <1>3
<1> QED  BY <1>4

LEMMA MinOf ==
    ASSUME NEW T, T \subseteq Nat, T # {}
    PROVE  Min(T) \in T /\ \A y \in T : Min(T) <= y
BY LeastOf DEF Min

\* A finite set has a greatest one, too: otherwise the next larger element would map the
\* set one to one into itself without reaching the least element.
LEMMA FiniteMax ==
    ASSUME NEW T, T \subseteq Nat, T # {}, IsFiniteSet(T)
    PROVE  Max(T) \in T /\ \A y \in T : Max(T) >= y
<1>1. \E x \in T : \A y \in T : x >= y
  <2> SUFFICES ASSUME \A x \in T : \E y \in T : ~(x >= y)
               PROVE  FALSE
    OBVIOUS
  <2> DEFINE Above(x) == {y \in T : y > x}
             f == [x \in T |-> Min(Above(x))]
  <2>1. \A x \in T : Min(Above(x)) \in Above(x) /\ \A y \in Above(x) : Min(Above(x)) <= y
    <3> TAKE x \in T
    <3>1. PICK y \in T : ~(x >= y)
      OBVIOUS
    <3>2. x \in Nat /\ y \in Nat
      OBVIOUS
    <3>3. y \in Above(x)
      BY <3>1, <3>2
    <3>4. Above(x) \subseteq Nat
      OBVIOUS
    <3> HIDE DEF Above
    <3> QED  BY <3>3, <3>4, MinOf
  <2>2. \A x \in T : /\ f[x] \in T /\ f[x] > x
                     /\ \A y \in T : y > x => f[x] <= y
    BY <2>1
  <2>3. f \in [T -> T]
    BY <2>1
  <2> HIDE DEF f
  <2>4. f \in Injection(T, T)
    <3>1. \A x, y \in T : f[x] = f[y] => x = y
      <4> SUFFICES ASSUME NEW x \in T, NEW y \in T, f[x] = f[y]  PROVE x = y
        OBVIOUS
      <4>1. x \in Nat /\ y \in Nat /\ f[x] \in Nat /\ f[y] \in Nat
        BY <2>2
      <4>2. ~(x < y) /\ ~(y < x)
        BY <2>2, <4>1
      <4> QED  BY <4>1, <4>2
    <3> QED  BY <2>3, <3>1 DEF Injection, IsInjective
  <2>5. f \in Surjection(T, T)
    BY <2>4, FS_Injection
  <2>6. PICK z \in T : f[z] = Min(T)
    BY <2>5, MinOf DEF Surjection
  <2>7. Min(T) \in T /\ Min(T) <= z
    BY MinOf
  <2>8. Min(T) \in Nat /\ z \in Nat /\ Min(T) > z
    BY <2>2, <2>6, <2>7
  <2> QED  BY <2>7, <2>8
<1> QED  BY <1>1 DEF Max

-----------------------------------------------------------------------------
(* Sequences *)

IsSeq(l) == \E S : l \in Seq(S)

LEMMA SeqFacts ==
    ASSUME NEW l, IsSeq(l)
    PROVE  Len(l) \in Nat /\ DOMAIN l = 1 .. Len(l)
<1>1. PICK S : l \in Seq(S)
  BY DEF IsSeq
<1> QED  BY <1>1, LenProperties

LEMMA AppendFacts ==
    ASSUME NEW l, NEW e, IsSeq(l)
    PROVE  /\ IsSeq(Append(l, e)) /\ Len(Append(l, e)) = Len(l) + 1
           /\ DOMAIN Append(l, e) = 1 .. Len(l) + 1
           /\ \A k \in 1 .. Len(l) : Append(l, e)[k] = l[k]
           /\ Append(l, e)[Len(l) + 1] = e
<1>1. PICK S : l \in Seq(S)
  BY DEF IsSeq
<1>2. l \in Seq(S \cup {e}) /\ e \in S \cup {e}
  BY <1>1, SeqMonotonic
<1>3. Append(l, e) \in Seq(S \cup {e})
  BY <1>2, AppendProperties
<1> QED  BY <1>2, <1>3, AppendProperties, LenProperties DEF IsSeq

LEMMA RemoveFacts ==
    ASSUME NEW l, IsSeq(l), NEW i \in 1 .. Len(l)
    PROVE  /\ IsSeq(RemoveAt(l, i)) /\ Len(RemoveAt(l, i)) = Len(l) - 1
           /\ \A k \in 1 .. Len(l) - 1 :
                RemoveAt(l, i)[k] = IF k < i THEN l[k] ELSE l[k + 1]
<1>1. PICK S : l \in Seq(S)
  BY DEF IsSeq
<1> DEFINE a == SubSeq(l, 1, i - 1)
           b == SubSeq(l, i + 1, Len(l))
<1>2. Len(l) \in Nat /\ \A k \in 1 .. Len(l) : l[k] \in S
  BY <1>1, LenProperties
<1>3. /\ a \in Seq(S) /\ Len(a) = i - 1
      /\ \A k \in 1 .. i - 1 : a[k] = l[k]
  <2>1. 1 \in Int /\ i - 1 \in Int /\ \A k \in 1 .. i - 1 : l[k] \in S
    BY <1>2
  <2> QED  BY <1>2, <2>1, SubSeqProperties
<1>4. /\ b \in Seq(S) /\ Len(b) = Len(l) - i
      /\ \A k \in 1 .. Len(l) - i : b[k] = l[i + k]
  <2>1. i + 1 \in Int /\ Len(l) \in Int /\ \A k \in i + 1 .. Len(l) : l[k] \in S
    BY <1>2
  <2> QED  BY <1>2, <2>1, SubSeqProperties
<1> HIDE DEF a, b
<1>5. /\ a \o b \in Seq(S) /\ Len(a \o b) = Len(l) - 1
      /\ \A k \in 1 .. Len(l) - 1 : (a \o b)[k] = IF k < i THEN l[k] ELSE l[k + 1]
  <2>1. /\ a \o b \in Seq(S) /\ Len(a \o b) = Len(a) + Len(b)
        /\ \A k \in 1 .. Len(a) + Len(b) :
             (a \o b)[k] = IF k <= Len(a) THEN a[k] ELSE b[k - Len(a)]
    BY <1>3, <1>4, ConcatProperties
  <2>2. Len(a) + Len(b) = Len(l) - 1
    BY <1>2, <1>3, <1>4
  <2>3. ASSUME NEW k \in 1 .. Len(l) - 1
        PROVE  (a \o b)[k] = IF k < i THEN l[k] ELSE l[k + 1]
    <3>1. CASE k < i
      <4>1. k \in 1 .. i - 1 /\ k <= Len(a)
        BY <1>2, <1>3, <3>1
      <4> QED  BY <1>3, <2>1, <2>2, <3>1, <4>1
    <3>2. CASE ~(k < i)
      <4>1. /\ k - Len(a) \in 1 .. Len(l) - i /\ ~(k <= Len(a))
            /\ i + (k - Len(a)) = k + 1
        BY <1>2, <1>3, <3>2
      <4>2. b[k - Len(a)] = l[k + 1]
        BY <1>4, <4>1
      <4> QED  BY <2>1, <2>2, <3>2, <4>1, <4>2
    <3> QED  BY <3>1, <3>2
  <2> QED  BY <2>1, <2>2, <2>3
<1> QED  BY <1>5 DEF RemoveAt, IsSeq, a, b

\* The positions kept have the ranks 1 .. Cardinality(keep), one each.
LEMMA RankFacts ==
    ASSUME NEW n \in Nat, NEW keep, keep \subseteq 1 .. n
    PROVE  /\ Cardinality(keep) \in Nat
           /\ \A k \in keep : Cardinality({i \in keep : i <= k}) \in 1 .. Cardinality(keep)
           /\ \A j, k \in keep : j < k =>
                Cardinality({i \in keep : i <= j}) < Cardinality({i \in keep : i <= k})
           /\ \A j \in 1 .. Cardinality(keep) :
                \E k \in keep : Cardinality({i \in keep : i <= k}) = j
<1> DEFINE upto(k) == {i \in keep : i <= k}
           c == Cardinality(keep)
           r == [k \in keep |-> Cardinality(upto(k))]
<1>1. IsFiniteSet(keep)
  BY FS_Interval, FS_Subset, 1 \in Int, n \in Int
<1>2. c \in Nat
  BY <1>1, FS_CardinalityType
<1>3. \A k \in keep : IsFiniteSet(upto(k)) /\ Cardinality(upto(k)) \in 1 .. c
  <2> TAKE k \in keep
  <2>1. upto(k) \in SUBSET keep
    OBVIOUS
  <2>2. IsFiniteSet(upto(k)) /\ Cardinality(upto(k)) <= c
    BY <1>1, <2>1, FS_Subset
  <2>3. Cardinality(upto(k)) \in Nat
    BY <2>2, FS_CardinalityType
  <2>4. k \in upto(k)
    OBVIOUS
  <2>5. Cardinality(upto(k)) # 0
    BY <2>2, <2>4, FS_EmptySet
  <2> HIDE DEF upto, c
  <2> QED  BY <1>2, <2>2, <2>3, <2>5
<1>4. \A j, k \in keep : j < k => Cardinality(upto(j)) < Cardinality(upto(k))
  <2> SUFFICES ASSUME NEW j \in keep, NEW k \in keep, j < k
               PROVE  Cardinality(upto(j)) < Cardinality(upto(k))
    OBVIOUS
  <2>0. j \in Nat /\ k \in Nat /\ \A i \in keep : i \in Nat
    OBVIOUS
  <2>1. upto(j) \in SUBSET upto(k) /\ k \in upto(k) /\ k \notin upto(j)
    <3>1. \A i \in keep : i <= j => i <= k
      BY <2>0
    <3>2. k <= k /\ ~(k <= j)
      BY <2>0
    <3> QED  BY <3>1, <3>2
  <2>2. /\ Cardinality(upto(j)) <= Cardinality(upto(k))
        /\ Cardinality(upto(j)) # Cardinality(upto(k))
    BY <1>3, <2>1, FS_Subset
  <2> HIDE DEF upto, c
  <2> QED  BY <1>2, <1>3, <2>2
<1>5. r \in Injection(keep, 1 .. c)
  <2>1. r \in [keep -> 1 .. c]
    BY <1>3
  <2>2. \A j, k \in keep : r[j] = r[k] => j = k
    <3> SUFFICES ASSUME NEW j \in keep, NEW k \in keep, j # k
                 PROVE  r[j] # r[k]
      OBVIOUS
    <3>1. j < k \/ k < j
      OBVIOUS
    <3>2. r[j] < r[k] \/ r[k] < r[j]
      BY <1>4, <3>1
    <3>3. r[j] \in Int /\ r[k] \in Int
      BY <2>1, <1>2
    <3> QED  BY <3>2, <3>3
  <2> QED  BY <2>1, <2>2 DEF Injection, IsInjective
<1>6. IsFiniteSet(1 .. c) /\ Cardinality(1 .. c) = c
  BY <1>2, FS_Interval
<1>7. r \in Surjection(keep, 1 .. c)
  BY <1>5, <1>6, FS_Injection
<1>8. \A j \in 1 .. c : \E k \in keep : Cardinality(upto(k)) = j
  BY <1>7 DEF Surjection
<1> QED  BY <1>2, <1>3, <1>4, <1>8

\* A list made of the nodes of another one, in the same order.
Thinned(m, l) ==
    /\ IsSeq(m)
    /\ \E p \in [1 .. Len(m) -> 1 .. Len(l)] :
          /\ \A j, k \in 1 .. Len(m) : j < k => p[j] < p[k]
          /\ \A j \in 1 .. Len(m) : m[j] = l[p[j]]

\* It has the nodes at the positions in keep and no others.
Keeps(m, l, keep) ==
    /\ Thinned(m, l)
    /\ \A k \in keep : \E j \in 1 .. Len(m) : m[j] = l[k]
    /\ \A j \in 1 .. Len(m) : \E k \in keep : m[j] = l[k]

LEMMA KeptFacts ==
    ASSUME NEW l, IsSeq(l), NEW keep, keep \subseteq 1 .. Len(l)
    PROVE  Keeps(Kept(l, keep), l, keep)
<1> DEFINE c == Cardinality(keep)
           rank(k) == Cardinality({i \in keep : i <= k})
           at(j) == CHOOSE k \in keep : rank(k) = j
           m == Kept(l, keep)
<1>1. Len(l) \in Nat
  BY SeqFacts
<1>0. \A k \in keep : k \in Int
  BY <1>1
<1>2. /\ c \in Nat
      /\ \A k \in keep : rank(k) \in 1 .. c
      /\ \A j, k \in keep : j < k => rank(j) < rank(k)
      /\ \A j \in 1 .. c : \E k \in keep : rank(k) = j
  BY <1>1, RankFacts
<1> HIDE DEF rank, c
<1>3. \A j \in 1 .. c : at(j) \in keep /\ rank(at(j)) = j
  BY <1>2
<1>4. m = [j \in 1 .. c |-> l[at(j)]]
  BY DEF Kept, c, rank
<1>5. m \in Seq({l[k] : k \in keep})
  <2>1. \A j \in 1 .. c : l[at(j)] \in {l[k] : k \in keep}
    BY <1>3
  <2>2. m \in [1 .. c -> {l[k] : k \in keep}]
    BY <1>4, <2>1
  <2> QED  BY <1>2, <2>2, SeqDef
<1>6. Len(m) = c /\ \A j \in 1 .. c : m[j] = l[at(j)]
  <2>1. DOMAIN m = 1 .. c /\ \A j \in 1 .. c : m[j] = l[at(j)]
    BY <1>4
  <2>2. DOMAIN m = 1 .. Len(m) /\ Len(m) \in Nat
    BY <1>5, LenProperties
  <2> HIDE DEF m
  <2>3. Len(m) = c
    BY <1>2, <2>1, <2>2
  <2> QED  BY <2>1, <2>3
<1> HIDE DEF m
<1>7. \A j, k \in 1 .. c : j < k => at(j) < at(k)
  <2> SUFFICES ASSUME NEW j \in 1 .. c, NEW k \in 1 .. c, j < k
               PROVE  at(j) < at(k)
    OBVIOUS
  <2>1. at(j) \in keep /\ at(k) \in keep /\ rank(at(j)) = j /\ rank(at(k)) = k
    BY <1>3
  <2> HIDE DEF at
  <2>2. at(j) \in Int /\ at(k) \in Int
    BY <1>0, <2>1
  <2>3. ~(at(k) < at(j)) /\ at(k) # at(j)
    <3>1. ~(k < j) /\ j # k
      OBVIOUS
    <3> QED  BY <1>2, <2>1, <3>1
  <2> QED  BY <2>2, <2>3
<1>8. \A k \in keep : at(rank(k)) = k
  <2> TAKE k \in keep
  <2>1. rank(k) \in 1 .. c
    BY <1>2
  <2>2. at(rank(k)) \in keep /\ rank(at(rank(k))) = rank(k)
    BY <1>3, <2>1
  <2> HIDE DEF at
  <2>3. ~(rank(k) < rank(k))
    BY <1>2, <2>1
  <2>4. ~(at(rank(k)) < k) /\ ~(k < at(rank(k)))
    BY <1>2, <2>2, <2>3
  <2>5. at(rank(k)) \in Int /\ k \in Int
    BY <1>0, <2>2
  <2> QED  BY <2>4, <2>5
<1>9. \A j \in 1 .. c : at(j) \in keep
  BY <1>3
<1> HIDE DEF at
<1>10. Thinned(m, l)
  <2> DEFINE p == [j \in 1 .. Len(m) |-> at(j)]
  <2>1. p \in [1 .. Len(m) -> 1 .. Len(l)]
    BY <1>6, <1>9
  <2>2. \A j, k \in 1 .. Len(m) : j < k => p[j] < p[k]
    BY <1>6, <1>7
  <2>3. \A j \in 1 .. Len(m) : m[j] = l[p[j]]
    BY <1>6
  <2>4. IsSeq(m)
    BY <1>5 DEF IsSeq
  <2> HIDE DEF p
  <2> QED  BY <2>1, <2>2, <2>3, <2>4 DEF Thinned
<1>11. \A k \in keep : \E j \in 1 .. Len(m) : m[j] = l[k]
  BY <1>2, <1>6, <1>8
<1>12. \A j \in 1 .. Len(m) : \E k \in keep : m[j] = l[k]
  BY <1>6, <1>9
<1>13. Keeps(m, l, keep)
  BY <1>10, <1>11, <1>12 DEF Keeps
<1> QED  BY <1>13 DEF m

LEMMA RemoveThins ==
    ASSUME NEW l, IsSeq(l), NEW i \in 1 .. Len(l)
    PROVE  /\ Thinned(RemoveAt(l, i), l) /\ Len(RemoveAt(l, i)) = Len(l) - 1
           /\ \A k \in 1 .. Len(l) : k # i =>
                \E j \in 1 .. Len(l) - 1 : RemoveAt(l, i)[j] = l[k]
<1> DEFINE m == RemoveAt(l, i)
           p == [k \in 1 .. Len(l) - 1 |-> IF k < i THEN k ELSE k + 1]
<1>1. Len(l) \in Nat
  BY SeqFacts
<1>2. /\ IsSeq(m) /\ Len(m) = Len(l) - 1
      /\ \A k \in 1 .. Len(l) - 1 : m[k] = IF k < i THEN l[k] ELSE l[k + 1]
  BY RemoveFacts
<1> HIDE DEF m
<1>3. p \in [1 .. Len(m) -> 1 .. Len(l)]
  BY <1>1, <1>2
<1>4. \A k \in 1 .. Len(m) : p[k] = IF k < i THEN k ELSE k + 1
  BY <1>2
<1>5. Thinned(m, l)
  <2> HIDE DEF p
  <2>1. \A j, k \in 1 .. Len(m) : j < k => p[j] < p[k]
    BY <1>1, <1>2, <1>4
  <2>2. \A j \in 1 .. Len(m) : m[j] = l[p[j]]
    BY <1>2, <1>4
  <2> QED  BY <1>2, <1>3, <2>1, <2>2 DEF Thinned
<1>6. \A k \in 1 .. Len(l) : k # i => \E j \in 1 .. Len(l) - 1 : m[j] = l[k]
  <2> SUFFICES ASSUME NEW k \in 1 .. Len(l), k # i
               PROVE  \E j \in 1 .. Len(l) - 1 : m[j] = l[k]
    OBVIOUS
  <2>1. CASE k < i
    <3>1. k \in 1 .. Len(l) - 1 /\ m[k] = l[k]
      BY <1>1, <1>2, <2>1
    <3> QED  BY <3>1
  <2>2. CASE k > i
    <3>1. k - 1 \in 1 .. Len(l) - 1 /\ m[k - 1] = l[k]
      BY <1>1, <1>2, <2>2
    <3> QED  BY <3>1
  <2> QED  BY <1>1, <2>1, <2>2
<1> QED  BY <1>2, <1>5, <1>6 DEF m

-----------------------------------------------------------------------------
(* The inductive invariants *)

Fields == {"sn", "first", "cnt", "age", "boost", "twin", "thr", "again"}

\* What Copies counts, for the numbers s given out so far.
TimesIn(s, f) == Cardinality({k \in DOMAIN s : s[k] = f})

\* A node knows the number of its last copy and has counted no more
\* retransmissions than there are, and its limit is a number.
NodeOk(n, s) ==
    /\ DOMAIN n = Fields
    /\ n.sn \in Nat /\ n.sn < Len(s) /\ s[n.sn + 1] = n.first
    /\ n.cnt \in Nat /\ n.cnt < TimesIn(s, n.first)
    /\ n.thr \in Nat
Good(l, s) ==
    /\ IsSeq(l)
    /\ \A k \in 1 .. Len(l) : NodeOk(l[k], s)
    /\ \A j, k \in 1 .. Len(l) : j < k => l[j].sn <= l[k].sn

SentOk(s) == IsSeq(s) /\ \A k \in 1 .. Len(s) : s[k] \in Nat /\ s[k] < k

ListInv ==
    /\ SentOk(sent)
    /\ Good(list, sent)
    /\ knobs.maxRetran \in Retrans /\ knobs.maxBoost \in Boosts \cup {0}
    /\ DOMAIN walk = {"kind", "i", "fb", "firsts"}
    /\ walk.kind \in {"idle", "rto", "report"}
    /\ walk.i \in 0 .. Len(list) /\ IsSeq(walk.firsts)
    /\ DOMAIN hist = {"free", "conf", "rcvd"}

\* A confirmed frame is listed only while the report that confirmed it is
\* being worked on, and then it is among those dropped at the end.
ConfInv ==
    /\ \A f \in hist.conf : \E k \in 1 .. Len(sent) : sent[k] = f
    /\ \A k \in 1 .. Len(list) : list[k].first \in hist.conf =>
          /\ walk.kind = "report"
          /\ \E j \in 1 .. Len(walk.firsts) : walk.firsts[j] = list[k].first

-----------------------------------------------------------------------------
(* What the operators do to good lists *)

LEMMA TimesType ==
    ASSUME NEW s, IsSeq(s), NEW f
    PROVE  TimesIn(s, f) \in Nat
<1>1. Len(s) \in Nat /\ DOMAIN s = 1 .. Len(s)
  BY SeqFacts
<1>2. {k \in DOMAIN s : s[k] = f} \in SUBSET (1 .. Len(s))
  BY <1>1
<1>3. IsFiniteSet(1 .. Len(s))
  BY <1>1, FS_Interval
<1> QED  BY <1>2, <1>3, FS_Subset, FS_CardinalityType DEF TimesIn

\* Sending a copy of f counts for f and for no other frame.
LEMMA TimesGrow ==
    ASSUME NEW s, IsSeq(s), NEW f, NEW g
    PROVE  /\ TimesIn(s, g) <= TimesIn(Append(s, f), g)
           /\ g = f => TimesIn(Append(s, f), g) = TimesIn(s, g) + 1
<1> DEFINE S == {k \in DOMAIN s : s[k] = g}
           T == {k \in DOMAIN Append(s, f) : Append(s, f)[k] = g}
<1>1. Len(s) \in Nat /\ DOMAIN s = 1 .. Len(s)
  BY SeqFacts
<1>2. /\ DOMAIN Append(s, f) = 1 .. Len(s) + 1
      /\ \A k \in 1 .. Len(s) : Append(s, f)[k] = s[k]
      /\ Append(s, f)[Len(s) + 1] = f
  BY AppendFacts
<1>3. IsFiniteSet(S) /\ Len(s) + 1 \notin S
  <2>1. S \in SUBSET (1 .. Len(s))
    BY <1>1
  <2>2. IsFiniteSet(1 .. Len(s))
    BY <1>1, FS_Interval
  <2>3. IsFiniteSet(S)
    BY <2>1, <2>2, FS_Subset
  <2>4. Len(s) + 1 \notin 1 .. Len(s)
    BY <1>1
  <2> HIDE DEF S
  <2> QED  BY <2>1, <2>3, <2>4
<1>4. Cardinality(S \cup {Len(s) + 1}) = Cardinality(S) + 1 /\ Cardinality(S) \in Nat
  BY <1>3, FS_AddElement, FS_CardinalityType
<1>5. CASE g = f
  <2>1. T = S \cup {Len(s) + 1}
    BY <1>1, <1>2, <1>5
  <2> HIDE DEF S, T
  <2>2. Cardinality(T) = Cardinality(S) + 1
    BY <1>4, <2>1
  <2>3. Cardinality(S) <= Cardinality(T)
    BY <1>4, <2>2
  <2> QED  BY <2>2, <2>3 DEF S, T, TimesIn
<1>6. CASE g # f
  <2>1. T = S
    BY <1>1, <1>2, <1>6
  <2> HIDE DEF S, T
  <2>2. Cardinality(S) <= Cardinality(T)
    BY <1>4, <2>1
  <2> QED  BY <1>6, <2>2 DEF S, T, TimesIn
<1> QED  BY <1>5, <1>6

LEMMA SentGrows ==
    ASSUME NEW s, SentOk(s), NEW f \in Nat, f <= Len(s)
    PROVE  SentOk(Append(s, f))
<1>1. IsSeq(s) /\ Len(s) \in Nat
  BY SeqFacts DEF SentOk
<1>2. /\ IsSeq(Append(s, f)) /\ Len(Append(s, f)) = Len(s) + 1
      /\ \A k \in 1 .. Len(s) : Append(s, f)[k] = s[k]
      /\ Append(s, f)[Len(s) + 1] = f
  BY <1>1, AppendFacts
<1>3. \A k \in 1 .. Len(s) : s[k] \in Nat /\ s[k] < k
  BY DEF SentOk
<1>4. \A k \in 1 .. Len(s) + 1 : k \in 1 .. Len(s) \/ k = Len(s) + 1
  BY <1>1
<1> QED  BY <1>1, <1>2, <1>3, <1>4 DEF SentOk

LEMMA NodeGrows ==
    ASSUME NEW s, IsSeq(s), NEW f, NEW n, NodeOk(n, s)
    PROVE  NodeOk(n, Append(s, f))
<1>1. Len(s) \in Nat
  BY SeqFacts
<1>2. /\ Len(Append(s, f)) = Len(s) + 1
      /\ \A k \in 1 .. Len(s) : Append(s, f)[k] = s[k]
  BY AppendFacts
<1>3. /\ TimesIn(s, n.first) <= TimesIn(Append(s, f), n.first)
      /\ TimesIn(s, n.first) \in Nat /\ TimesIn(Append(s, f), n.first) \in Nat
  BY TimesGrow, TimesType, AppendFacts
<1>4. n.sn + 1 \in 1 .. Len(s) /\ n.sn < Len(s) + 1
  BY <1>1 DEF NodeOk
<1>5. n.cnt < TimesIn(Append(s, f), n.first)
  BY <1>3 DEF NodeOk
<1> QED  BY <1>2, <1>4, <1>5 DEF NodeOk

LEMMA GoodGrows ==
    ASSUME NEW l, NEW s, Good(l, s), IsSeq(s), NEW f
    PROVE  Good(l, Append(s, f))
BY NodeGrows DEF Good

LEMMA GoodThinned ==
    ASSUME NEW l, NEW m, NEW s, Good(l, s), Thinned(m, l)
    PROVE  Good(m, s)
<1>1. PICK p \in [1 .. Len(m) -> 1 .. Len(l)] :
          /\ \A j, k \in 1 .. Len(m) : j < k => p[j] < p[k]
          /\ \A j \in 1 .. Len(m) : m[j] = l[p[j]]
  BY DEF Thinned
<1>2. \A j \in 1 .. Len(m) : p[j] \in 1 .. Len(l)
  BY <1>1
<1>3. \A k \in 1 .. Len(m) : NodeOk(m[k], s)
  BY <1>1, <1>2 DEF Good
<1>4. \A j, k \in 1 .. Len(m) : j < k => m[j].sn <= m[k].sn
  BY <1>1, <1>2 DEF Good
<1> QED  BY <1>3, <1>4 DEF Good, Thinned

\* What was sent last goes to the tail.
LEMMA GoodPush ==
    ASSUME NEW l, NEW s, Good(l, s), IsSeq(s), NEW e, NodeOk(e, s), e.sn = Len(s) - 1
    PROVE  Good(Append(l, e), s)
<1>1. Len(s) \in Nat /\ IsSeq(l) /\ Len(l) \in Nat
  BY SeqFacts DEF Good
<1> DEFINE m == Append(l, e)
<1>2. /\ IsSeq(m) /\ Len(m) = Len(l) + 1
      /\ \A k \in 1 .. Len(l) : m[k] = l[k]
      /\ m[Len(l) + 1] = e
  BY <1>1, AppendFacts
<1> HIDE DEF m
<1>3. \A k \in 1 .. Len(l) + 1 : k \in 1 .. Len(l) \/ k = Len(l) + 1
  BY <1>1
<1>4. \A k \in 1 .. Len(l) : NodeOk(l[k], s) /\ l[k].sn <= e.sn
  BY <1>1 DEF Good, NodeOk
<1>5. \A k \in 1 .. Len(m) : NodeOk(m[k], s)
  BY <1>2, <1>3, <1>4
<1>6. ASSUME NEW j \in 1 .. Len(m), NEW k \in 1 .. Len(m), j < k
      PROVE  m[j].sn <= m[k].sn
  <2>1. j \in 1 .. Len(l)
    BY <1>1, <1>2, <1>6
  <2>2. CASE k \in 1 .. Len(l)
    BY <1>2, <1>6, <2>1, <2>2 DEF Good
  <2>3. CASE k = Len(l) + 1
    BY <1>2, <1>4, <2>1, <2>3
  <2> QED  BY <1>2, <1>3, <2>2, <2>3
<1>7. Good(m, s)
  BY <1>2, <1>5, <1>6 DEF Good
<1> QED  BY <1>7 DEF m

\* CloneBoostNode and PackRetransmit keep what a node must be.
LEMMA CloneFacts ==
    ASSUME NEW n, NEW s, IsSeq(s), NodeOk(n, s)
    PROVE  NodeOk(Clone(n), s) /\ Clone(n).sn = n.sn /\ Clone(n).first = n.first
<1>1. TimesIn(s, n.first) \in Nat
  BY TimesType
<1>2. /\ DOMAIN Clone(n) = Fields /\ Clone(n).sn = n.sn /\ Clone(n).first = n.first
      /\ Clone(n).cnt = 0 /\ Clone(n).thr = n.thr
  BY DEF Clone, NodeOk, Fields
<1>3. 0 < TimesIn(s, n.first)
  BY <1>1 DEF NodeOk
<1> HIDE DEF Clone
<1> QED  BY <1>2, <1>3 DEF NodeOk

LEMMA GoodClone ==
    ASSUME NEW l, NEW s, Good(l, s), IsSeq(s), NEW n, NodeOk(n, s), n.sn = Len(s) - 1, NEW ok
    PROVE  Good(Cloned(l, n, ok), s)
BY CloneFacts, GoodPush DEF Cloned

LEMMA ResentFacts ==
    ASSUME NEW n, SentOk(sent), NodeOk(n, sent)
    PROVE  /\ NodeOk(Resent(n), Append(sent, n.first))
           /\ Resent(n).sn = Len(sent) /\ Resent(n).first = n.first
<1> DEFINE s == Append(sent, n.first)
<1>1. Len(sent) \in Nat /\ IsSeq(sent)
  BY SeqFacts DEF SentOk
<1>2. Len(s) = Len(sent) + 1 /\ s[Len(sent) + 1] = n.first
  BY <1>1, AppendFacts
<1>3. /\ TimesIn(s, n.first) = TimesIn(sent, n.first) + 1
      /\ TimesIn(sent, n.first) \in Nat
  BY <1>1, TimesGrow, TimesType
<1>4. /\ DOMAIN Resent(n) = Fields /\ Resent(n).sn = Len(sent) /\ Resent(n).first = n.first
      /\ Resent(n).cnt = n.cnt + 1 /\ Resent(n).thr = n.thr
  BY DEF Resent, NodeOk, Fields, NewSn
<1> HIDE DEF s
<1>5. n.cnt + 1 \in Nat /\ n.cnt + 1 < TimesIn(s, n.first)
  BY <1>3 DEF NodeOk
<1>6. NodeOk(Resent(n), s)
  BY <1>1, <1>2, <1>4, <1>5 DEF NodeOk
<1> QED  BY <1>4, <1>6 DEF s

LEMMA AgainFacts ==
    ASSUME NEW n, SentOk(sent), NodeOk(n, sent), NEW ok
    PROVE  /\ NodeOk(Again(n, ok), Append(sent, n.first))
           /\ Again(n, ok).sn = Len(sent) /\ Again(n, ok).first = n.first
<1> DEFINE s == Append(sent, n.first)
<1>1. Len(sent) \in Nat /\ IsSeq(sent)
  BY SeqFacts DEF SentOk
<1>2. Len(s) = Len(sent) + 1 /\ s[Len(sent) + 1] = n.first
  BY <1>1, AppendFacts
<1>3. /\ TimesIn(s, n.first) = TimesIn(sent, n.first) + 1
      /\ TimesIn(sent, n.first) \in Nat
  BY <1>1, TimesGrow, TimesType
<1>4. /\ DOMAIN Again(n, ok) = Fields /\ Again(n, ok).sn = Len(sent)
      /\ Again(n, ok).first = n.first /\ Again(n, ok).cnt = 1
      /\ Again(n, ok).thr = n.thr \/ Again(n, ok).thr = n.thr + 1
  BY DEF Again, NodeOk, Fields, NewSn
<1> HIDE DEF s
<1>5. 1 < TimesIn(s, n.first)
  BY <1>3 DEF NodeOk
<1>6. Again(n, ok).thr \in Nat
  BY <1>4 DEF NodeOk
<1>7. NodeOk(Again(n, ok), s)
  BY <1>1, <1>2, <1>4, <1>5, <1>6 DEF NodeOk
<1> QED  BY <1>4, <1>7 DEF s
-----------------------------------------------------------------------------
(* What the steps of the loops do *)

\* Every frame of m is a frame of l.
From(m, l) == \A j \in 1 .. Len(m) : \E k \in 1 .. Len(l) : m[j].first = l[k].first

\* The loop goes on with a node of the list.
WalkOn ==
    /\ DOMAIN walk' = {"kind", "i", "fb", "firsts"}
    /\ walk'.kind = walk.kind /\ walk'.fb = walk.fb /\ walk'.i \in 0 .. Len(list')

LEMMA AtNode ==
    ASSUME ListInv, walk.i # 0
    PROVE  /\ walk.i \in 1 .. Len(list) /\ NodeOk(list[walk.i], sent)
           /\ list[walk.i].first \in Nat /\ list[walk.i].first <= Len(sent)
           /\ \E k \in 1 .. Len(sent) : sent[k] = list[walk.i].first
           /\ Len(sent) \in Nat /\ Len(list) \in Nat /\ IsSeq(sent) /\ IsSeq(list)
<1>1. Len(sent) \in Nat /\ Len(list) \in Nat /\ IsSeq(sent) /\ IsSeq(list)
  BY SeqFacts DEF ListInv, SentOk, Good
<1>2. walk.i \in 1 .. Len(list)
  BY <1>1 DEF ListInv
<1>3. NodeOk(list[walk.i], sent)
  BY <1>2 DEF ListInv, Good
<1> DEFINE n == list[walk.i]
<1>4. n.sn + 1 \in 1 .. Len(sent) /\ sent[n.sn + 1] = n.first
  <2>1. n.sn \in Nat /\ n.sn < Len(sent) /\ sent[n.sn + 1] = n.first
    BY <1>3, Zenon DEF NodeOk
  <2> QED  BY <1>1, <2>1
<1>5. n.first \in Nat /\ n.first < n.sn + 1
  BY <1>4 DEF ListInv, SentOk
<1>6. n.first <= Len(sent)
  BY <1>1, <1>3, <1>4, <1>5 DEF NodeOk
<1> QED  BY <1>1, <1>2, <1>3, <1>4, <1>5, <1>6

\* A node taken out of the list, or sent again and put at its end.
LEMMA PoppedFacts ==
    ASSUME ListInv, walk.i # 0
    PROVE  /\ Good(Popped, sent) /\ Len(Popped) = Len(list) - 1 /\ From(Popped, list)
           /\ \A k \in 1 .. Len(list) : k # walk.i =>
                \E j \in 1 .. Len(Popped) : Popped[j] = list[k]
<1>1. walk.i \in 1 .. Len(list) /\ IsSeq(list)
  BY AtNode
<1>2. /\ Thinned(Popped, list) /\ Len(Popped) = Len(list) - 1
      /\ \A k \in 1 .. Len(list) : k # walk.i =>
           \E j \in 1 .. Len(list) - 1 : Popped[j] = list[k]
  BY <1>1, RemoveThins DEF Popped
<1>3. From(Popped, list)
  BY <1>2 DEF Thinned, From
<1>4. Good(Popped, sent)
  BY <1>2, GoodThinned DEF ListInv
<1> QED  BY <1>2, <1>3, <1>4

LEMMA NextNodeFacts ==
    ASSUME ListInv, walk.i # 0
    PROVE  /\ NextNode(walk.i, TRUE) \in 0 .. Len(list) - 1
           /\ NextNode(walk.i, FALSE) \in 0 .. Len(list)
BY AtNode DEF NextNode

LEMMA SendAgainFacts ==
    ASSUME ListInv, walk.i # 0, SendAgain(list[walk.i])
    PROVE  /\ sent' = Append(sent, list[walk.i].first)
           /\ Good(list', sent') /\ From(list', list) /\ From(list, list')
           /\ WalkOn /\ walk'.firsts = walk.firsts
<1> DEFINE n == list[walk.i]
           s == Append(sent, n.first)
<1>1. sent' = s /\ list' = Append(Popped, Resent(n))
  BY DEF SendAgain
<1>2. NodeOk(n, sent) /\ Len(sent) \in Nat /\ IsSeq(sent) /\ SentOk(sent) /\ Len(list) \in Nat
  BY AtNode DEF ListInv
<1>3. IsSeq(s) /\ Len(s) = Len(sent) + 1
  BY <1>2, AppendFacts
<1>4. NodeOk(Resent(n), s) /\ Resent(n).sn = Len(sent) /\ Resent(n).first = n.first
  BY <1>2, ResentFacts
<1>5. /\ Good(Popped, sent) /\ Len(Popped) = Len(list) - 1 /\ From(Popped, list)
      /\ \A k \in 1 .. Len(list) : k # walk.i =>
           \E j \in 1 .. Len(Popped) : Popped[j] = list[k]
  BY PoppedFacts
<1>6. Good(Popped, s)
  BY <1>2, <1>5, GoodGrows
<1> HIDE DEF s
<1>7. Resent(n).sn = Len(s) - 1
  BY <1>2, <1>3, <1>4
<1>8. Good(Append(Popped, Resent(n)), s)
  BY <1>3, <1>4, <1>6, <1>7, GoodPush
<1>9. /\ Len(list') = Len(list) /\ list'[Len(list)] = Resent(n)
      /\ \A k \in 1 .. Len(list) - 1 : list'[k] = Popped[k]
  <2>1. IsSeq(Popped)
    BY <1>5 DEF Good
  <2>2. /\ Len(list') = Len(Popped) + 1 /\ list'[Len(Popped) + 1] = Resent(n)
        /\ \A k \in 1 .. Len(Popped) : list'[k] = Popped[k]
    BY <1>1, <2>1, AppendFacts
  <2>3. Len(Popped) + 1 = Len(list)
    BY <1>2, <1>5
  <2> QED  BY <1>5, <2>2, <2>3
<1>10. From(list', list)
  <2> SUFFICES ASSUME NEW j \in 1 .. Len(list)
               PROVE  \E k \in 1 .. Len(list) : list'[j].first = list[k].first
    BY <1>9 DEF From
  <2>1. CASE j = Len(list)
    BY <1>4, <1>9, <2>1, AtNode
  <2>2. CASE j \in 1 .. Len(list) - 1
    <3>1. j \in 1 .. Len(Popped) /\ list'[j] = Popped[j]
      BY <1>5, <1>9, <2>2
    <3>2. \E k \in 1 .. Len(list) : Popped[j].first = list[k].first
      <4>1. From(Popped, list) /\ j \in 1 .. Len(Popped)
        BY <1>5, <3>1, Zenon
      <4> QED  BY <4>1, Zenon DEF From
    <3> QED  BY <3>1, <3>2, Zenon
  <2> QED  BY <1>2, <2>1, <2>2
<1>11. From(list, list')
  <2> SUFFICES ASSUME NEW j \in 1 .. Len(list)
               PROVE  \E k \in 1 .. Len(list) : list[j].first = list'[k].first
    BY <1>9 DEF From
  <2>1. CASE j = walk.i
    <3>1. Len(list) \in 1 .. Len(list)
      BY <1>2
    <3> QED  BY <1>4, <1>9, <2>1, <3>1
  <2>2. CASE j # walk.i
    <3>1. PICK k \in 1 .. Len(list) - 1 : Popped[k] = list[j]
      BY <1>5, <2>2
    <3>2. k \in 1 .. Len(list)
      BY <1>2
    <3> QED  BY <1>9, <3>1, <3>2
  <2> QED  BY <2>1, <2>2
<1>12. WalkOn /\ walk'.firsts = walk.firsts
  <2>1. /\ DOMAIN walk' = {"kind", "i", "fb", "firsts"}
        /\ walk'.kind = walk.kind /\ walk'.fb = walk.fb /\ walk'.firsts = walk.firsts
        /\ walk'.i = NextNode(walk.i, TRUE)
    BY DEF SendAgain, ListInv
  <2>2. walk'.i \in 0 .. Len(list')
    <3>1. walk'.i \in 0 .. Len(list) - 1
      BY <2>1, NextNodeFacts
    <3> QED  BY <1>2, <1>9, <3>1
  <2> QED  BY <2>1, <2>2 DEF WalkOn
<1> QED  BY <1>1, <1>8, <1>10, <1>11, <1>12 DEF s

LEMMA RetryLaterFacts ==
    ASSUME ListInv, walk.i # 0, NEW ok, RetryLater(list[walk.i], ok)
    PROVE  /\ sent' = Append(sent, list[walk.i].first)
           /\ Good(list', sent') /\ From(list', list) /\ From(list, list')
           /\ WalkOn /\ walk'.firsts = walk.firsts
<1> DEFINE n == list[walk.i]
           s == Append(sent, n.first)
           a == Again(n, ok)
           m == Cloned(Popped, a, ok)
<1>1. sent' = s /\ list' = Append(m, a)
  BY DEF RetryLater
<1>2. NodeOk(n, sent) /\ Len(sent) \in Nat /\ IsSeq(sent) /\ SentOk(sent) /\ Len(list) \in Nat
  BY AtNode DEF ListInv
<1>3. IsSeq(s) /\ Len(s) = Len(sent) + 1
  BY <1>2, AppendFacts
<1>4. NodeOk(a, s) /\ a.sn = Len(sent) /\ a.first = n.first
  BY <1>2, AgainFacts
<1>5. /\ Good(Popped, sent) /\ Len(Popped) = Len(list) - 1 /\ From(Popped, list)
      /\ \A k \in 1 .. Len(list) : k # walk.i =>
           \E j \in 1 .. Len(Popped) : Popped[j] = list[k]
  BY PoppedFacts
<1>6. Good(Popped, s)
  BY <1>2, <1>5, GoodGrows
<1> HIDE DEF s, a
<1>7. a.sn = Len(s) - 1
  BY <1>2, <1>3, <1>4
<1>8. Good(m, s)
  BY <1>3, <1>4, <1>6, <1>7, GoodClone
<1>9. Clone(a).first = n.first
  BY <1>3, <1>4, CloneFacts
<1>10. /\ Len(m) \in Nat /\ Len(list) - 1 <= Len(m) /\ IsSeq(m)
       /\ \A k \in 1 .. Len(list) - 1 : m[k] = Popped[k]
       /\ \A k \in 1 .. Len(m) : k \in 1 .. Len(list) - 1 \/ m[k].first = n.first
  <2>1. IsSeq(Popped)
    BY <1>5 DEF Good
  <2>2. CASE ok
    <3>1. m = Append(Popped, Clone(a))
      BY <2>2 DEF Cloned
    <3>2. /\ Len(m) = Len(Popped) + 1 /\ m[Len(Popped) + 1] = Clone(a) /\ IsSeq(m)
          /\ \A k \in 1 .. Len(Popped) : m[k] = Popped[k]
      BY <2>1, <3>1, AppendFacts
    <3> HIDE DEF m
    <3>3. Len(m) = Len(list)
      BY <1>2, <1>5, <3>2
    <3>4. \A k \in 1 .. Len(list) : k \in 1 .. Len(list) - 1 \/ k = Len(Popped) + 1
      BY <1>2, <1>5
    <3> QED  BY <1>2, <1>5, <1>9, <3>2, <3>3, <3>4
  <2>3. CASE ~ok
    <3>1. m = Popped
      BY <2>3 DEF Cloned
    <3> HIDE DEF m
    <3>2. Len(m) = Len(list) - 1 /\ Len(m) \in Nat
      BY <1>5, <2>1, <3>1, SeqFacts
    <3> QED  BY <1>2, <2>1, <3>1, <3>2
  <2> QED  BY <2>2, <2>3
<1> HIDE DEF m
<1>11. Good(list', sent')
  BY <1>1, <1>3, <1>4, <1>7, <1>8, GoodPush
<1>12. /\ Len(list') = Len(m) + 1 /\ list'[Len(m) + 1] = a
       /\ \A k \in 1 .. Len(m) : list'[k] = m[k]
  BY <1>1, <1>10, AppendFacts
<1>13. From(list', list)
  <2> SUFFICES ASSUME NEW j \in 1 .. Len(m) + 1
               PROVE  \E k \in 1 .. Len(list) : list'[j].first = list[k].first
    BY <1>12 DEF From
  <2>1. j \in 1 .. Len(m) \/ j = Len(m) + 1
    BY <1>10
  <2>2. CASE list'[j].first = n.first
    BY <2>2, AtNode
  <2>3. CASE j \in 1 .. Len(list) - 1
    <3>1. j \in 1 .. Len(m) /\ j \in 1 .. Len(Popped)
      BY <1>2, <1>5, <1>10, <2>3
    <3>2. list'[j] = Popped[j]
      BY <1>10, <1>12, <2>3, <3>1
    <3>3. \E k \in 1 .. Len(list) : Popped[j].first = list[k].first
      <4>1. From(Popped, list) /\ j \in 1 .. Len(Popped)
        BY <1>5, <3>1, Zenon
      <4> QED  BY <4>1, Zenon DEF From
    <3> QED  BY <3>2, <3>3, Zenon
  <2> QED  BY <1>4, <1>10, <1>12, <2>1, <2>2, <2>3
<1>14. From(list, list')
  <2> SUFFICES ASSUME NEW j \in 1 .. Len(list)
               PROVE  \E k \in 1 .. Len(m) + 1 : list[j].first = list'[k].first
    BY <1>12 DEF From
  <2>1. CASE j = walk.i
    <3>1. Len(m) + 1 \in 1 .. Len(m) + 1
      BY <1>10
    <3> QED  BY <1>4, <1>12, <2>1, <3>1
  <2>2. CASE j # walk.i
    <3>1. PICK k \in 1 .. Len(list) - 1 : Popped[k] = list[j]
      BY <1>5, <2>2
    <3>2. k \in 1 .. Len(m) /\ k \in 1 .. Len(m) + 1
      BY <1>2, <1>10
    <3> QED  BY <1>10, <1>12, <3>1, <3>2
  <2> QED  BY <2>1, <2>2
<1>15. WalkOn /\ walk'.firsts = walk.firsts
  <2>1. /\ DOMAIN walk' = {"kind", "i", "fb", "firsts"}
        /\ walk'.kind = walk.kind /\ walk'.fb = walk.fb /\ walk'.firsts = walk.firsts
        /\ walk'.i = NextNode(walk.i, TRUE)
    BY DEF RetryLater, ListInv
  <2>2. walk'.i \in 0 .. Len(list')
    <3>1. walk'.i \in 0 .. Len(list) - 1
      BY <2>1, NextNodeFacts
    <3> QED  BY <1>2, <1>10, <1>12, <3>1
  <2> QED  BY <2>1, <2>2 DEF WalkOn
<1> QED  BY <1>1, <1>11, <1>13, <1>14, <1>15 DEF s
\* A node leaves the list for good.
LEMMA ReleaseFacts ==
    ASSUME ListInv, walk.i # 0, Release
    PROVE  /\ sent' = sent /\ Good(list', sent') /\ From(list', list)
           /\ \A k \in 1 .. Len(list) :
                \/ list[k].first = list[walk.i].first
                \/ \E j \in 1 .. Len(list') : list'[j].first = list[k].first
           /\ WalkOn /\ walk'.firsts = walk.firsts
<1>1. sent' = sent /\ list' = Popped
  BY DEF Release
<1>2. /\ DOMAIN walk' = {"kind", "i", "fb", "firsts"}
      /\ walk'.kind = walk.kind /\ walk'.fb = walk.fb /\ walk'.firsts = walk.firsts
      /\ walk'.i = NextNode(walk.i, TRUE)
  BY DEF Release, ListInv
<1>3. walk'.i \in 0 .. Len(list')
  BY <1>1, <1>2, PoppedFacts, NextNodeFacts
<1> QED  BY <1>1, <1>2, <1>3, PoppedFacts DEF WalkOn

LEMMA DropFacts ==
    ASSUME ListInv, walk.i # 0, Drop(list[walk.i])
    PROVE  /\ sent' = sent /\ Good(list', sent') /\ From(list', list)
           /\ \A k \in 1 .. Len(list) :
                \/ list[k].first = list[walk.i].first
                \/ \E j \in 1 .. Len(list') : list'[j].first = list[k].first
           /\ WalkOn /\ walk'.firsts = Remember(list[walk.i])
<1>1. sent' = sent /\ list' = Popped
  BY DEF Drop
<1>2. /\ DOMAIN walk' = {"kind", "i", "fb", "firsts"}
      /\ walk'.kind = walk.kind /\ walk'.fb = walk.fb
      /\ walk'.firsts = Remember(list[walk.i])
      /\ walk'.i = NextNode(walk.i, TRUE)
  BY DEF Drop, ListInv
<1>3. walk'.i \in 0 .. Len(list')
  BY <1>1, <1>2, PoppedFacts, NextNodeFacts
<1> QED  BY <1>1, <1>2, <1>3, PoppedFacts DEF WalkOn

LEMMA RememberFacts ==
    ASSUME ListInv, NEW n
    PROVE  /\ IsSeq(Remember(n))
           /\ \A k \in 1 .. Len(Remember(n)) :
                \/ Remember(n)[k] = n.first
                \/ \E j \in 1 .. Len(walk.firsts) : Remember(n)[k] = walk.firsts[j]
           /\ \A j \in 1 .. Len(walk.firsts) :
                \E k \in 1 .. Len(Remember(n)) : Remember(n)[k] = walk.firsts[j]
           /\ Len(walk.firsts) < FirstMax =>
                \E k \in 1 .. Len(Remember(n)) : Remember(n)[k] = n.first
<1> DEFINE f == walk.firsts
           r == Append(f, n.first)
<1>1. IsSeq(f) /\ Len(f) \in Nat
  BY SeqFacts DEF ListInv
<1>2. /\ IsSeq(r) /\ Len(r) = Len(f) + 1 /\ r[Len(f) + 1] = n.first
      /\ \A k \in 1 .. Len(f) : r[k] = f[k]
  BY <1>1, AppendFacts
<1>3. Remember(n) = IF Len(f) < FirstMax THEN r ELSE f
  BY DEF Remember
<1> HIDE DEF f, r
<1>4. CASE Len(f) < FirstMax
  <2>1. \A k \in 1 .. Len(f) + 1 : k \in 1 .. Len(f) \/ k = Len(f) + 1
    BY <1>1
  <2>2. \A k \in 1 .. Len(f) : k \in 1 .. Len(f) + 1
    BY <1>1
  <2>3. Len(f) + 1 \in 1 .. Len(f) + 1
    BY <1>1
  <2>4. Remember(n) = r
    BY <1>3, <1>4
  <2> QED  BY <1>2, <2>1, <2>2, <2>3, <2>4 DEF f
<1>5. CASE ~(Len(f) < FirstMax)
  <2>1. Remember(n) = f
    BY <1>3, <1>5
  <2> QED  BY <1>1, <1>5, <2>1 DEF f
<1> QED  BY <1>4, <1>5

\* At the end of a report the other nodes of the frames dropped go, and only they.
LEMMA DelNodeFacts ==
    ASSUME ListInv
    PROVE  LET m == DelNodeByFirstSn(list, walk.firsts)
           IN  /\ Good(m, sent) /\ From(m, list)
               /\ \A j \in 1 .. Len(m), i \in 1 .. Len(walk.firsts) :
                    m[j].first # walk.firsts[i]
               /\ \A k \in 1 .. Len(list) :
                    \/ \E i \in 1 .. Len(walk.firsts) : walk.firsts[i] = list[k].first
                    \/ \E j \in 1 .. Len(m) : m[j].first = list[k].first
<1> DEFINE keep == {k \in DOMAIN list :
                       \A i \in DOMAIN walk.firsts : list[k].first # walk.firsts[i]}
           m == Kept(list, keep)
<1>1. /\ IsSeq(list) /\ DOMAIN list = 1 .. Len(list)
      /\ DOMAIN walk.firsts = 1 .. Len(walk.firsts)
  BY SeqFacts DEF ListInv, Good
<1>2. keep \subseteq 1 .. Len(list)
  BY <1>1
<1>3. \A k \in 1 .. Len(list) : k \in keep <=>
          \A i \in 1 .. Len(walk.firsts) : list[k].first # walk.firsts[i]
  BY <1>1
<1>4. DelNodeByFirstSn(list, walk.firsts) = m
  BY DEF DelNodeByFirstSn
<1> HIDE DEF keep
<1>5. /\ Thinned(m, list)
      /\ \A k \in keep : \E j \in 1 .. Len(m) : m[j] = list[k]
      /\ \A j \in 1 .. Len(m) : \E k \in keep : m[j] = list[k]
  <2>1. IsSeq(list)
    BY <1>1
  <2>2. Keeps(m, list, keep)
    BY <1>2, <2>1, KeptFacts
  <2> QED  BY <2>2 DEF Keeps
<1> HIDE DEF m
<1>6. Good(m, sent)
  BY <1>5, GoodThinned DEF ListInv
<1>7. From(m, list)
  BY <1>2, <1>5 DEF From
<1>8. \A j \in 1 .. Len(m), i \in 1 .. Len(walk.firsts) : m[j].first # walk.firsts[i]
  <2> TAKE j \in 1 .. Len(m), i \in 1 .. Len(walk.firsts)
  <2>1. PICK k \in keep : m[j] = list[k]
    BY <1>5
  <2> QED  BY <1>2, <1>3, <2>1
<1>9. \A k \in 1 .. Len(list) :
          \/ \E i \in 1 .. Len(walk.firsts) : walk.firsts[i] = list[k].first
          \/ \E j \in 1 .. Len(m) : m[j].first = list[k].first
  BY <1>3, <1>5
<1> QED  BY <1>4, <1>6, <1>7, <1>8, <1>9

\* A new frame: its nodes are good and stand at the end.
LEMMA SendFrameFacts ==
    ASSUME ListInv, NEW ok, NEW okBoost, SendFrame(ok, okBoost)
    PROVE  /\ sent' = Append(sent, Len(sent)) /\ Good(list', sent') /\ From(list, list')
           /\ \A j \in 1 .. Len(list') :
                \/ list'[j].first = Len(sent)
                \/ \E k \in 1 .. Len(list) : list'[j] = list[k]
           /\ \/ Len(sent) \in hist'.free
              \/ \E j \in 1 .. Len(list') : list'[j].first = Len(sent)
           /\ hist.free \subseteq hist'.free
           /\ hist'.conf = hist.conf /\ hist'.rcvd = hist.rcvd /\ DOMAIN hist' = DOMAIN hist
           /\ walk = Idle /\ walk' = walk
<1> DEFINE c == knobs.boost /\ knobs.maxBoost # 0 /\ okBoost
           n == [sn |-> NewSn, first |-> NewSn, cnt |-> 0, age |-> 0, boost |-> FALSE,
                 twin |-> FALSE, thr |-> Threshold, again |-> FALSE]
           t == [n EXCEPT !.twin = c]
           s == Append(sent, Len(sent))
           entered == knobs.alg /\ ok
<1>1. /\ walk = Idle /\ walk' = walk /\ sent' = s
      /\ list' = IF entered THEN Cloned(Append(list, t), n, c) ELSE list
      /\ hist' = IF entered THEN hist ELSE [hist EXCEPT !.free = @ \cup {NewSn}]
  BY DEF SendFrame, NewSn
<1>2. Len(sent) \in Nat /\ IsSeq(sent) /\ SentOk(sent) /\ Len(list) \in Nat /\ IsSeq(list)
  BY SeqFacts DEF ListInv, SentOk, Good
<1>3. IsSeq(s) /\ Len(s) = Len(sent) + 1 /\ s[Len(sent) + 1] = Len(sent)
  BY <1>2, AppendFacts
<1>4. 0 < TimesIn(s, Len(sent))
  <2>1. /\ TimesIn(s, Len(sent)) = TimesIn(sent, Len(sent)) + 1
        /\ TimesIn(sent, Len(sent)) \in Nat
    BY <1>2, TimesGrow, TimesType
  <2> HIDE DEF s
  <2> QED  BY <2>1
<1>5. Threshold \in Nat
  BY ArqAssumption DEF Threshold, ListInv
<1>6. NodeOk(n, s) /\ n.sn = Len(sent) /\ n.first = Len(sent)
  <2>1. /\ DOMAIN n = Fields /\ n.sn = Len(sent) /\ n.first = Len(sent)
        /\ n.cnt = 0 /\ n.thr = Threshold
    BY DEF NewSn, Fields
  <2> HIDE DEF n, s
  <2> QED  BY <1>2, <1>3, <1>4, <1>5, <2>1 DEF NodeOk
<1>7. NodeOk(t, s) /\ t.sn = Len(sent) /\ t.first = Len(sent)
  <2>1. /\ DOMAIN t = Fields /\ t.sn = Len(sent) /\ t.first = Len(sent)
        /\ t.cnt = 0 /\ t.thr = Threshold
    BY DEF NewSn, Fields
  <2> HIDE DEF t, n, s
  <2> QED  BY <1>2, <1>3, <1>4, <1>5, <2>1 DEF NodeOk
<1> HIDE DEF t, n, c
<1>8. Good(list, s)
  BY <1>2, GoodGrows DEF ListInv
<1> HIDE DEF s
<1>9. Len(sent) = Len(s) - 1
  BY <1>2, <1>3
<1> DEFINE m == Append(list, t)
<1>10. CASE entered
  <2>1. list' = Cloned(m, n, c) /\ hist' = hist
    BY <1>1, <1>10
  <2>2. Good(m, s)
    BY <1>3, <1>7, <1>8, <1>9, GoodPush
  <2>3. /\ Len(m) = Len(list) + 1 /\ IsSeq(m) /\ m[Len(list) + 1] = t
        /\ \A k \in 1 .. Len(list) : m[k] = list[k]
    BY <1>2, AppendFacts
  <2> HIDE DEF m
  <2>4. Good(list', s)
    BY <1>3, <1>6, <1>9, <2>1, <2>2, GoodClone
  <2>5. Clone(n).first = Len(sent)
    BY <1>3, <1>6, CloneFacts
  <2>6. /\ Len(list') \in Nat /\ Len(list) + 1 <= Len(list')
        /\ \A k \in 1 .. Len(list) + 1 : list'[k] = m[k]
        /\ \A k \in 1 .. Len(list') : k \in 1 .. Len(list) + 1 \/ list'[k].first = Len(sent)
    <3>1. CASE c
      <4>1. list' = Append(m, Clone(n))
        BY <2>1, <3>1 DEF Cloned
      <4>2. /\ Len(list') = Len(m) + 1 /\ list'[Len(m) + 1] = Clone(n)
            /\ \A k \in 1 .. Len(m) : list'[k] = m[k]
        BY <2>3, <4>1, AppendFacts
      <4>3. Len(list') = Len(list) + 2 /\ Len(m) + 1 = Len(list) + 2
        BY <1>2, <2>3, <4>2
      <4>4. \A k \in 1 .. Len(list) + 2 : k \in 1 .. Len(list) + 1 \/ k = Len(list) + 2
        BY <1>2
      <4> QED  BY <1>2, <2>3, <2>5, <4>2, <4>3, <4>4
    <3>2. CASE ~c
      <4>1. list' = m
        BY <2>1, <3>2 DEF Cloned
      <4> QED  BY <1>2, <2>3, <4>1
    <3> QED  BY <3>1, <3>2
  <2>7. \A k \in 1 .. Len(list) : k \in 1 .. Len(list') /\ list'[k] = list[k]
    BY <1>2, <2>3, <2>6
  <2>8. /\ Len(list) + 1 \in 1 .. Len(list') /\ list'[Len(list) + 1].first = Len(sent)
    BY <1>2, <1>7, <2>3, <2>6
  <2>9. \A j \in 1 .. Len(list') : list'[j].first = Len(sent)
                                   \/ \E k \in 1 .. Len(list) : list'[j] = list[k]
    <3> TAKE j \in 1 .. Len(list')
    <3>1. j \in 1 .. Len(list) \/ j = Len(list) + 1 \/ list'[j].first = Len(sent)
      BY <1>2, <2>6
    <3> QED  BY <2>7, <2>8, <3>1
  <2>10. From(list, list')
    BY <2>7 DEF From
  <2> QED  BY <1>1, <2>1, <2>4, <2>8, <2>9, <2>10 DEF s
<1>11. CASE ~entered
  <2>1. list' = list /\ hist' = [hist EXCEPT !.free = @ \cup {NewSn}]
    BY <1>1, <1>11
  <2>2. /\ hist'.free = hist.free \cup {Len(sent)} /\ DOMAIN hist' = DOMAIN hist
        /\ hist'.conf = hist.conf /\ hist'.rcvd = hist.rcvd
    BY <2>1 DEF ListInv, NewSn
  <2>3. From(list, list')
    BY <2>1 DEF From
  <2> QED  BY <1>1, <1>8, <2>1, <2>2, <2>3 DEF s
<1> QED  BY <1>10, <1>11
-----------------------------------------------------------------------------
(* ListInv is inductive: the order of the list *)

LEMMA ListInit == Init => ListInv
<1> SUFFICES ASSUME Init  PROVE ListInv
  OBVIOUS
<1>1. IsSeq(<<>>) /\ Len(<<>>) = 0
  <2>1. <<>> \in Seq({}) /\ Len(<<>>) = 0
    BY EmptySeq
  <2> QED  BY <2>1 DEF IsSeq
<1>2. SentOk(sent) /\ Good(list, sent)
  BY <1>1 DEF Init, SentOk, Good
<1>3. Max(Retrans) \in Retrans
  BY FiniteMax, ArqAssumption
<1>4. knobs.maxRetran \in Retrans /\ knobs.maxBoost \in Boosts \cup {0}
  BY <1>3 DEF Init
<1>5. /\ DOMAIN walk = {"kind", "i", "fb", "firsts"} /\ walk.kind = "idle"
      /\ walk.i = 0 /\ walk.firsts = <<>>
  BY DEF Init, Idle
<1>6. DOMAIN hist = {"free", "conf", "rcvd"}
  BY DEF Init
<1> QED  BY <1>1, <1>2, <1>4, <1>5, <1>6 DEF ListInv, Init

\* Time passing changes ages only.
LEMMA TickFacts ==
    ASSUME ListInv, Tick
    PROVE  /\ Good(list', sent) /\ Len(list') = Len(list)
           /\ \A k \in 1 .. Len(list) : list'[k].first = list[k].first
<1> DEFINE old(n) == [n EXCEPT !.age = IF @ < Rto THEN @ + 1 ELSE @]
<1>1. IsSeq(list) /\ Len(list) \in Nat /\ DOMAIN list = 1 .. Len(list)
  BY SeqFacts DEF ListInv, Good
<1>2. list' = [k \in 1 .. Len(list) |-> old(list[k])]
  BY <1>1 DEF Tick
<1>3. \A k \in 1 .. Len(list) :
          /\ NodeOk(old(list[k]), sent) /\ old(list[k]).sn = list[k].sn
          /\ old(list[k]).first = list[k].first
  <2> TAKE k \in 1 .. Len(list)
  <2>1. NodeOk(list[k], sent)
    BY DEF ListInv, Good
  <2>2. /\ DOMAIN old(list[k]) = Fields /\ old(list[k]).sn = list[k].sn
        /\ old(list[k]).first = list[k].first /\ old(list[k]).cnt = list[k].cnt
        /\ old(list[k]).thr = list[k].thr
    BY <2>1 DEF NodeOk, Fields
  <2> HIDE DEF old
  <2> QED  BY <2>1, <2>2 DEF NodeOk
<1> HIDE DEF old
<1>4. DOMAIN list' = 1 .. Len(list) /\ \A k \in 1 .. Len(list) : list'[k] = old(list[k])
  BY <1>2
<1>5. list' \in Seq({old(list[k]) : k \in 1 .. Len(list)})
  <2>1. list' \in [1 .. Len(list) -> {old(list[k]) : k \in 1 .. Len(list)}]
    BY <1>2
  <2> QED  BY <1>1, <2>1, SeqDef
<1>6. IsSeq(list')
  BY <1>5 DEF IsSeq
<1>7. Len(list') = Len(list)
  BY <1>1, <1>4, <1>6, SeqFacts
<1>8. \A j, k \in 1 .. Len(list) : j < k => list'[j].sn <= list'[k].sn
  BY <1>3, <1>4 DEF ListInv, Good
<1>9. \A k \in 1 .. Len(list) : NodeOk(list'[k], sent)
  BY <1>3, <1>4
<1> QED  BY <1>3, <1>4, <1>6, <1>7, <1>8, <1>9 DEF Good

LEMMA KeepFacts ==
    ASSUME ListInv, walk.i # 0, Keep
    PROVE  list' = list /\ sent' = sent /\ WalkOn /\ walk'.firsts = walk.firsts
<1>1. /\ DOMAIN walk' = {"kind", "i", "fb", "firsts"} /\ list' = list /\ sent' = sent
      /\ walk'.kind = walk.kind /\ walk'.fb = walk.fb /\ walk'.firsts = walk.firsts
      /\ walk'.i = NextNode(walk.i, FALSE)
  BY DEF Keep, ListInv
<1> QED  BY <1>1, NextNodeFacts DEF WalkOn

LEMMA IdleFacts ==
    /\ DOMAIN Idle = {"kind", "i", "fb", "firsts"} /\ Idle.kind = "idle" /\ Idle.i = 0
    /\ IsSeq(Idle.firsts) /\ Len(Idle.firsts) = 0
<1>1. <<>> \in Seq({}) /\ Len(<<>>) = 0
  BY EmptySeq
<1> QED  BY <1>1 DEF Idle, IsSeq

\* The cases of a step of one of the loops.
RtoCases(ok) ==
    \/ Release /\ Exhausted(list[walk.i])
    \/ /\ Reliable /\ ~list[walk.i].boost /\ ~list[walk.i].again
       /\ RetryLater(list[walk.i], ok)
    \/ CanRtoReSend(list[walk.i]) /\ SendAgain(list[walk.i])
    \/ Keep
LEMMA RtoStepCases ==
    ASSUME NEW ok, RtoStep(ok)
    PROVE  /\ walk.kind = "rto" /\ walk.i # 0 /\ RtoCases(ok)
           /\ UNCHANGED <<knobs, got, base, fbs, hist>>
BY Zenon DEF RtoStep, RtoCases, TranFailed

ReportCases(v) ==
    \/ /\ v = "arrived" /\ Drop(list[walk.i])
       /\ hist' = [hist EXCEPT !.conf = @ \cup {list[walk.i].first}]
    \/ v = "lost" /\ Exhausted(list[walk.i]) /\ Drop(list[walk.i]) /\ hist' = hist
    \/ ~Exhausted(list[walk.i]) /\ SendAgain(list[walk.i]) /\ hist' = hist
    \/ Keep /\ hist' = hist
LEMMA ReportStepCases ==
    ASSUME ReportStep
    PROVE  /\ walk.kind = "report" /\ walk.i # 0
           /\ ReportCases(Verdict(walk.fb, list[walk.i].sn))
           /\ UNCHANGED <<knobs, got, base, fbs>>
<1> DEFINE n == list[walk.i]
           v == Verdict(walk.fb, n.sn)
<1>1. /\ walk.kind = "report" /\ walk.i # 0 /\ UNCHANGED <<knobs, got, base, fbs>>
      /\ \/ v = "arrived" /\ Drop(n)
         \/ v = "lost" /\ Exhausted(n) /\ Drop(n)
         \/ v = "lost" /\ ~Exhausted(n) /\ SendAgain(n)
         \/ v = "young" /\ Keep
      /\ hist' = IF v = "arrived" THEN [hist EXCEPT !.conf = @ \cup {n.first}] ELSE hist
  BY Zenon DEF ReportStep
<1> HIDE DEF v, n
<1>2. \/ v = "arrived" /\ Drop(n) /\ hist' = [hist EXCEPT !.conf = @ \cup {n.first}]
      \/ v = "lost" /\ Exhausted(n) /\ Drop(n) /\ hist' = hist
      \/ ~Exhausted(n) /\ SendAgain(n) /\ hist' = hist
      \/ Keep /\ hist' = hist
  <2>1. "lost" # "arrived" /\ "young" # "arrived"
    OBVIOUS
  <2> QED  BY <1>1, <2>1, Zenon
<1> QED  BY <1>1, <1>2, Zenon DEF v, n, ReportCases
LEMMA ListNext == ListInv /\ [Next]_vars => ListInv'
<1> SUFFICES ASSUME ListInv, [Next]_vars  PROVE ListInv'
  OBVIOUS
<1>1. SentOk(sent) /\ Good(list, sent) /\ IsSeq(sent) /\ Len(sent) \in Nat /\ Len(list) \in Nat
  BY SeqFacts DEF ListInv, SentOk, Good
<1> DEFINE KnobsOk == knobs.maxRetran \in Retrans /\ knobs.maxBoost \in Boosts \cup {0}
<1>2. KnobsOk /\ DOMAIN hist = {"free", "conf", "rcvd"}
  BY DEF ListInv
<1>3. ASSUME SentOk(sent'), Good(list', sent'), KnobsOk', WalkOn, IsSeq(walk'.firsts),
             DOMAIN hist' = {"free", "conf", "rcvd"}
      PROVE  ListInv'
  BY <1>3 DEF ListInv, WalkOn
<1>4. ASSUME SentOk(sent'), Good(list', sent'), KnobsOk', walk' = Idle,
             DOMAIN hist' = {"free", "conf", "rcvd"}
      PROVE  ListInv'
  <2>1. Len(list') \in Nat
    BY <1>4, SeqFacts DEF Good
  <2> QED  BY <1>4, <2>1, IdleFacts DEF ListInv
<1>5. ASSUME NEW ok, NEW okBoost, SendFrame(ok, okBoost)  PROVE ListInv'
  <2>1. /\ sent' = Append(sent, Len(sent)) /\ Good(list', sent') /\ walk' = Idle
        /\ DOMAIN hist' = {"free", "conf", "rcvd"}
    BY <1>2, <1>5, SendFrameFacts
  <2>2. SentOk(sent')
    BY <1>1, <2>1, SentGrows
  <2>3. KnobsOk'
    BY <1>2, <1>5 DEF SendFrame
  <2> QED  BY <1>4, <2>1, <2>2, <2>3
<1>6. CASE CheckRtoRetran
  <2>1. CASE knobs.alg
    <3>1. /\ list' = list /\ sent' = sent /\ hist' = hist /\ knobs' = knobs
          /\ list # <<>> /\ walk' = [Idle EXCEPT !.kind = "rto", !.i = 1]
      BY <1>6, <2>1 DEF CheckRtoRetran
    <3>2. /\ DOMAIN walk' = {"kind", "i", "fb", "firsts"} /\ walk'.kind = "rto"
          /\ walk'.i = 1 /\ walk'.firsts = Idle.firsts
      BY <3>1 DEF Idle
    <3>3. 1 \in 0 .. Len(list)
      <4>1. PICK S : list \in Seq(S)
        BY <1>1 DEF Good, IsSeq
      <4>2. Len(list) \in Nat \ {0}
        BY <3>1, <4>1, EmptySeq
      <4> QED  BY <4>2
    <3> QED  BY <1>1, <1>2, <3>1, <3>2, <3>3, IdleFacts DEF ListInv
  <2>2. CASE ~knobs.alg
    <3>1. /\ list' = <<>> /\ sent' = sent /\ knobs' = knobs /\ walk' = Idle
          /\ hist' = [hist EXCEPT !.free = @ \cup Listed]
      BY <1>6, <2>2 DEF CheckRtoRetran
    <3>2. DOMAIN hist' = {"free", "conf", "rcvd"}
      BY <1>2, <3>1
    <3>3. Good(<<>>, sent)
      <4>1. <<>> \in Seq({}) /\ Len(<<>>) = 0
        BY EmptySeq
      <4> QED  BY <4>1 DEF Good, IsSeq
    <3> QED  BY <1>1, <1>2, <1>4, <3>1, <3>2, <3>3
  <2> QED  BY <2>1, <2>2
<1>7. CASE RtoEnd
  BY <1>1, <1>2, <1>4, <1>7 DEF RtoEnd
<1>8. ASSUME NEW ok, RtoStep(ok)  PROVE ListInv'
  <2>1. walk.i # 0 /\ RtoCases(ok) /\ KnobsOk' /\ hist' = hist
    BY <1>2, <1>8, RtoStepCases
  <2>2. IsSeq(walk.firsts)
    BY DEF ListInv
  <2>3. CASE Release
    BY <1>1, <1>2, <1>3, <2>1, <2>2, <2>3, ReleaseFacts
  <2>4. CASE RetryLater(list[walk.i], ok)
    <3>1. /\ sent' = Append(sent, list[walk.i].first)
          /\ Good(list', sent') /\ WalkOn /\ walk'.firsts = walk.firsts
      BY <2>1, <2>4, RetryLaterFacts
    <3>2. SentOk(sent')
      BY <1>1, <2>1, <3>1, AtNode, SentGrows
    <3> QED  BY <1>2, <1>3, <2>1, <2>2, <3>1, <3>2
  <2>5. CASE SendAgain(list[walk.i])
    <3>1. /\ sent' = Append(sent, list[walk.i].first)
          /\ Good(list', sent') /\ WalkOn /\ walk'.firsts = walk.firsts
      BY <2>1, <2>5, SendAgainFacts
    <3>2. SentOk(sent')
      BY <1>1, <2>1, <3>1, AtNode, SentGrows
    <3> QED  BY <1>2, <1>3, <2>1, <2>2, <3>1, <3>2
  <2>6. CASE Keep
    BY <1>1, <1>2, <1>3, <2>1, <2>2, <2>6, KeepFacts
  <2> QED  BY <2>1, <2>3, <2>4, <2>5, <2>6 DEF RtoCases
<1>9. ASSUME NEW fb, ProcReport(fb)  PROVE ListInv'
  <2>1. /\ list' = list /\ sent' = sent /\ hist' = hist /\ knobs' = knobs /\ list # <<>>
        /\ walk' = [kind |-> "report", i |-> 1, fb |-> fb, firsts |-> <<>>]
    BY <1>9 DEF ProcReport
  <2>2. 1 \in 0 .. Len(list)
    <3>1. PICK S : list \in Seq(S)
      BY <1>1 DEF Good, IsSeq
    <3>2. Len(list) \in Nat \ {0}
      BY <2>1, <3>1, EmptySeq
    <3> QED  BY <3>2
  <2>3. /\ DOMAIN walk' = {"kind", "i", "fb", "firsts"} /\ walk'.kind = "report"
        /\ walk'.i = 1 /\ walk'.firsts = Idle.firsts
    BY <2>1 DEF Idle
  <2> QED  BY <1>1, <1>2, <2>1, <2>2, <2>3, IdleFacts DEF ListInv
<1>10. ASSUME NEW fb, LoseReport(fb)  PROVE ListInv'
  BY <1>1, <1>2, <1>4, <1>10 DEF LoseReport
<1>11. CASE ReportStep
  <2>1. /\ walk.i # 0 /\ KnobsOk'
        /\ ReportCases(Verdict(walk.fb, list[walk.i].sn))
    BY <1>2, <1>11, ReportStepCases
  <2>2. IsSeq(walk.firsts) /\ IsSeq(Remember(list[walk.i]))
    BY RememberFacts DEF ListInv
  <2>3. DOMAIN hist' = {"free", "conf", "rcvd"}
    BY <1>2, <2>1 DEF ReportCases
  <2>4. CASE Drop(list[walk.i])
    BY <1>1, <1>3, <2>1, <2>2, <2>3, <2>4, DropFacts
  <2>5. CASE SendAgain(list[walk.i])
    <3>1. /\ sent' = Append(sent, list[walk.i].first)
          /\ Good(list', sent') /\ WalkOn /\ walk'.firsts = walk.firsts
      BY <2>1, <2>5, SendAgainFacts
    <3>2. SentOk(sent')
      BY <1>1, <2>1, <3>1, AtNode, SentGrows
    <3> QED  BY <1>3, <2>1, <2>2, <2>3, <3>1, <3>2
  <2>6. CASE Keep
    BY <1>1, <1>3, <2>1, <2>2, <2>3, <2>6, KeepFacts
  <2> QED  BY <2>1, <2>4, <2>5, <2>6 DEF ReportCases
<1>12. CASE ReportEnd
  <2>1. /\ list' = DelNodeByFirstSn(list, walk.firsts) /\ walk' = Idle
        /\ sent' = sent /\ hist' = hist /\ knobs' = knobs
    BY <1>12 DEF ReportEnd
  <2>2. Good(list', sent')
    BY <2>1, DelNodeFacts
  <2> QED  BY <1>1, <1>2, <1>4, <2>1, <2>2
<1>13. ASSUME NEW alg, NEW boost, NEW m \in Boosts, NEW r \in Retrans,
              LinkQuality(alg, boost, m, r)
       PROVE  ListInv'
  <2>1. KnobsOk'
    BY <1>13 DEF LinkQuality
  <2> QED  BY <1>1, <1>2, <1>4, <1>13, <2>1 DEF LinkQuality
<1>14. CASE Tick
  <2>1. Good(list', sent)
    BY <1>14, TickFacts
  <2> QED  BY <1>1, <1>2, <1>4, <1>14, <2>1 DEF Tick
<1>15. ASSUME NEW new, NEW moved, Report(new, moved)  PROVE ListInv'
  <2>1. /\ walk = Idle /\ list' = list /\ sent' = sent /\ knobs' = knobs /\ walk' = walk
        /\ hist' = [hist EXCEPT !.rcvd = @ \cup {sent[sn + 1] : sn \in new}]
    BY <1>15 DEF Report
  <2>2. DOMAIN hist' = {"free", "conf", "rcvd"}
    BY <1>2, <2>1
  <2> QED  BY <1>1, <1>2, <1>4, <2>1, <2>2
<1>16. CASE UNCHANGED vars
  BY <1>16 DEF vars, ListInv
<1> QED
  BY <1>5, <1>6, <1>7, <1>8, <1>9, <1>10, <1>11, <1>12, <1>13, <1>14, <1>15, <1>16 DEF Next

\* The list of unconfirmed packets is in the order in which they were last
\* sent (PackRetransmit, PushPack, CloneBoostNode, DelNodeByFirstSn), for every
\* number of frames and every setting: the loops of ProcAck and ProcNack may
\* stop at the first number that a report does not cover.
THEOREM SendOrder == Spec => []InSendOrder
<1>1. ListInv => InSendOrder
  <2> SUFFICES ASSUME ListInv  PROVE InSendOrder
    OBVIOUS
  <2>1. DOMAIN list = 1 .. Len(list)
    BY SeqFacts DEF ListInv, Good
  <2> QED  BY <2>1 DEF ListInv, Good, InSendOrder
<1> QED  BY <1>1, ListInit, ListNext, PTL DEF Spec
-----------------------------------------------------------------------------
(* ConfInv is inductive: a confirmed frame is sent no more *)

\* first_sn_vec has room for the frame of the next node (MAX_RSV_WIN_SIZE).
VecHasRoom == walk.kind = "report" /\ walk.i # 0 => Len(walk.firsts) < FirstMax

LEMMA ConfInit == Init => ConfInv
<1> SUFFICES ASSUME Init  PROVE ConfInv
  OBVIOUS
<1>1. list = <<>> /\ hist.conf = {} /\ Len(<<>>) = 0
  BY EmptySeq DEF Init
<1> QED  BY <1>1 DEF ConfInv

LEMMA ConfNext == ListInv /\ ListInv' /\ ConfInv /\ VecHasRoom /\ [Next]_vars => ConfInv'
<1> SUFFICES ASSUME ListInv, ListInv', ConfInv, VecHasRoom, [Next]_vars  PROVE ConfInv'
  OBVIOUS
<1>1. SentOk(sent) /\ IsSeq(sent) /\ Len(sent) \in Nat /\ Len(list) \in Nat
  BY SeqFacts DEF ListInv, SentOk, Good
<1> DEFINE Sent(f) == \E k \in 1 .. Len(sent) : sent[k] = f
           InVec(f) == \E j \in 1 .. Len(walk.firsts) : walk.firsts[j] = f
           InNewVec(f) == \E j \in 1 .. Len(walk'.firsts) : walk'.firsts[j] = f
<1>2. /\ \A f \in hist.conf : Sent(f)
      /\ \A k \in 1 .. Len(list) : list[k].first \in hist.conf =>
            walk.kind = "report" /\ InVec(list[k].first)
  BY DEF ConfInv
<1>3. ASSUME NEW f, Sent(f), NEW g, sent' = sent \/ sent' = Append(sent, g)
      PROVE  Sent(f)'
  <2>1. PICK k \in 1 .. Len(sent) : sent[k] = f
    BY <1>3
  <2>2. k \in 1 .. Len(sent') /\ sent'[k] = f
    BY <1>1, <1>3, <2>1, AppendFacts
  <2> QED  BY <2>2
<1>4. Len(sent) \notin hist.conf
  <2>1. \A k \in 1 .. Len(sent) : sent[k] # Len(sent)
    BY <1>1 DEF SentOk
  <2> QED  BY <1>2, <2>1
\* Steps that leave conf and the array alone and list no other frames.
<1>5. ASSUME hist'.conf = hist.conf, NEW g, sent' = sent \/ sent' = Append(sent, g),
             From(list', list), walk'.kind = walk.kind, walk'.firsts = walk.firsts
      PROVE  ConfInv'
  <2>1. \A f \in hist'.conf : Sent(f)'
    BY <1>2, <1>3, <1>5
  <2>2. ASSUME NEW k \in 1 .. Len(list'), list'[k].first \in hist'.conf
        PROVE  walk'.kind = "report" /\ InNewVec(list'[k].first)
    <3>1. PICK j \in 1 .. Len(list) : list'[k].first = list[j].first
      BY <1>5 DEF From
    <3> QED  BY <1>2, <1>5, <2>2, <3>1
  <2> QED  BY <2>1, <2>2 DEF ConfInv
\* Steps of an idle session that list no other frames.
<1>6. ASSUME hist'.conf = hist.conf, sent' = sent, From(list', list), walk = Idle
      PROVE  ConfInv'
  <2>1. \A f \in hist'.conf : Sent(f)'
    BY <1>2, <1>6
  <2>2. walk.kind # "report"
    BY <1>6, IdleFacts
  <2>3. \A k \in 1 .. Len(list') : list'[k].first \notin hist'.conf
    BY <1>2, <1>6, <2>2 DEF From
  <2> QED  BY <2>1, <2>3 DEF ConfInv
<1>7. From(list, list)
  BY DEF From
<1>8. ASSUME NEW ok, NEW okBoost, SendFrame(ok, okBoost)  PROVE ConfInv'
  <2>1. /\ sent' = Append(sent, Len(sent)) /\ hist'.conf = hist.conf /\ walk = Idle
        /\ \A j \in 1 .. Len(list') : \/ list'[j].first = Len(sent)
                                      \/ \E k \in 1 .. Len(list) : list'[j] = list[k]
    BY <1>8, SendFrameFacts
  <2>2. \A f \in hist'.conf : Sent(f)'
    BY <1>2, <1>3, <2>1
  <2>3. walk.kind # "report"
    BY <2>1, IdleFacts
  <2>4. \A k \in 1 .. Len(list') : list'[k].first \notin hist'.conf
    BY <1>2, <1>4, <2>1, <2>3
  <2> QED  BY <2>2, <2>4 DEF ConfInv
<1>9. CASE CheckRtoRetran
  <2>1. From(list', list) /\ hist'.conf = hist.conf
    <3>1. CASE knobs.alg
      BY <1>7, <1>9, <3>1 DEF CheckRtoRetran
    <3>2. CASE ~knobs.alg
      <4>1. list' = <<>> /\ hist' = [hist EXCEPT !.free = @ \cup Listed]
        BY <1>9, <3>2 DEF CheckRtoRetran
      <4>2. Len(<<>>) = 0
        BY EmptySeq
      <4>3. hist'.conf = hist.conf
        BY <4>1 DEF ListInv
      <4> QED  BY <4>1, <4>2, <4>3 DEF From
    <3> QED  BY <3>1, <3>2
  <2> QED  BY <1>6, <1>9, <2>1 DEF CheckRtoRetran
<1>10. CASE RtoEnd
  <2>1. \A k \in 1 .. Len(list) : list[k].first \notin hist.conf
    BY <1>2, <1>10 DEF RtoEnd
  <2> QED  BY <1>2, <1>10, <2>1 DEF RtoEnd, ConfInv
<1>11. ASSUME NEW ok, RtoStep(ok)  PROVE ConfInv'
  <2>1. walk.i # 0 /\ RtoCases(ok) /\ hist' = hist
    BY <1>11, RtoStepCases
  <2>2. CASE Release
    BY <1>5, <2>1, <2>2, ReleaseFacts DEF WalkOn
  <2>3. CASE RetryLater(list[walk.i], ok)
    BY <1>5, <2>1, <2>3, RetryLaterFacts DEF WalkOn
  <2>4. CASE SendAgain(list[walk.i])
    BY <1>5, <2>1, <2>4, SendAgainFacts DEF WalkOn
  <2>5. CASE Keep
    BY <1>5, <1>7, <2>1, <2>5, KeepFacts DEF WalkOn
  <2> QED  BY <2>1, <2>2, <2>3, <2>4, <2>5 DEF RtoCases
<1>12. ASSUME NEW fb, ProcReport(fb)  PROVE ConfInv'
  BY <1>6, <1>7, <1>12 DEF ProcReport
<1>13. ASSUME NEW fb, LoseReport(fb)  PROVE ConfInv'
  BY <1>6, <1>7, <1>13 DEF LoseReport
<1>14. CASE ReportStep
  <2> DEFINE n == list[walk.i]
             v == Verdict(walk.fb, n.sn)
  <2>1. walk.kind = "report" /\ walk.i # 0 /\ ReportCases(v)
    BY <1>14, ReportStepCases
  <2>2. CASE Drop(n) /\ (hist' = hist \/ hist' = [hist EXCEPT !.conf = @ \cup {n.first}])
    <3>1. /\ sent' = sent /\ From(list', list) /\ walk'.kind = "report"
          /\ walk'.firsts = Remember(n)
      BY <2>1, <2>2, DropFacts DEF WalkOn
    <3>2. \A f \in hist'.conf : f \in hist.conf \/ f = n.first
      BY <2>2 DEF ListInv
    <3>3. Sent(n.first)
      BY <2>1, AtNode
    <3>4. \A f \in hist'.conf : Sent(f)'
      BY <1>2, <3>1, <3>2, <3>3
    <3>5. InNewVec(n.first)
      <4>1. Len(walk.firsts) < FirstMax
        BY <2>1 DEF VecHasRoom
      <4> HIDE DEF n
      <4>2. \E k \in 1 .. Len(Remember(n)) : Remember(n)[k] = n.first
        BY <4>1, RememberFacts
      <4> QED  BY <3>1, <4>2
    <3>6. \A f : InVec(f) => InNewVec(f)
      <4> SUFFICES ASSUME NEW f, NEW j \in 1 .. Len(walk.firsts), walk.firsts[j] = f
                   PROVE  InNewVec(f)
        OBVIOUS
      <4>1. PICK k \in 1 .. Len(Remember(n)) : Remember(n)[k] = walk.firsts[j]
        BY RememberFacts
      <4> QED  BY <3>1, <4>1
    <3>7. ASSUME NEW k \in 1 .. Len(list'), list'[k].first \in hist'.conf
          PROVE  InNewVec(list'[k].first)
      <4>1. PICK j \in 1 .. Len(list) : list'[k].first = list[j].first
        BY <3>1 DEF From
      <4>2. CASE list[j].first \in hist.conf
        <5>1. InVec(list[j].first)
          BY <1>2, <4>2
        <5> HIDE DEF InVec, InNewVec
        <5> QED  BY <3>6, <4>1, <5>1
      <4>3. CASE list[j].first = n.first
        BY <3>5, <4>1, <4>3
      <4> QED  BY <3>2, <3>7, <4>1, <4>2, <4>3
    <3> QED  BY <3>1, <3>4, <3>7 DEF ConfInv
  <2>3. CASE SendAgain(n) /\ hist' = hist
    BY <1>5, <2>1, <2>3, SendAgainFacts DEF WalkOn
  <2>4. CASE Keep /\ hist' = hist
    BY <1>5, <1>7, <2>1, <2>4, KeepFacts DEF WalkOn
  <2> QED  BY <2>1, <2>2, <2>3, <2>4 DEF ReportCases
<1>15. CASE ReportEnd
  <2> DEFINE m == DelNodeByFirstSn(list, walk.firsts)
  <2>1. list' = m /\ sent' = sent /\ hist' = hist
    BY <1>15 DEF ReportEnd
  <2>2. /\ From(m, list)
        /\ \A j \in 1 .. Len(m), i \in 1 .. Len(walk.firsts) : m[j].first # walk.firsts[i]
    BY DelNodeFacts
  <2> HIDE DEF m
  <2>3. \A k \in 1 .. Len(list') : list'[k].first \notin hist'.conf
    <3> SUFFICES ASSUME NEW k \in 1 .. Len(m), m[k].first \in hist.conf  PROVE FALSE
      BY <2>1
    <3>1. PICK j \in 1 .. Len(list) : m[k].first = list[j].first
      BY <2>2 DEF From
    <3>2. InVec(m[k].first)
      BY <1>2, <3>1
    <3> QED  BY <2>2, <3>2
  <2> QED  BY <1>2, <2>1, <2>3 DEF ConfInv
<1>16. ASSUME NEW alg, NEW boost, NEW m, NEW r, LinkQuality(alg, boost, m, r)
       PROVE  ConfInv'
  BY <1>6, <1>7, <1>16 DEF LinkQuality
<1>17. CASE Tick
  <2>1. From(list', list)
    BY <1>17, TickFacts DEF From
  <2> QED  BY <1>6, <1>17, <2>1 DEF Tick
<1>18. ASSUME NEW new, NEW moved, Report(new, moved)  PROVE ConfInv'
  <2>1. /\ walk = Idle /\ list' = list /\ sent' = sent
        /\ hist' = [hist EXCEPT !.rcvd = @ \cup {sent[sn + 1] : sn \in new}]
    BY <1>18 DEF Report
  <2>2. hist'.conf = hist.conf
    BY <2>1 DEF ListInv
  <2> QED  BY <1>6, <1>7, <2>1, <2>2
<1>19. CASE UNCHANGED vars
  BY <1>19 DEF vars, ConfInv
<1> QED
  BY <1>8, <1>9, <1>10, <1>11, <1>12, <1>13, <1>14, <1>15, <1>16, <1>17, <1>18, <1>19 DEF Next

\* Once ProcAck or ProcNack has worked through a report, none of the nodes of a
\* frame it confirmed is left, be it a first copy, a retransmission or a boost
\* copy, and the frame never gets one again: provided that first_sn_vec, of
\* MAX_RSV_WIN_SIZE entries, does not fill up while a report is worked on.
THEOREM ConfirmedSentNoMore == Spec /\ []VecHasRoom => []ConfirmedGone
<1>1. ListInv /\ ConfInv => ConfirmedGone
  <2> SUFFICES ASSUME ListInv, ConfInv, walk = Idle, NEW f \in hist.conf, f \in Listed
               PROVE  FALSE
    BY DEF ConfirmedGone
  <2>1. DOMAIN list = 1 .. Len(list)
    BY SeqFacts DEF ListInv, Good
  <2>2. PICK k \in 1 .. Len(list) : list[k].first = f
    BY <2>1 DEF Listed
  <2> QED  BY <2>2, IdleFacts DEF ConfInv
<1> QED  BY <1>1, ListInit, ListNext, ConfInit, ConfNext, PTL DEF Spec
-----------------------------------------------------------------------------
(* CopyInv is inductive: a frame is sent a bounded number of times *)

Most == Max(Retrans)
MostBoost == Max({DefBoost} \cup Boosts)
Bound == 1 + IF Reliable THEN 2 * (Most + MostBoost) + 1 ELSE Most + MostBoost

\* How often a node may still be sent, by itself and, as long as it has not been
\* tried once more on a reliable stream, by what it then becomes.
Left(n) ==
    LET limit == IF n.boost THEN n.thr ELSE Most
    IN  (IF n.cnt < limit THEN limit - n.cnt ELSE 0)
            + IF Reliable /\ ~n.again THEN Most + MostBoost + 1 ELSE 0

\* A boost node is never tried once more, and only one that was has a limit
\* above the settings.
Frugal(n) ==
    /\ n.boost \in BOOLEAN /\ n.again \in BOOLEAN /\ n.cnt \in Nat
    /\ n.thr \in 0 .. MostBoost + 1
    /\ ~n.again => n.thr <= MostBoost
    /\ n.boost => n.again
AllFrugal(l) == IsSeq(l) /\ \A k \in 1 .. Len(l) : Frugal(l[k])

\* What the nodes of f may still send, one element for each copy.
Cap == 2 * Most + 2 * MostBoost + 2
Units(l, f) ==
    {p \in (1 .. Len(l)) \X (1 .. Cap) : l[p[1]].first = f /\ p[2] <= Left(l[p[1]])}
Budget(l, f) == Cardinality(Units(l, f))
Share(n, f) == IF n.first = f THEN Left(n) ELSE 0

Spent(s, l) == \A k \in 1 .. Len(s) : TimesIn(s, s[k]) + Budget(l, s[k]) <= Bound

CopyInv == AllFrugal(list) /\ Spent(sent, list)

LEMMA MostFacts ==
    /\ Most \in Nat /\ Most >= 1 /\ MostBoost \in Nat /\ Cap \in Nat
    /\ \A r \in Retrans : r \in Nat /\ r <= Most
    /\ \A b \in Boosts \cup {DefBoost} : b \in Nat /\ b <= MostBoost
<1>1. Most \in Retrans /\ \A r \in Retrans : Most >= r
  BY FiniteMax, ArqAssumption DEF Most
<1>2. Most \in Nat /\ \A r \in Retrans : r \in Nat /\ r <= Most
  BY <1>1, ArqAssumption
<1>3. PICK r \in Retrans : r # 0
  BY ArqAssumption
<1>4. Most >= 1
  BY <1>2, <1>3
<1> DEFINE T == {DefBoost} \cup Boosts
<1>5. T \subseteq Nat /\ T # {}
  BY ArqAssumption
<1>6. IsFiniteSet(T)
  BY ArqAssumption, FS_Singleton, FS_Union
<1>7. MostBoost \in T /\ \A b \in T : MostBoost >= b
  <2> HIDE DEF T
  <2>1. MostBoost = Max(T)
    BY DEF MostBoost, T
  <2> QED  BY <1>5, <1>6, <2>1, FiniteMax
<1>8. MostBoost \in Nat /\ \A b \in Boosts \cup {DefBoost} : b \in Nat /\ b <= MostBoost
  <2>1. \A b \in Boosts \cup {DefBoost} : b \in T
    OBVIOUS
  <2> HIDE DEF T
  <2>2. MostBoost \in Nat /\ \A b \in T : b \in Nat /\ b <= MostBoost
    BY <1>5, <1>7
  <2> QED  BY <2>1, <2>2
<1>9. Cap \in Nat
  BY <1>2, <1>8 DEF Cap
<1> QED  BY <1>2, <1>4, <1>8, <1>9

LEMMA LeftFacts ==
    ASSUME NEW n, Frugal(n)
    PROVE  Left(n) \in 0 .. Cap
<1>1. Most \in Nat /\ MostBoost \in Nat
  BY MostFacts
<1>2. CASE n.boost
  <2>1. n.again
    BY <1>2 DEF Frugal
  <2>2. Left(n) = IF n.cnt < n.thr THEN n.thr - n.cnt ELSE 0
    BY <1>1, <1>2, <2>1 DEF Left, Frugal
  <2> QED  BY <1>1, <2>2 DEF Frugal, Cap
<1>3. CASE ~n.boost
  <2> DEFINE a == IF n.cnt < Most THEN Most - n.cnt ELSE 0
             b == IF Reliable /\ ~n.again THEN Most + MostBoost + 1 ELSE 0
  <2>1. Left(n) = a + b
    BY <1>3 DEF Left
  <2>2. a \in 0 .. Most
    BY <1>1 DEF Frugal
  <2>3. b \in 0 .. Most + MostBoost + 1
    BY <1>1
  <2> HIDE DEF a, b
  <2> QED  BY <1>1, <2>1, <2>2, <2>3 DEF Cap
<1> QED  BY <1>2, <1>3 DEF Frugal

LEMMA UnitsFinite ==
    ASSUME NEW l, IsSeq(l), NEW f
    PROVE  IsFiniteSet(Units(l, f)) /\ Budget(l, f) \in Nat
<1>1. Len(l) \in Nat /\ Cap \in Nat
  BY SeqFacts, MostFacts
<1>2. IsFiniteSet(1 .. Len(l)) /\ IsFiniteSet(1 .. Cap)
  BY <1>1, FS_Interval
<1>3. IsFiniteSet((1 .. Len(l)) \X (1 .. Cap))
  BY <1>2, FS_Product
<1>4. Units(l, f) \in SUBSET ((1 .. Len(l)) \X (1 .. Cap))
  BY DEF Units
<1> QED  BY <1>3, <1>4, FS_Subset, FS_CardinalityType DEF Budget

\* The elements of one node.
Row(l, i) == {i} \X (1 .. Left(l[i]))

LEMMA RowFacts ==
    ASSUME NEW l, NEW i, Frugal(l[i])
    PROVE  IsFiniteSet(Row(l, i)) /\ Cardinality(Row(l, i)) = Left(l[i])
<1>1. Left(l[i]) \in Nat
  BY LeftFacts, MostFacts
<1>2. IsFiniteSet(1 .. Left(l[i])) /\ Cardinality(1 .. Left(l[i])) = Left(l[i])
  BY <1>1, FS_Interval
<1>3. IsFiniteSet({i}) /\ Cardinality({i}) = 1
  BY FS_Singleton
<1>4. IsFiniteSet(Row(l, i)) /\ Cardinality(Row(l, i)) = 1 * Left(l[i])
  <2> DEFINE S == {i}
             T == 1 .. Left(l[i])
  <2>1. Row(l, i) = S \X T
    BY DEF Row
  <2>2. IsFiniteSet(S) /\ IsFiniteSet(T) /\ Cardinality(S) = 1 /\ Cardinality(T) = Left(l[i])
    BY <1>2, <1>3
  <2> HIDE DEF S, T
  <2>3. IsFiniteSet(S \X T) /\ Cardinality(S \X T) = Cardinality(S) * Cardinality(T)
    BY <2>2, FS_Product
  <2> QED  BY <2>1, <2>2, <2>3
<1> QED  BY <1>1, <1>4

\* A list whose nodes of f stand, in other places, among the nodes of another
\* one has no larger budget, nor one larger than what the others leave.
LEMMA BudgetMapped ==
    ASSUME NEW l, AllFrugal(l), NEW m, IsSeq(m), NEW f,
           NEW q \in [1 .. Len(m) -> 1 .. Len(l)],
           \A j, k \in 1 .. Len(m) : q[j] = q[k] => j = k,
           \A j \in 1 .. Len(m) : m[j].first = l[q[j]].first /\ Left(m[j]) = Left(l[q[j]])
    PROVE  /\ Budget(m, f) <= Budget(l, f)
           /\ \A i \in 1 .. Len(l) : (\A j \in 1 .. Len(m) : q[j] # i) =>
                 Budget(m, f) + Share(l[i], f) <= Budget(l, f)
<1> DEFINE U == Units(m, f)
           V == Units(l, f)
           g == [p \in U |-> <<q[p[1]], p[2]>>]
<1>1. IsFiniteSet(U) /\ IsFiniteSet(V) /\ Cardinality(U) \in Nat /\ Cardinality(V) \in Nat
  BY UnitsFinite DEF AllFrugal, Budget
<1>2. \A p \in U : /\ p = <<p[1], p[2]>> /\ p[1] \in 1 .. Len(m) /\ p[2] \in 1 .. Cap
                   /\ m[p[1]].first = f /\ p[2] <= Left(m[p[1]])
  BY DEF Units
<1>3. \A a \in 1 .. Len(l), b \in 1 .. Cap :
         l[a].first = f /\ b <= Left(l[a]) => <<a, b>> \in V
  BY DEF Units
<1> HIDE DEF U, V
<1>4. \A p \in U : g[p] \in V /\ g[p] = <<q[p[1]], p[2]>>
  BY <1>2, <1>3
<1>5. \A p, r \in U : g[p] = g[r] => p = r
  <2> SUFFICES ASSUME NEW p \in U, NEW r \in U, g[p] = g[r]  PROVE p = r
    OBVIOUS
  <2>1. q[p[1]] = q[r[1]] /\ p[2] = r[2]
    BY <1>4
  <2>2. p[1] = r[1]
    BY <1>2, <2>1
  <2> QED  BY <1>2, <2>1, <2>2
<1>6. Cardinality(U) <= Cardinality(V)
  <2>1. g \in [U -> V]
    BY <1>4
  <2> HIDE DEF g
  <2>2. g \in Injection(U, V)
    BY <1>5, <2>1 DEF Injection, IsInjective
  <2> QED  BY <1>1, <2>2, FS_Injection
<1>7. ASSUME NEW i \in 1 .. Len(l), \A j \in 1 .. Len(m) : q[j] # i
      PROVE  Cardinality(U) + Share(l[i], f) <= Cardinality(V)
  <2>1. CASE l[i].first # f
    BY <1>1, <1>6, <2>1 DEF Share
  <2>2. CASE l[i].first = f
    <3> DEFINE W == Row(l, i)
    <3>1. Frugal(l[i])
      BY DEF AllFrugal
    <3>2. /\ IsFiniteSet(W) /\ Cardinality(W) = Left(l[i])
          /\ Left(l[i]) \in 0 .. Cap /\ Cap \in Nat
      BY <3>1, RowFacts, LeftFacts, MostFacts
    <3>3. \A p \in W : p \in V /\ p[1] = i
      <4> SUFFICES ASSUME NEW p \in W  PROVE p \in V /\ p[1] = i
        OBVIOUS
      <4>1. p = <<i, p[2]>> /\ p[1] = i /\ p[2] \in 1 .. Left(l[i])
        BY DEF Row
      <4>2. p[2] \in 1 .. Cap /\ p[2] <= Left(l[i])
        BY <3>2, <4>1
      <4> QED  BY <1>3, <2>2, <4>1, <4>2
    <3> HIDE DEF W
    <3>4. g \in [U -> V \ W]
      <4>1. \A p \in U : g[p] \notin W
        BY <1>2, <1>4, <1>7, <3>3
      <4> QED  BY <1>4, <4>1
    <3> HIDE DEF g
    <3>5. g \in Injection(U, V \ W)
      BY <1>5, <3>4 DEF Injection, IsInjective
    <3>6. IsFiniteSet(V \ W) /\ Cardinality(V \ W) = Cardinality(V) - Cardinality(V \cap W)
      BY <1>1, FS_Difference
    <3>7. V \cap W = W
      BY <3>3
    <3>8. Cardinality(U) <= Cardinality(V \ W)
      BY <3>5, <3>6, FS_Injection
    <3>9. Cardinality(V \ W) = Cardinality(V) - Left(l[i])
      BY <3>2, <3>6, <3>7
    <3> QED  BY <1>1, <2>2, <3>2, <3>8, <3>9 DEF Share
  <2> QED  BY <2>1, <2>2
<1> QED  BY <1>6, <1>7 DEF Budget, U, V

LEMMA BudgetThinned ==
    ASSUME NEW l, AllFrugal(l), NEW m, Thinned(m, l), NEW f
    PROVE  AllFrugal(m) /\ Budget(m, f) <= Budget(l, f)
<1>1. PICK q \in [1 .. Len(m) -> 1 .. Len(l)] :
          /\ \A j, k \in 1 .. Len(m) : j < k => q[j] < q[k]
          /\ \A j \in 1 .. Len(m) : m[j] = l[q[j]]
  BY DEF Thinned
<1>2. IsSeq(m) /\ IsSeq(l) /\ Len(m) \in Nat /\ Len(l) \in Nat
  BY SeqFacts DEF Thinned, AllFrugal
<1>3. \A j, k \in 1 .. Len(m) : q[j] = q[k] => j = k
  <2> SUFFICES ASSUME NEW j \in 1 .. Len(m), NEW k \in 1 .. Len(m), j # k
               PROVE  q[j] # q[k]
    OBVIOUS
  <2>1. j < k \/ k < j
    BY <1>2
  <2>2. q[j] \in Int /\ q[k] \in Int
    BY <1>1, <1>2
  <2> QED  BY <1>1, <2>1, <2>2
<1>4. AllFrugal(m)
  BY <1>1, <1>2 DEF AllFrugal
<1> QED  BY <1>1, <1>2, <1>3, <1>4, BudgetMapped

LEMMA BudgetRemoved ==
    ASSUME NEW l, AllFrugal(l), NEW i \in 1 .. Len(l), NEW f
    PROVE  /\ AllFrugal(RemoveAt(l, i))
           /\ Budget(RemoveAt(l, i), f) + Share(l[i], f) <= Budget(l, f)
<1> DEFINE m == RemoveAt(l, i)
           q == [k \in 1 .. Len(l) - 1 |-> IF k < i THEN k ELSE k + 1]
<1>1. IsSeq(l) /\ Len(l) \in Nat
  BY SeqFacts DEF AllFrugal
<1>2. /\ IsSeq(m) /\ Len(m) = Len(l) - 1
      /\ \A k \in 1 .. Len(l) - 1 : m[k] = IF k < i THEN l[k] ELSE l[k + 1]
  BY <1>1, RemoveFacts
<1> HIDE DEF m
<1>3. q \in [1 .. Len(m) -> 1 .. Len(l)]
  BY <1>1, <1>2
<1>4. \A k \in 1 .. Len(m) : q[k] = IF k < i THEN k ELSE k + 1
  BY <1>2
<1> HIDE DEF q
<1>5. \A j, k \in 1 .. Len(m) : q[j] = q[k] => j = k
  BY <1>1, <1>2, <1>4
<1>6. \A j \in 1 .. Len(m) : q[j] # i /\ m[j] = l[q[j]]
  BY <1>1, <1>2, <1>4
<1>7. AllFrugal(m)
  BY <1>2, <1>3, <1>6 DEF AllFrugal
<1>8. Budget(m, f) + Share(l[i], f) <= Budget(l, f)
  BY <1>2, <1>3, <1>5, <1>6, BudgetMapped
<1> QED  BY <1>7, <1>8 DEF m

LEMMA BudgetAppended ==
    ASSUME NEW l, AllFrugal(l), NEW e, Frugal(e), NEW f
    PROVE  /\ AllFrugal(Append(l, e))
           /\ Budget(Append(l, e), f) = Budget(l, f) + Share(e, f)
<1> DEFINE m == Append(l, e)
           z == Len(l) + 1
<1>1. IsSeq(l) /\ Len(l) \in Nat
  BY SeqFacts DEF AllFrugal
<1>2. /\ IsSeq(m) /\ Len(m) = z /\ m[z] = e
      /\ \A k \in 1 .. Len(l) : m[k] = l[k]
  BY <1>1, AppendFacts
<1> HIDE DEF m
<1>3. \A k \in 1 .. z : k \in 1 .. Len(l) \/ k = z
  BY <1>1
<1>4. AllFrugal(m)
  BY <1>2, <1>3 DEF AllFrugal
<1>5. /\ IsFiniteSet(Units(l, f)) /\ IsFiniteSet(Row(m, z)) /\ Cardinality(Row(m, z)) = Left(e)
      /\ Budget(l, f) \in Nat /\ Left(e) \in 0 .. Cap /\ Cap \in Nat
  BY <1>1, <1>2, UnitsFinite, RowFacts, LeftFacts, MostFacts
<1>6. \A p : p \in Units(l, f) <=>
         /\ p \in (1 .. Len(l)) \X (1 .. Cap) /\ l[p[1]].first = f /\ p[2] <= Left(l[p[1]])
  BY DEF Units
<1>7. \A p : p \in Units(m, f) <=>
         /\ p \in (1 .. z) \X (1 .. Cap) /\ m[p[1]].first = f /\ p[2] <= Left(m[p[1]])
  BY <1>2 DEF Units
<1>8. CASE e.first = f
  <2>1. \A p : p \in Row(m, z) <=> p \in {z} \X (1 .. Left(e))
    BY <1>2 DEF Row
  <2>2. ASSUME NEW p \in Units(m, f)  PROVE p \in Units(l, f) \cup Row(m, z)
    <3>1. /\ p = <<p[1], p[2]>> /\ p[1] \in 1 .. z /\ p[2] \in 1 .. Cap
          /\ m[p[1]].first = f /\ p[2] <= Left(m[p[1]])
      BY <1>7
    <3>2. CASE p[1] = z
      BY <1>2, <1>5, <2>1, <3>1, <3>2
    <3>3. CASE p[1] \in 1 .. Len(l)
      BY <1>2, <1>6, <3>1, <3>3
    <3> QED  BY <1>3, <3>1, <3>2, <3>3
  <2>3. ASSUME NEW p \in Units(l, f)  PROVE p \in Units(m, f) /\ p \notin Row(m, z)
    <3>1. /\ p = <<p[1], p[2]>> /\ p[1] \in 1 .. Len(l) /\ p[2] \in 1 .. Cap
          /\ l[p[1]].first = f /\ p[2] <= Left(l[p[1]])
      BY <1>6
    <3>2. p[1] \in 1 .. z /\ p[1] # z
      BY <1>1, <3>1
    <3> QED  BY <1>2, <1>7, <2>1, <3>1, <3>2
  <2>4. ASSUME NEW p \in Row(m, z)  PROVE p \in Units(m, f)
    <3>1. p = <<z, p[2]>> /\ p[1] = z /\ p[2] \in 1 .. Left(e)
      BY <2>1
    <3>2. z \in 1 .. z /\ p[2] \in 1 .. Cap /\ p[2] <= Left(e)
      BY <1>1, <1>5, <3>1
    <3> QED  BY <1>2, <1>7, <1>8, <3>1, <3>2
  <2>5. Units(m, f) = Units(l, f) \cup Row(m, z) /\ Units(l, f) \cap Row(m, z) = {}
    BY <2>2, <2>3, <2>4
  <2>6. Cardinality(Units(m, f)) = Cardinality(Units(l, f)) + Left(e) - 0
    BY <1>5, <2>5, FS_Union, FS_EmptySet
  <2> QED  BY <1>4, <1>5, <1>8, <2>6 DEF Budget, Share, m
<1>9. CASE e.first # f
  <2>1. \A p : p \in Units(m, f) <=> p \in Units(l, f)
    BY <1>1, <1>2, <1>3, <1>6, <1>7, <1>9
  <2>2. Units(m, f) = Units(l, f)
    BY <2>1
  <2> QED  BY <1>4, <1>5, <1>9, <2>2 DEF Budget, Share, m
<1> QED  BY <1>8, <1>9

-----------------------------------------------------------------------------
(* What a copy costs *)

LEMMA ResentCosts ==
    ASSUME NEW n, DOMAIN n = Fields, Frugal(n), n.cnt < (IF n.boost THEN n.thr ELSE Most)
    PROVE  /\ Frugal(Resent(n)) /\ Resent(n).first = n.first
           /\ Left(Resent(n)) + 1 = Left(n)
<1> DEFINE r == Resent(n)
<1>1. /\ r.first = n.first /\ r.cnt = n.cnt + 1 /\ r.boost = n.boost
      /\ r.thr = n.thr /\ r.again = n.again
  BY DEF Resent, Fields
<1> HIDE DEF r
<1>2. Frugal(r)
  BY <1>1 DEF Frugal
<1> DEFINE limit == IF n.boost THEN n.thr ELSE Most
           more == IF Reliable /\ ~n.again THEN Most + MostBoost + 1 ELSE 0
<1>3. /\ Left(n) = (IF n.cnt < limit THEN limit - n.cnt ELSE 0) + more
      /\ Left(r) = (IF n.cnt + 1 < limit THEN limit - (n.cnt + 1) ELSE 0) + more
  BY <1>1 DEF Left
<1>4. limit \in Nat /\ more \in Nat /\ n.cnt \in Nat /\ n.cnt < limit
  BY MostFacts DEF Frugal
<1> HIDE DEF limit, more
<1>5. Left(r) + 1 = Left(n)
  BY <1>3, <1>4
<1> QED  BY <1>1, <1>2, <1>5 DEF r

\* A node that is tried once more has put by what it, its new boost node and
\* the copy sent now need.
LEMMA AgainCosts ==
    ASSUME NEW n, DOMAIN n = Fields, Frugal(n), Reliable, ~n.boost, ~n.again, NEW ok
    PROVE  /\ Frugal(Again(n, ok)) /\ Again(n, ok).first = n.first
           /\ Frugal(Clone(Again(n, ok))) /\ Clone(Again(n, ok)).first = n.first
           /\ Left(Again(n, ok)) \in Nat /\ Left(Clone(Again(n, ok))) \in Nat
           /\ Left(Again(n, ok)) + Left(Clone(Again(n, ok))) + 1 <= Left(n)
<1> DEFINE a == Again(n, ok)
           c == Clone(a)
<1>0. Most \in Nat /\ Most >= 1 /\ MostBoost \in Nat /\ n.cnt \in Nat /\ n.thr \in 0 .. MostBoost
  BY MostFacts DEF Frugal
<1>1. /\ DOMAIN a = Fields /\ a.first = n.first /\ a.cnt = 1 /\ a.boost = n.boost
      /\ a.thr \in {n.thr, n.thr + 1} /\ a.again = TRUE
  BY DEF Again, Fields
<1> HIDE DEF a
<1>2. /\ c.first = a.first /\ c.cnt = 0 /\ c.boost = TRUE /\ c.thr = a.thr /\ c.again = TRUE
  BY <1>1 DEF Clone, Fields
<1> HIDE DEF c
<1>3. a.thr \in 0 .. MostBoost + 1
  BY <1>0, <1>1
<1>4. Frugal(a) /\ Frugal(c)
  <2>1. a.boost = FALSE
    BY <1>1 DEF Frugal
  <2>2. 1 \in Nat /\ 0 \in Nat /\ TRUE \in BOOLEAN /\ FALSE \in BOOLEAN
    OBVIOUS
  <2>3. Frugal(a)
    BY <1>1, <1>3, <2>1, <2>2 DEF Frugal
  <2>4. Frugal(c)
    BY <1>2, <1>3, <2>2 DEF Frugal
  <2> QED  BY <2>3, <2>4
<1>5. Left(a) = Most - 1
  <2>1. Left(a) = (IF 1 < Most THEN Most - 1 ELSE 0) + 0
    BY <1>1 DEF Left
  <2> QED  BY <1>0, <2>1
<1>6. Left(c) = a.thr
  <2>1. Left(c) = (IF 0 < a.thr THEN a.thr - 0 ELSE 0) + 0
    BY <1>2 DEF Left
  <2> QED  BY <1>3, <2>1
<1>7. Most + MostBoost + 1 <= Left(n)
  <2> DEFINE x == IF n.cnt < Most THEN Most - n.cnt ELSE 0
  <2>1. Left(n) = x + (Most + MostBoost + 1)
    BY DEF Left
  <2>2. x \in Nat
    BY <1>0
  <2> HIDE DEF x
  <2> QED  BY <1>0, <2>1, <2>2
<1>8. Left(n) \in Int
  BY LeftFacts, MostFacts
<1>9. Left(a) + Left(c) + 1 <= Left(n)
  BY <1>0, <1>3, <1>5, <1>6, <1>7, <1>8
<1>10. Left(a) \in Nat /\ Left(c) \in Nat
  BY <1>0, <1>3, <1>5, <1>6
<1> QED  BY <1>1, <1>2, <1>4, <1>9, <1>10 DEF a, c

\* Sending a copy of f counts for no other frame.
LEMMA TimesOther ==
    ASSUME NEW s, IsSeq(s), NEW f, NEW g, g # f
    PROVE  TimesIn(Append(s, f), g) = TimesIn(s, g)
<1>1. Len(s) \in Nat /\ DOMAIN s = 1 .. Len(s)
  BY SeqFacts
<1>2. /\ DOMAIN Append(s, f) = 1 .. Len(s) + 1
      /\ \A k \in 1 .. Len(s) : Append(s, f)[k] = s[k]
      /\ Append(s, f)[Len(s) + 1] = f
  BY AppendFacts
<1>3. {k \in DOMAIN Append(s, f) : Append(s, f)[k] = g} = {k \in DOMAIN s : s[k] = g}
  BY <1>1, <1>2
<1> QED  BY <1>3 DEF TimesIn

\* A copy of a frame sent before, paid by the budget of that frame.
LEMMA SpentAgain ==
    ASSUME NEW s, IsSeq(s), NEW l, IsSeq(l), NEW m, IsSeq(m), Spent(s, l),
           NEW f, \E k \in 1 .. Len(s) : s[k] = f,
           \A g : Budget(m, g) + (IF g = f THEN 1 ELSE 0) <= Budget(l, g)
    PROVE  Spent(Append(s, f), m)
<1> DEFINE t == Append(s, f)
<1>1. Len(s) \in Nat
  BY SeqFacts
<1>2. /\ Len(t) = Len(s) + 1 /\ t[Len(s) + 1] = f
      /\ \A k \in 1 .. Len(s) : t[k] = s[k]
  BY AppendFacts
<1> HIDE DEF t
<1>3. ASSUME NEW k \in 1 .. Len(s)  PROVE TimesIn(t, s[k]) + Budget(m, s[k]) <= Bound
  <2> DEFINE g == s[k]
  <2>1. TimesIn(s, g) + Budget(l, g) <= Bound
    BY DEF Spent
  <2>2. /\ TimesIn(s, g) \in Nat /\ Budget(l, g) \in Nat /\ Budget(m, g) \in Nat /\ Bound \in Nat
    BY TimesType, UnitsFinite, MostFacts DEF Bound
  <2>3. TimesIn(t, g) = TimesIn(s, g) + (IF g = f THEN 1 ELSE 0)
    <3>1. CASE g = f
      BY <3>1, TimesGrow DEF t
    <3>2. CASE g # f
      BY <2>2, <3>2, TimesOther DEF t
    <3> QED  BY <3>1, <3>2
  <2>4. Budget(m, g) + (IF g = f THEN 1 ELSE 0) <= Budget(l, g)
    OBVIOUS
  <2> HIDE DEF g
  <2>5. TimesIn(t, g) + Budget(m, g) <= Bound
    BY <2>1, <2>2, <2>3, <2>4
  <2> QED  BY <2>5 DEF g
<1>4. ASSUME NEW k \in 1 .. Len(t)  PROVE \E j \in 1 .. Len(s) : t[k] = s[j]
  <2>1. CASE k = Len(s) + 1
    BY <1>2, <2>1
  <2>2. CASE k \in 1 .. Len(s)
    BY <1>2, <2>2
  <2> QED  BY <1>1, <1>2, <2>1, <2>2
<1>5. Spent(t, m)
  BY <1>3, <1>4 DEF Spent
<1> QED  BY <1>5 DEF t

LEMMA SpentLess ==
    ASSUME NEW s, IsSeq(s), NEW l, IsSeq(l), NEW m, IsSeq(m), Spent(s, l),
           \A g : Budget(m, g) <= Budget(l, g)
    PROVE  Spent(s, m)
<1> SUFFICES ASSUME NEW k \in 1 .. Len(s)
             PROVE  TimesIn(s, s[k]) + Budget(m, s[k]) <= Bound
  BY DEF Spent
<1> DEFINE g == s[k]
<1>1. TimesIn(s, g) + Budget(l, g) <= Bound /\ Budget(m, g) <= Budget(l, g)
  BY DEF Spent
<1>2. TimesIn(s, g) \in Nat /\ Budget(l, g) \in Nat /\ Budget(m, g) \in Nat /\ Bound \in Nat
  BY TimesType, UnitsFinite, MostFacts DEF Bound
<1> HIDE DEF g
<1>3. TimesIn(s, g) + Budget(m, g) <= Bound
  BY <1>1, <1>2
<1> QED  BY <1>3 DEF g

LEMMA CopySendAgain ==
    ASSUME ListInv, CopyInv, walk.i # 0, SendAgain(list[walk.i]),
           list[walk.i].cnt < (IF list[walk.i].boost THEN list[walk.i].thr ELSE Most)
    PROVE  CopyInv'
<1> DEFINE n == list[walk.i]
           r == Resent(n)
           m == Append(Popped, r)
<1>1. sent' = Append(sent, n.first) /\ list' = m
  BY DEF SendAgain
<1>2. /\ walk.i \in 1 .. Len(list) /\ IsSeq(sent) /\ IsSeq(list)
      /\ \E k \in 1 .. Len(sent) : sent[k] = n.first
  BY AtNode
<1>3. DOMAIN n = Fields /\ Frugal(n) /\ n.cnt < (IF n.boost THEN n.thr ELSE Most)
  BY <1>2, AtNode DEF NodeOk, CopyInv, AllFrugal
<1> HIDE DEF n
<1>4. Frugal(r) /\ r.first = n.first /\ Left(r) + 1 = Left(n)
  BY <1>3, ResentCosts
<1>5. Left(r) \in Nat /\ Left(n) \in Nat
  BY <1>3, <1>4, LeftFacts, MostFacts
<1> HIDE DEF r
<1>6. \A f : AllFrugal(Popped) /\ Budget(Popped, f) + Share(n, f) <= Budget(list, f)
  BY <1>2, BudgetRemoved DEF CopyInv, Popped, n
<1>7. \A f : AllFrugal(m) /\ Budget(m, f) = Budget(Popped, f) + Share(r, f)
  BY <1>4, <1>6, BudgetAppended
<1> HIDE DEF m
<1>8. ASSUME NEW g  PROVE Budget(m, g) + (IF g = n.first THEN 1 ELSE 0) <= Budget(list, g)
  <2>1. Budget(Popped, g) \in Nat /\ Budget(list, g) \in Nat
    BY <1>2, <1>6, UnitsFinite DEF AllFrugal
  <2>2. Share(n, g) = Share(r, g) + (IF g = n.first THEN 1 ELSE 0) /\ Share(r, g) \in Nat
    BY <1>4, <1>5 DEF Share
  <2>3. Budget(m, g) = Budget(Popped, g) + Share(r, g)
    BY <1>7
  <2>4. Budget(Popped, g) + Share(n, g) <= Budget(list, g)
    BY <1>6
  <2> QED  BY <2>1, <2>2, <2>3, <2>4
<1>9. IsSeq(m)
  BY <1>7 DEF AllFrugal
<1>10. Spent(Append(sent, n.first), m)
  BY <1>2, <1>8, <1>9, SpentAgain DEF CopyInv
<1>11. AllFrugal(m)
  BY <1>7
<1> QED  BY <1>1, <1>10, <1>11 DEF CopyInv

LEMMA CopyRetryLater ==
    ASSUME ListInv, CopyInv, walk.i # 0, NEW ok, RetryLater(list[walk.i], ok),
           Reliable, ~list[walk.i].boost, ~list[walk.i].again
    PROVE  CopyInv'
<1> DEFINE n == list[walk.i]
           a == Again(n, ok)
           c == Clone(a)
           b == Cloned(Popped, a, ok)
           m == Append(b, a)
<1>1. sent' = Append(sent, n.first) /\ list' = m
  BY DEF RetryLater
<1>2. /\ walk.i \in 1 .. Len(list) /\ IsSeq(sent) /\ IsSeq(list)
      /\ \E k \in 1 .. Len(sent) : sent[k] = n.first
  BY AtNode
<1>3. DOMAIN n = Fields /\ Frugal(n) /\ ~n.boost /\ ~n.again
  BY <1>2, AtNode DEF NodeOk, CopyInv, AllFrugal
<1> HIDE DEF n
<1>4. /\ Frugal(a) /\ a.first = n.first /\ Frugal(c) /\ c.first = n.first
      /\ Left(a) \in Nat /\ Left(c) \in Nat /\ Left(a) + Left(c) + 1 <= Left(n)
  BY <1>3, AgainCosts
<1>5. Left(n) \in Nat
  BY <1>3, LeftFacts, MostFacts
<1>6. \A f : AllFrugal(Popped) /\ Budget(Popped, f) + Share(n, f) <= Budget(list, f)
  BY <1>2, BudgetRemoved DEF CopyInv, Popped, n
<1> HIDE DEF a
<1>7. b = Append(Popped, c) \/ b = Popped
  BY DEF Cloned
<1> HIDE DEF c, b
<1>8. \A f : AllFrugal(b) /\ Budget(b, f) <= Budget(Popped, f) + Share(c, f)
  <2>1. CASE b = Append(Popped, c)
    <3> TAKE f
    <3>1. AllFrugal(b) /\ Budget(b, f) = Budget(Popped, f) + Share(c, f)
      BY <1>4, <1>6, <2>1, BudgetAppended
    <3>2. Budget(b, f) \in Nat
      BY <3>1, UnitsFinite DEF AllFrugal
    <3> QED  BY <3>1, <3>2
  <2>2. CASE b = Popped
    <3> TAKE f
    <3>1. Budget(b, f) \in Nat /\ Share(c, f) \in Nat
      BY <1>4, <1>6, <2>2, UnitsFinite DEF AllFrugal, Share
    <3> QED  BY <1>6, <2>2, <3>1
  <2> QED  BY <1>7, <2>1, <2>2
<1>9. \A f : AllFrugal(m) /\ Budget(m, f) = Budget(b, f) + Share(a, f)
  BY <1>4, <1>8, BudgetAppended
<1> HIDE DEF m
<1>10. ASSUME NEW g  PROVE Budget(m, g) + (IF g = n.first THEN 1 ELSE 0) <= Budget(list, g)
  <2>1. Budget(Popped, g) \in Nat /\ Budget(b, g) \in Nat /\ Budget(list, g) \in Nat
    BY <1>2, <1>6, <1>8, UnitsFinite DEF AllFrugal
  <2>2. /\ Share(a, g) \in Nat /\ Share(c, g) \in Nat /\ Share(n, g) \in Nat
        /\ Share(a, g) + Share(c, g) + (IF g = n.first THEN 1 ELSE 0) <= Share(n, g)
    BY <1>4, <1>5 DEF Share
  <2>3. Budget(m, g) = Budget(b, g) + Share(a, g)
    BY <1>9
  <2>4. Budget(b, g) <= Budget(Popped, g) + Share(c, g)
    BY <1>8
  <2>5. Budget(Popped, g) + Share(n, g) <= Budget(list, g)
    BY <1>6
  <2> QED  BY <2>1, <2>2, <2>3, <2>4, <2>5
<1>11. IsSeq(m) /\ AllFrugal(m)
  BY <1>9 DEF AllFrugal
<1>12. Spent(Append(sent, n.first), m)
  BY <1>2, <1>10, <1>11, SpentAgain DEF CopyInv
<1> QED  BY <1>1, <1>11, <1>12 DEF CopyInv

\* Nodes leave the list, and nothing is sent.
LEMMA CopyThinned ==
    ASSUME ListInv, CopyInv, Thinned(list', list), sent' = sent
    PROVE  CopyInv'
<1>1. IsSeq(sent) /\ IsSeq(list) /\ IsSeq(list')
  BY DEF ListInv, SentOk, Good, Thinned
<1>2. \A f : AllFrugal(list') /\ Budget(list', f) <= Budget(list, f)
  BY BudgetThinned DEF CopyInv
<1>3. Spent(sent, list')
  BY <1>1, <1>2, SpentLess DEF CopyInv
<1> QED  BY <1>2, <1>3 DEF CopyInv

LEMMA CopyPopped ==
    ASSUME ListInv, CopyInv, walk.i # 0, list' = Popped, sent' = sent
    PROVE  CopyInv'
BY AtNode, RemoveThins, CopyThinned DEF Popped

LEMMA CopyDelNode ==
    ASSUME ListInv, CopyInv, list' = DelNodeByFirstSn(list, walk.firsts), sent' = sent
    PROVE  CopyInv'
<1> DEFINE keep == {k \in DOMAIN list :
                       \A i \in DOMAIN walk.firsts : list[k].first # walk.firsts[i]}
<1>1. IsSeq(list) /\ DOMAIN list = 1 .. Len(list)
  BY SeqFacts DEF ListInv, Good
<1>2. keep \subseteq 1 .. Len(list)
  BY <1>1
<1>3. list' = Kept(list, keep)
  BY DEF DelNodeByFirstSn
<1> HIDE DEF keep
<1>4. Thinned(list', list)
  BY <1>1, <1>2, <1>3, KeptFacts DEF Keeps
<1> QED  BY <1>4, CopyThinned

\* Time changes ages only.
LEMMA CopyTick ==
    ASSUME ListInv, CopyInv, Tick
    PROVE  CopyInv'
<1> DEFINE old(n) == [n EXCEPT !.age = IF @ < Rto THEN @ + 1 ELSE @]
<1>1. IsSeq(list) /\ IsSeq(sent) /\ DOMAIN list = 1 .. Len(list) /\ Len(list) \in Nat
  BY SeqFacts DEF ListInv, Good, SentOk
<1>2. sent' = sent /\ list' = [k \in 1 .. Len(list) |-> old(list[k])]
  BY <1>1 DEF Tick
<1>3. IsSeq(list') /\ Len(list') = Len(list)
  BY TickFacts DEF Good
<1>4. ASSUME NEW k \in 1 .. Len(list)
      PROVE  /\ Frugal(list'[k]) /\ Left(list'[k]) = Left(list[k])
             /\ list'[k].first = list[k].first
  <2> DEFINE n == list[k]
             o == old(n)
  <2>1. list'[k] = o
    BY <1>2
  <2>2. DOMAIN n = Fields /\ Frugal(n)
    BY DEF ListInv, Good, NodeOk, CopyInv, AllFrugal
  <2> HIDE DEF n
  <2>3. /\ o.first = n.first /\ o.cnt = n.cnt /\ o.boost = n.boost /\ o.thr = n.thr
        /\ o.again = n.again
    BY <2>2 DEF Fields
  <2> HIDE DEF o
  <2>4. Frugal(o)
    BY <2>2, <2>3 DEF Frugal
  <2>5. Left(o) = Left(n)
    BY <2>3 DEF Left
  <2> QED  BY <2>1, <2>3, <2>4, <2>5 DEF n
<1>5. AllFrugal(list')
  BY <1>3, <1>4 DEF AllFrugal
<1> DEFINE q == [k \in 1 .. Len(list) |-> k]
<1>6. /\ q \in [1 .. Len(list') -> 1 .. Len(list)]
      /\ \A j \in 1 .. Len(list') : q[j] = j
  BY <1>3
<1> HIDE DEF q
<1>7. /\ \A j, k \in 1 .. Len(list') : q[j] = q[k] => j = k
      /\ \A j \in 1 .. Len(list') : /\ list'[j].first = list[q[j]].first
                                    /\ Left(list'[j]) = Left(list[q[j]])
  BY <1>3, <1>4, <1>6
<1>8. AllFrugal(list)
  BY DEF CopyInv
<1>9. \A f : Budget(list', f) <= Budget(list, f)
  BY <1>3, <1>6, <1>7, <1>8, BudgetMapped
<1>10. Spent(sent, list')
  BY <1>1, <1>3, <1>9, SpentLess DEF CopyInv
<1> QED  BY <1>2, <1>5, <1>10 DEF CopyInv

\* A new frame brings the budget of its two nodes.
LEMMA CopySendFrame ==
    ASSUME ListInv, CopyInv, NEW ok, NEW okBoost, SendFrame(ok, okBoost)
    PROVE  CopyInv'
<1> DEFINE c == knobs.boost /\ knobs.maxBoost # 0 /\ okBoost
           n == [sn |-> NewSn, first |-> NewSn, cnt |-> 0, age |-> 0, boost |-> FALSE,
                 twin |-> FALSE, thr |-> Threshold, again |-> FALSE]
           t == [n EXCEPT !.twin = c]
           b == Clone(n)
           f == Len(sent)
           entered == knobs.alg /\ ok
           more == IF Reliable THEN Most + MostBoost + 1 ELSE 0
<1>1. /\ sent' = Append(sent, f)
      /\ list' = IF entered THEN Cloned(Append(list, t), n, c) ELSE list
  BY DEF SendFrame, NewSn
<1>2. IsSeq(sent) /\ IsSeq(list) /\ Len(sent) \in Nat /\ AllFrugal(list) /\ Spent(sent, list)
  BY SeqFacts DEF ListInv, SentOk, Good, CopyInv
<1>3. Most \in Nat /\ MostBoost \in Nat /\ more \in Nat
  BY MostFacts
<1>4. Threshold \in 0 .. MostBoost
  BY MostFacts, <1>3 DEF Threshold, ListInv
<1>5. /\ t.first = f /\ t.cnt = 0 /\ t.boost = FALSE /\ t.thr = Threshold /\ t.again = FALSE
      /\ b.first = f /\ b.cnt = 0 /\ b.boost = TRUE /\ b.thr = Threshold /\ b.again = TRUE
  BY DEF NewSn, Clone
<1>6. list' = Append(Append(list, t), b) \/ list' = Append(list, t) \/ list' = list
  BY <1>1 DEF Cloned
<1> HIDE DEF t, b, n, c, entered
<1>7. 0 \in Nat /\ Threshold \in 0 .. MostBoost + 1 /\ Threshold <= MostBoost
  BY <1>3, <1>4
<1>8. Frugal(t) /\ Frugal(b)
  BY <1>5, <1>7 DEF Frugal
<1>9. Left(t) = Most + more
  <2>1. Left(t) = (IF 0 < Most THEN Most - 0 ELSE 0) + more
    BY <1>5 DEF Left
  <2> HIDE DEF more
  <2> QED  BY <1>3, <2>1
<1>10. Left(b) = Threshold
  <2>1. Left(b) = (IF 0 < Threshold THEN Threshold - 0 ELSE 0) + 0
    BY <1>5 DEF Left
  <2> QED  BY <1>3, <1>4, <2>1
<1> HIDE DEF more
<1>11. Left(t) \in Nat /\ Left(b) \in Nat /\ Left(t) + Left(b) <= Most + more + MostBoost
  BY <1>3, <1>4, <1>9, <1>10
<1>12. AllFrugal(list') /\ \A g : /\ Budget(list', g) \in Nat /\ Budget(list, g) \in Nat
                                  /\ Budget(list', g) <= Budget(list, g) + Share(t, g) + Share(b, g)
  <2>0. \A g : /\ Share(t, g) \in Nat /\ Share(b, g) \in Nat /\ Budget(list, g) \in Nat
    BY <1>2, <1>11, UnitsFinite DEF Share
  <2>1. \A g : AllFrugal(Append(list, t)) /\ Budget(Append(list, t), g) = Budget(list, g) + Share(t, g)
    BY <1>2, <1>8, BudgetAppended
  <2>2. CASE list' = list
    BY <1>2, <2>0, <2>2
  <2>3. CASE list' = Append(list, t)
    BY <2>0, <2>1, <2>3
  <2>4. CASE list' = Append(Append(list, t), b)
    <3>1. \A g : AllFrugal(list') /\ Budget(list', g) = Budget(Append(list, t), g) + Share(b, g)
      BY <1>8, <2>1, <2>4, BudgetAppended
    <3> QED  BY <2>0, <2>1, <3>1
  <2> QED  BY <1>6, <2>2, <2>3, <2>4
<1>13. \A k \in 1 .. Len(sent) : sent[k] # f
  BY <1>2 DEF ListInv, SentOk
<1>14. TimesIn(sent, f) = 0
  <2>1. {k \in DOMAIN sent : sent[k] = f} = {}
    BY <1>2, <1>13, SeqFacts
  <2> QED  BY <2>1, FS_EmptySet DEF TimesIn
<1>15. Budget(list, f) = 0
  <2>1. \A k \in 1 .. Len(list) : list[k].first # f
    <3> TAKE k \in 1 .. Len(list)
    <3>1. NodeOk(list[k], sent)
      BY DEF ListInv, Good
    <3>2. list[k].sn + 1 \in 1 .. Len(sent) /\ sent[list[k].sn + 1] = list[k].first
      BY <1>2, <3>1 DEF NodeOk
    <3> QED  BY <1>13, <3>2
  <2>2. Units(list, f) = {}
    BY <2>1 DEF Units
  <2> QED  BY <2>2, FS_EmptySet DEF Budget
<1> DEFINE s == Append(sent, f)
<1>16. /\ Len(s) = Len(sent) + 1 /\ s[Len(sent) + 1] = f
       /\ \A k \in 1 .. Len(sent) : s[k] = sent[k]
  BY <1>2, AppendFacts
<1>17. TimesIn(s, f) = 1
  BY <1>2, <1>14, TimesGrow
<1>18. \A g : g # f => TimesIn(s, g) = TimesIn(sent, g)
  BY <1>2, TimesOther
<1> HIDE DEF s
<1>19. TimesIn(s, f) + Budget(list', f) <= Bound
  <2>1. Budget(list', f) <= Left(t) + Left(b) /\ Budget(list', f) \in Nat
    <3>1. Share(t, f) = Left(t) /\ Share(b, f) = Left(b)
      BY <1>5 DEF Share
    <3> QED  BY <1>11, <1>12, <1>15, <3>1
  <2>2. Bound = 1 + (Most + more + MostBoost)
    BY <1>3 DEF Bound, more
  <2> QED  BY <1>3, <1>11, <1>17, <2>1, <2>2
<1>20. ASSUME NEW k \in 1 .. Len(sent)
       PROVE  TimesIn(s, sent[k]) + Budget(list', sent[k]) <= Bound
  <2> DEFINE g == sent[k]
  <2>1. g # f
    BY <1>13
  <2>2. TimesIn(sent, g) + Budget(list, g) <= Bound
    BY <1>2 DEF Spent
  <2>3. Share(t, g) = 0 /\ Share(b, g) = 0
    BY <1>5, <2>1 DEF Share
  <2>4. TimesIn(s, g) = TimesIn(sent, g) /\ TimesIn(sent, g) \in Nat /\ Bound \in Nat
    BY <1>2, <1>3, <1>18, <2>1, TimesType DEF Bound
  <2> HIDE DEF g
  <2>5. Budget(list', g) <= Budget(list, g) /\ Budget(list', g) \in Nat /\ Budget(list, g) \in Nat
    BY <1>12, <2>3
  <2>6. TimesIn(s, g) + Budget(list', g) <= Bound
    BY <2>2, <2>4, <2>5
  <2> QED  BY <2>6 DEF g
<1>21. Spent(s, list')
  <2> SUFFICES ASSUME NEW k \in 1 .. Len(s)
               PROVE  TimesIn(s, s[k]) + Budget(list', s[k]) <= Bound
    BY DEF Spent
  <2>1. CASE k = Len(sent) + 1
    BY <1>16, <1>19, <2>1
  <2>2. CASE k \in 1 .. Len(sent)
    BY <1>16, <1>20, <2>2
  <2> QED  BY <1>2, <1>16, <2>1, <2>2
<1> QED  BY <1>1, <1>12, <1>21 DEF CopyInv, s

LEMMA CopyInit == Init => CopyInv
<1> SUFFICES ASSUME Init  PROVE CopyInv
  OBVIOUS
<1>1. <<>> \in Seq({}) /\ Len(<<>>) = 0
  BY EmptySeq
<1> QED  BY <1>1 DEF Init, CopyInv, AllFrugal, Spent, IsSeq

LEMMA CopyNext == ListInv /\ CopyInv /\ [Next]_vars => CopyInv'
<1> SUFFICES ASSUME ListInv, CopyInv, [Next]_vars  PROVE CopyInv'
  OBVIOUS
<1>1. ASSUME list' = list, sent' = sent  PROVE CopyInv'
  BY <1>1 DEF CopyInv
\* A node that may be sent again has not reached its limit.
<1>2. ASSUME walk.i # 0, \/ ~Exhausted(list[walk.i])
                         \/ CanRtoReSend(list[walk.i])
      PROVE  list[walk.i].cnt < (IF list[walk.i].boost THEN list[walk.i].thr ELSE Most)
  <2> DEFINE n == list[walk.i]
  <2>1. Frugal(n)
    BY <1>2, AtNode DEF CopyInv, AllFrugal
  <2>2. knobs.maxRetran \in Nat /\ knobs.maxRetran <= Most /\ Most \in Nat /\ MostBoost \in Nat
    BY MostFacts DEF ListInv
  <2>3. n.cnt < (IF n.boost THEN n.thr ELSE knobs.maxRetran)
    <3>1. n.cnt \in Nat /\ n.thr \in Nat
      BY <2>1, <2>2 DEF Frugal
    <3> QED  BY <1>2, <2>2, <3>1 DEF Exhausted, CanRtoReSend
  <2> HIDE DEF n
  <2>4. n.cnt < (IF n.boost THEN n.thr ELSE Most)
    BY <2>1, <2>2, <2>3 DEF Frugal
  <2> QED  BY <2>4 DEF n
<1>3. ASSUME NEW ok, NEW okBoost, SendFrame(ok, okBoost)  PROVE CopyInv'
  BY <1>3, CopySendFrame
<1>4. CASE CheckRtoRetran
  <2>1. CASE knobs.alg
    BY <1>1, <1>4, <2>1 DEF CheckRtoRetran
  <2>2. CASE ~knobs.alg
    <3>1. list' = <<>> /\ sent' = sent
      BY <1>4, <2>2 DEF CheckRtoRetran
    <3>2. <<>> \in Seq({}) /\ Len(<<>>) = 0
      BY EmptySeq
    <3>3. Thinned(<<>>, list)
      <4>1. IsSeq(<<>>)
        BY <3>2 DEF IsSeq
      <4>2. PICK p : p \in [1 .. 0 -> 1 .. Len(list)]
        <5>1. [j \in 1 .. 0 |-> 1] \in [1 .. 0 -> 1 .. Len(list)]
          OBVIOUS
        <5> QED  BY <5>1
      <4>3. \A j \in 1 .. 0 : FALSE
        OBVIOUS
      <4>4. p \in [1 .. Len(<<>>) -> 1 .. Len(list)] /\ \A j \in 1 .. Len(<<>>) : FALSE
        BY <3>2, <4>2, <4>3
      <4> QED  BY <4>1, <4>4, Zenon DEF Thinned
    <3> QED  BY <3>1, <3>3, CopyThinned
  <2> QED  BY <2>1, <2>2
<1>5. CASE RtoEnd
  BY <1>1, <1>5 DEF RtoEnd
<1>6. ASSUME NEW ok, RtoStep(ok)  PROVE CopyInv'
  <2>1. walk.i # 0 /\ RtoCases(ok)
    BY <1>6, RtoStepCases
  <2>2. CASE Release
    BY <2>1, <2>2, CopyPopped DEF Release
  <2>3. CASE /\ Reliable /\ ~list[walk.i].boost /\ ~list[walk.i].again
             /\ RetryLater(list[walk.i], ok)
    BY <2>1, <2>3, CopyRetryLater
  <2>4. CASE CanRtoReSend(list[walk.i]) /\ SendAgain(list[walk.i])
    BY <1>2, <2>1, <2>4, CopySendAgain
  <2>5. CASE Keep
    BY <1>1, <2>5 DEF Keep
  <2> QED  BY <2>1, <2>2, <2>3, <2>4, <2>5 DEF RtoCases
<1>7. ASSUME NEW fb, ProcReport(fb) \/ LoseReport(fb)  PROVE CopyInv'
  BY <1>1, <1>7 DEF ProcReport, LoseReport
<1>8. CASE ReportStep
  <2>1. walk.i # 0 /\ ReportCases(Verdict(walk.fb, list[walk.i].sn))
    BY <1>8, ReportStepCases
  <2>2. CASE Drop(list[walk.i])
    BY <2>1, <2>2, CopyPopped DEF Drop
  <2>3. CASE ~Exhausted(list[walk.i]) /\ SendAgain(list[walk.i])
    BY <1>2, <2>1, <2>3, CopySendAgain
  <2>4. CASE Keep
    BY <1>1, <2>4 DEF Keep
  <2> QED  BY <2>1, <2>2, <2>3, <2>4 DEF ReportCases
<1>9. CASE ReportEnd
  BY <1>9, CopyDelNode DEF ReportEnd
<1>10. ASSUME NEW alg, NEW boost, NEW m, NEW r, LinkQuality(alg, boost, m, r)  PROVE CopyInv'
  BY <1>1, <1>10 DEF LinkQuality
<1>11. CASE Tick
  BY <1>11, CopyTick
<1>12. ASSUME NEW new, NEW moved, Report(new, moved)  PROVE CopyInv'
  <2>1. list' = list /\ sent' = sent
    BY <1>12 DEF Report
  <2> QED  BY <1>1, <2>1
<1>13. CASE UNCHANGED vars
  BY <1>1, <1>13 DEF vars
<1> QED
  BY <1>3, <1>4, <1>5, <1>6, <1>7, <1>8, <1>9, <1>10, <1>11, <1>12, <1>13 DEF Next

\* Whatever timer, reports and boosting do with a frame, and whatever
\* LinkQualityCallback changes the limits to meanwhile, PackRetransmit sends it a
\* bounded number of times: the largest limits once, and on a reliable stream
\* once more (TranFailedPostHandler) with a boost limit raised by one.
THEOREM BoundedCopies == Spec => []CopiesBounded
<1>1. ListInv /\ CopyInv => CopiesBounded
  <2> SUFFICES ASSUME ListInv, CopyInv, NEW f \in Frames
               PROVE  Copies(f) <= Bound
    BY DEF CopiesBounded, Bound, Most, MostBoost
  <2>1. IsSeq(sent) /\ IsSeq(list) /\ DOMAIN sent = 1 .. Len(sent)
    BY SeqFacts DEF ListInv, SentOk, Good
  <2>2. PICK k \in 1 .. Len(sent) : f = sent[k]
    BY <2>1 DEF Frames
  <2>3. TimesIn(sent, f) + Budget(list, f) <= Bound
    BY <2>2 DEF CopyInv, Spent
  <2>4. TimesIn(sent, f) \in Nat /\ Budget(list, f) \in Nat /\ Bound \in Nat
    BY <2>1, TimesType, UnitsFinite, MostFacts DEF Bound
  <2>5. Copies(f) = TimesIn(sent, f)
    BY DEF Copies, TimesIn
  <2> QED  BY <2>3, <2>4, <2>5
<1> QED  BY <1>1, ListInit, ListNext, CopyInit, CopyNext, PTL DEF Spec

=============================================================================
