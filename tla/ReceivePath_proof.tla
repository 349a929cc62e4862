------------------------- MODULE ReceivePath_proof -------------------------
(***************************************************************************)
(* Proofs about ReceivePath.  A handler is a function on the receiver's    *)
(* state, built from calls of the reorder buffer; the lemmas of            *)
(* ReorderBuffer_proof say what such a call does with the frames, the      *)
(* lemmas here what that means for the filter, the application and the     *)
(* numbers given up, one call after the other.  Once says that a frame the *)
(* filter has registered is in one place; Line, for a stream whose numbers *)
(* do not wrap, where next, the ring and the delivered frames stand on the *)
(* line of the numbers sent.                                               *)
(***************************************************************************)
EXTENDS ReceivePath, TLAPS

RBP == INSTANCE ReorderBuffer_proof WITH Packets <- [sn : SN, first : SN], out <- <<>>

-----------------------------------------------------------------------------
(* The reorder buffer: its lemmas hold for the packets of the stream. *)

Pkts == [sn : SN, first : SN]

LEMMA RingFacts == RBP!SizesAssumption /\ RBP!PacketsAssumption
BY RingAssumption DEF RBP!SizesAssumption, RBP!PacketsAssumption, RBP!SN, SN

LEMMA SizeFacts ==
    BufSize \in Nat /\ BufSize >= 1 /\ SnMod \in Nat /\ SnMod >= 4 * BufSize
BY RingFacts, RBP!SizeFacts

LEMMA SameNumbers ==
    /\ RBP!SN = SN /\ RB!Slots = RBP!Slots
    /\ \A a, b : RB!Plus(a, b) = RBP!Plus(a, b) /\ RB!Dist(a, b) = RBP!Dist(a, b)
    /\ \A a, b : RB!Passed(a, b) <=> RBP!Passed(a, b)
    /\ \A a : RB!SlotOf(a) = RBP!SlotOf(a)
    /\ \A a : RB!Occupied(a) <=> RBP!Occupied(a)
    /\ \A r, sn : RB!Inited(r, sn) = RBP!Inited(r, sn)
    /\ RB!Cleared = RBP!Cleared
BY DEF RBP!SN, SN, RB!Slots, RBP!Slots, RB!Plus, RBP!Plus, RB!Dist, RBP!Dist,
       RB!Passed, RBP!Passed, RB!SlotOf, RBP!SlotOf, RB!Occupied, RBP!Occupied,
       RB!Inited, RBP!Inited, RB!Cleared, RBP!Cleared, RB!EmptySlot, RBP!EmptySlot

LEMMA SameCalls ==
    /\ \A r, p, oom : RB!Enqueue(r, p, oom) = RBP!Enqueue(r, p, oom)
    /\ \A r, sn : RB!EnqueuePlaceholder(r, sn) = RBP!EnqueuePlaceholder(r, sn)
    /\ \A r : RB!SkipGap(r) = RBP!SkipGap(r)
BY DEF RB!Enqueue, RBP!Enqueue, RB!EnqueuePlaceholder, RBP!EnqueuePlaceholder,
       RB!SkipGap, RBP!SkipGap, RB!Inited, RBP!Inited, RB!SortKey, RBP!SortKey,
       RB!Dist, RBP!Dist, RB!Passed, RBP!Passed, RB!InOrder, RBP!InOrder,
       RB!LargeGap, RBP!LargeGap, RB!Store, RBP!Store, RB!StoreOom, RBP!StoreOom,
       RB!Flush, RBP!Flush, RB!FlushOut, RBP!FlushOut, RB!Advance, RBP!Advance,
       RB!RunLength, RBP!RunLength, RB!Plus, RBP!Plus, RB!SlotOf, RBP!SlotOf,
       RB!Slots, RBP!Slots, RB!EmptySlot, RBP!EmptySlot,
       RB!Occupied, RBP!Occupied, RB!NoHint, RBP!NoHint

-----------------------------------------------------------------------------
(* receive_frame_cb_, one frame after the other. *)

HandBody(a, o, h, n) ==
    IF n = 0 THEN a
    ELSE IF o[n] = None THEN h[n - 1] ELSE Append(h[n - 1], o[n].first)

\* The recursion over the result of a call is well founded.
LEMMA HandingExists ==
    ASSUME NEW a, NEW o, NEW N \in Nat
    PROVE  \E h : h = [n \in 0 .. N |-> HandBody(a, o, h, n)]
<1> DEFINE Fun(m, h) == h = [n \in 0 .. m |-> HandBody(a, o, h, n)]
           T == {m \in Nat : ~\E h : Fun(m, h)}
<1>1. SUFFICES ASSUME T # {} PROVE FALSE
  OBVIOUS
<1>2. PICK m \in T : \A y \in T : m <= y
  BY <1>1, RingFacts, RBP!LeastNatural
<1>3. CASE m = 0
  <2> DEFINE h == [n \in 0 .. 0 |-> a]
  <2>1. h = [n \in 0 .. 0 |-> HandBody(a, o, h, n)]
    BY DEF HandBody
  <2>2. QED  BY <1>3, <2>1
<1>4. CASE m # 0
  <2>1. m - 1 \in Nat /\ m - 1 \notin T
    BY <1>2, <1>4
  <2>2. PICK g : Fun(m - 1, g)
    BY <2>1
  <2> DEFINE h == [n \in 0 .. m |-> IF n = m THEN HandBody(a, o, g, m) ELSE g[n]]
  <2>3. ASSUME NEW n \in 0 .. m  PROVE h[n] = HandBody(a, o, h, n)
    <3>1. CASE n = m
      <4>1. h[m - 1] = g[m - 1]
        BY <2>1
      <4>2. QED  BY <3>1, <4>1, <2>1 DEF HandBody
    <3>2. CASE n # m
      <4>1. n \in 0 .. m - 1 /\ h[n] = g[n]
        BY <3>2, <2>1
      <4>2. g[n] = HandBody(a, o, g, n)
        BY <2>2, <4>1
      <4>3. n # 0 => h[n - 1] = g[n - 1]
        BY <4>1, <2>1
      <4>4. QED  BY <4>1, <4>2, <4>3 DEF HandBody
    <3>3. QED  BY <3>1, <3>2
  <2>4. h = [n \in 0 .. m |-> HandBody(a, o, h, n)]
    <3>1. h = [n \in 0 .. m |-> h[n]]
      OBVIOUS
    <3> HIDE DEF h
    <3>2. QED  BY <3>1, <2>3
  <2> HIDE DEF h
  <2>5. QED  BY <1>2, <2>4
<1>5. QED  BY <1>3, <1>4

LEMMA HandingDef ==
    ASSUME NEW a, NEW o, Len(o) \in Nat
    PROVE  \A n \in 0 .. Len(o) : Handing(a, o)[n] = HandBody(a, o, Handing(a, o), n)
<1>1. \E h : h = [n \in 0 .. Len(o) |-> HandBody(a, o, h, n)]
  BY HandingExists
<1>2. Handing(a, o) = [n \in 0 .. Len(o) |-> HandBody(a, o, Handing(a, o), n)]
  BY <1>1 DEF Handing, HandBody
<1>3. QED  BY <1>2

Among(a, x) == \E k \in 1 .. Len(a) : a[k] = x
Gives(o, n, x) == \E j \in 1 .. n : o[j] # None /\ o[j].first = x
Distinct(a) == \A j, k \in 1 .. Len(a) : a[j] = a[k] => j = k
Rising(a) == \A j, k \in 1 .. Len(a) : j < k => a[j] < a[k]
Extends(b, a) == Len(a) <= Len(b) /\ \A k \in 1 .. Len(a) : b[k] = a[k]

\* The firsts of a result are all different and new to a; they rise.
Unlike(a, o) == /\ Distinct(a)
                /\ \A j \in 1 .. Len(o) : o[j] # None => ~Among(a, o[j].first)
                /\ \A j, k \in 1 .. Len(o) :
                     o[j] # None /\ o[k] # None /\ o[j].first = o[k].first => j = k
Later(a, o) == /\ Rising(a)
               /\ \A k \in 1 .. Len(a), j \in 1 .. Len(o) :
                     o[j] # None => a[k] < o[j].first
               /\ \A j, k \in 1 .. Len(o) :
                     o[j] # None /\ o[k] # None /\ j < k => o[j].first < o[k].first

HandOk(a, o, n, b) ==
    /\ b \in Seq(SN) /\ Extends(b, a)
    /\ \A x : Among(b, x) <=> Among(a, x) \/ Gives(o, n, x)
    /\ Unlike(a, o) => Distinct(b)
    /\ Later(a, o) => Rising(b)

LEMMA HandedFacts ==
    ASSUME NEW a \in Seq(SN), NEW o \in Seq(Pkts \cup {None})
    PROVE  HandOk(a, o, Len(o), Handed(a, o))
<1> DEFINE H(n) == Handing(a, o)[n]
           T == {n \in 0 .. Len(o) : ~HandOk(a, o, n, H(n))}
<1>1. Len(o) \in Nat /\ Len(a) \in Nat
  OBVIOUS
<1>2. SUFFICES ASSUME T # {} PROVE FALSE
  BY <1>1 DEF Handed
<1>3. PICK n \in T : \A y \in T : n <= y
  <2>1. T \subseteq Nat
    BY <1>1
  <2>2. QED  BY <1>2, <2>1, RingFacts, RBP!LeastNatural
<1>4. \A m \in 0 .. Len(o) : H(m) = HandBody(a, o, Handing(a, o), m)
  BY <1>1, HandingDef
<1>5. CASE n = 0
  <2>1. H(0) = a
    BY <1>1, <1>4 DEF HandBody
  <2>2. HandOk(a, o, 0, a)
    BY <1>1 DEF HandOk, Extends, Gives, Unlike, Later
  <2>3. QED  BY <1>3, <1>5, <2>1, <2>2
<1>6. CASE n # 0
  <2>1. n - 1 \in 0 .. Len(o) /\ n \in 1 .. Len(o) /\ n \in Nat
    BY <1>1, <1>3, <1>6
  <2>2. HandOk(a, o, n - 1, H(n - 1))
    BY <1>3, <2>1
  <2> DEFINE b == H(n - 1)
             c == H(n)
  <2>3. c = IF o[n] = None THEN b ELSE Append(b, o[n].first)
    BY <1>4, <1>6, <2>1 DEF HandBody
  <2>4. ~HandOk(a, o, n, c)
    BY <1>3
  <2> HIDE DEF H, b, c
  <2>5. HandOk(a, o, n - 1, b)
    BY <2>2 DEF b
  <2>6. CASE o[n] = None
    <3>1. \A x : Gives(o, n, x) <=> Gives(o, n - 1, x)
      <4>1. 1 .. n = (1 .. n - 1) \cup {n}
        BY <2>1
      <4>2. QED  BY <2>6, <4>1 DEF Gives
    <3>2. QED  BY <2>3, <2>4, <2>5, <2>6, <3>1 DEF HandOk
  <2>7. CASE o[n] # None
    <3> DEFINE f == o[n].first
    <3>1. f \in SN /\ b \in Seq(SN) /\ Len(b) \in Nat /\ Extends(b, a)
      BY <2>1, <2>5, <2>7 DEF HandOk, Pkts
    <3>2. /\ c \in Seq(SN) /\ Len(c) = Len(b) + 1 /\ c[Len(b) + 1] = f
          /\ \A k \in 1 .. Len(b) : c[k] = b[k]
      BY <2>3, <2>7, <3>1
    <3>3. \A x : Gives(o, n, x) <=> Gives(o, n - 1, x) \/ x = f
      <4>1. 1 .. n = (1 .. n - 1) \cup {n}
        BY <2>1
      <4>2. QED  BY <2>7, <4>1 DEF Gives
    <3> HIDE DEF f
    <3>4. \A x : Among(c, x) <=> Among(b, x) \/ x = f
      <4>1. 1 .. Len(c) = (1 .. Len(b)) \cup {Len(b) + 1}
        BY <3>1, <3>2
      <4>2. QED  BY <3>2, <4>1 DEF Among
    <3>5. \A x : Among(b, x) <=> Among(a, x) \/ Gives(o, n - 1, x)
      BY <2>5 DEF HandOk
    <3>6. Extends(c, a)
      BY <1>1, <3>1, <3>2 DEF Extends
    <3>7. ASSUME Unlike(a, o) PROVE Distinct(c)
      <4>1. Distinct(b)
        BY <2>5, <3>7 DEF HandOk
      <4>2. ~Among(b, f)
        <5>1. ~Among(a, f)
          BY <2>1, <2>7, <3>7 DEF Unlike, f
        <5>2. ~Gives(o, n - 1, f)
          <6>1. SUFFICES ASSUME NEW j \in 1 .. n - 1, o[j] # None, o[j].first = f
                         PROVE  FALSE
            BY DEF Gives
          <6>2. j \in 1 .. Len(o) /\ j # n
            BY <1>1, <2>1
          <6>3. QED  BY <2>1, <2>7, <3>7, <6>1, <6>2 DEF Unlike, f
        <5>3. QED  BY <3>5, <5>1, <5>2
      <4>3. ASSUME NEW j \in 1 .. Len(c), NEW k \in 1 .. Len(c), c[j] = c[k]
            PROVE  j = k
        <5>1. (j \in 1 .. Len(b) \/ j = Len(b) + 1) /\ (k \in 1 .. Len(b) \/ k = Len(b) + 1)
          BY <3>1, <3>2
        <5>2. QED  BY <3>2, <4>1, <4>2, <4>3, <5>1 DEF Distinct, Among
      <4>4. QED  BY <4>3 DEF Distinct
    <3>8. ASSUME Later(a, o) PROVE Rising(c)
      <4>1. Rising(b)
        BY <2>5, <3>8 DEF HandOk
      <4>2. ASSUME NEW x, Among(b, x) PROVE x < f
        <5>1. CASE Among(a, x)
          BY <2>1, <2>7, <3>8, <5>1 DEF Later, Among, f
        <5>2. CASE Gives(o, n - 1, x)
          <6>1. PICK j \in 1 .. n - 1 : o[j] # None /\ o[j].first = x
            BY <5>2 DEF Gives
          <6>2. j \in 1 .. Len(o) /\ j < n
            BY <1>1, <2>1, <6>1
          <6>3. QED  BY <2>1, <2>7, <3>8, <6>1, <6>2 DEF Later, f
        <5>3. QED  BY <3>5, <4>2, <5>1, <5>2
      <4>3. ASSUME NEW j \in 1 .. Len(c), NEW k \in 1 .. Len(c), j < k
            PROVE  c[j] < c[k]
        <5>1. j \in 1 .. Len(b) /\ (k \in 1 .. Len(b) \/ k = Len(b) + 1)
          BY <3>1, <3>2, <4>3
        <5>2. Among(b, b[j])
          BY <5>1 DEF Among
        <5>3. QED  BY <3>2, <4>1, <4>2, <4>3, <5>1, <5>2 DEF Rising
      <4>4. QED  BY <4>3 DEF Rising
    <3>9. HandOk(a, o, n, c)
      BY <3>2, <3>3, <3>4, <3>5, <3>6, <3>7, <3>8 DEF HandOk
    <3>10. QED  BY <2>4, <3>9
  <2>8. QED  BY <2>6, <2>7
<1>7. QED  BY <1>5, <1>6

-----------------------------------------------------------------------------
(* The receiver's state as one value.  pend holds the first_sn that the    *)
(* filter has registered and the buffer has not seen yet.                  *)

RcvType == [filter : SUBSET SN, border : Int, cached : SUBSET SN, rb : RBP!RbType,
            app : Seq(SN), turn : Seq(SN), lost : SUBSET SN, start : SN, resets : Nat]

Slots == RBP!Slots
Frame(r, i) == r.slot[i].frame
InRing(r, f) == \E i \in Slots : Frame(r, i) # None /\ Frame(r, i).first = f

\* What the filter has registered is either delivered once, or in the ring
\* once, or pending, or gone; what is delivered or in the ring is registered.
Once(s, pend) ==
    /\ RBP!Good(s.rb)
    /\ s.rb.gap => s.rb.inited
    /\ pend \subseteq s.filter
    /\ Distinct(s.app)
    /\ \A i, j \in Slots :
          Frame(s.rb, i) # None /\ Frame(s.rb, j) # None
            /\ Frame(s.rb, i).first = Frame(s.rb, j).first => i = j
    /\ \A f : Among(s.app, f) => f \in s.filter \ pend /\ ~InRing(s.rb, f)
    /\ \A f : InRing(s.rb, f) => f \in s.filter \ pend

\* A call of the reorder buffer: sn starts the buffer if it has not started,
\* P and N are the frame and the number of RBP!Moves.
Call(s, sn, res, P, N) ==
    /\ RBP!CallOk(RBP!Inited(s.rb, sn), res)
    /\ RBP!Moves(RBP!Inited(s.rb, sn), res, P, N)
Offered(s, pend, P) ==
    /\ P \subseteq Pkts
    /\ \A p, q \in P : p = q
    /\ \A p \in P : p.first \in pend
Settled(pend, P) == pend \ {p.first : p \in P}

LEMMA InitedFacts ==
    ASSUME NEW s \in RcvType, RBP!Good(s.rb), NEW sn \in SN
    PROVE  LET r == RBP!Inited(s.rb, sn) IN
           /\ RBP!Good(r) /\ r.inited /\ r.slot = s.rb.slot /\ r.gap = s.rb.gap
           /\ r.next = IF s.rb.inited THEN s.rb.next ELSE sn
           /\ r.next \in SN /\ s.rb.next \in SN
<1> DEFINE r == RBP!Inited(s.rb, sn)
<1>1. RBP!Good(r) /\ r.inited
  BY RingFacts, SameNumbers, RBP!InitedGood
<1>2. s.rb \in RBP!RbType /\ r \in RBP!RbType
  BY <1>1 DEF RBP!Good
<1>3. /\ r.slot = s.rb.slot /\ r.gap = s.rb.gap
      /\ r.next = IF s.rb.inited THEN s.rb.next ELSE sn
  BY <1>2 DEF RBP!Inited, RBP!RbType
<1>4. r.next \in SN /\ s.rb.next \in SN
  BY <1>2, SameNumbers DEF RBP!RbType
<1>5. QED  BY <1>1, <1>3, <1>4

LEMMA CallTypes ==
    ASSUME NEW r, NEW res, RBP!CallOk(r, res)
    PROVE  /\ res.rb \in RBP!RbType /\ RBP!Good(res.rb) /\ res.rb.inited
           /\ res.rb.next \in SN
           /\ res.out \in Seq(Pkts \cup {None}) /\ Len(res.out) \in Nat
           /\ \A j \in 1 .. Len(res.out) : res.out[j] \in Pkts \cup {None}
           /\ \A i \in Slots : Frame(res.rb, i) \in Pkts \cup {None}
<1>1. res.rb \in RBP!RbType /\ RBP!Good(res.rb) /\ res.rb.inited
      /\ res.out \in Seq(Pkts \cup {None})
  BY DEF RBP!CallOk, RBP!Good, Pkts
<1>2. res.rb.next \in SN
  BY <1>1, SameNumbers DEF RBP!RbType
<1>3. \A i \in Slots : Frame(res.rb, i) \in Pkts \cup {None}
  BY <1>1 DEF RBP!RbType, RBP!SlotType, Slots, Frame, Pkts
<1>4. QED  BY <1>1, <1>2, <1>3

LEMMA GivenUpType ==
    ASSUME NEW r, NEW r1, NEW here, r.next \in SN, r1.next \in SN
    PROVE  GivenUp(r, r1, here) \subseteq SN
<1>1. RBP!Dist(r1.next, r.next) \in SN
  BY RingFacts, SameNumbers, RBP!DistLinear
<1>2. \A d \in 0 .. RBP!Dist(r1.next, r.next) - 1 : RBP!Plus(r.next, d) \in SN
  <2> TAKE d \in 0 .. RBP!Dist(r1.next, r.next) - 1
  <2>1. d \in 0 .. SnMod
    BY <1>1, SizeFacts DEF SN
  <2>2. QED  BY <2>1, RingFacts, SameNumbers, RBP!PlusLinear
<1>3. QED  BY <1>2, SameNumbers DEF GivenUp

\* What Apply does to each part.
Applied(t, s, sn, res, here) ==
    LET r == RBP!Inited(s.rb, sn) IN
    /\ t \in RcvType
    /\ t.filter = s.filter /\ t.border = s.border /\ t.cached = s.cached
    /\ t.resets = s.resets /\ t.rb = res.rb
    /\ t.start = IF s.rb.inited THEN s.start ELSE sn
    /\ t.app = Handed(s.app, res.out)
    /\ t.turn = IF res.rb.next = r.next THEN s.turn ELSE Handed(s.turn, res.out)
    /\ t.lost = s.lost \cup GivenUp(r, res.rb, Given(res.out) \cup here)

LEMMA ApplyFields ==
    ASSUME NEW s \in RcvType, RBP!Good(s.rb), NEW sn \in SN, NEW res, NEW here,
           RBP!CallOk(RBP!Inited(s.rb, sn), res)
    PROVE  Applied(Apply(s, sn, res, here), s, sn, res, here)
<1> DEFINE t == Apply(s, sn, res, here)
           r == RBP!Inited(s.rb, sn)
           ha == Handed(s.app, res.out)
           ht == IF res.rb.next = r.next THEN s.turn ELSE Handed(s.turn, res.out)
           g == s.lost \cup GivenUp(r, res.rb, Given(res.out) \cup here)
           st == IF s.rb.inited THEN s.start ELSE sn
<1>1. res.rb \in RBP!RbType /\ res.rb.next \in SN /\ res.out \in Seq(Pkts \cup {None})
  BY CallTypes
<1>2. r.next \in SN
  BY InitedFacts
<1>3. s.app \in Seq(SN) /\ s.turn \in Seq(SN) /\ s.lost \subseteq SN /\ s.start \in SN
  BY DEF RcvType
<1>4. ha \in Seq(SN) /\ Handed(s.turn, res.out) \in Seq(SN)
  BY <1>1, <1>3, HandedFacts DEF HandOk
<1>5. ht \in Seq(SN)
  BY <1>3, <1>4
<1>6. g \subseteq SN
  BY <1>1, <1>2, <1>3, GivenUpType
<1>7. t = [s EXCEPT !.rb = res.rb, !.start = st, !.app = ha, !.turn = ht, !.lost = g]
  BY SameNumbers DEF Apply
<1>8. st \in SN
  BY <1>3
<1> HIDE DEF t, ha, ht, g, st
<1>9. /\ t \in RcvType /\ t.filter = s.filter /\ t.border = s.border
      /\ t.cached = s.cached /\ t.resets = s.resets /\ t.rb = res.rb
      /\ t.start = st /\ t.app = ha /\ t.turn = ht /\ t.lost = g
  BY <1>1, <1>4, <1>5, <1>6, <1>7, <1>8 DEF RcvType
<1>10. QED  BY <1>9 DEF Applied, t, ha, ht, g, st

\* One frame stands in one slot.
LEMMA SamePlace ==
    ASSUME NEW r, RBP!Good(r), NEW i \in Slots, NEW j \in Slots,
           Frame(r, i) # None, Frame(r, i) = Frame(r, j)
    PROVE  i = j
BY DEF RBP!Good, RBP!PlacedIn, Slots, Frame

\* What a call hands over differs from all that was handed over before and
\* from what stays in the ring.
LEMMA OutUnlike ==
    ASSUME NEW s \in RcvType, NEW pend, Once(s, pend), NEW sn \in SN, NEW res,
           NEW P, NEW N, Call(s, sn, res, P, N), Offered(s, pend, P)
    PROVE  /\ Unlike(s.app, res.out)
           /\ \A j \in 1 .. Len(res.out) : res.out[j] # None =>
                /\ res.out[j].first \in s.filter \ Settled(pend, P)
                /\ ~InRing(res.rb, res.out[j].first)
<1> DEFINE r == RBP!Inited(s.rb, sn)
           o == res.out
<1>1. /\ RBP!Good(r) /\ r.slot = s.rb.slot /\ r.next \in SN
  BY InitedFacts DEF Once
<1>2. RBP!CallOk(r, res) /\ RBP!Moves(r, res, P, N)
  BY DEF Call
<1>3. RBP!FromRing(r, res, P) /\ RBP!NextMoves(r, res, N)
  BY <1>2 DEF RBP!Moves
<1>4. Len(o) \in Nat /\ \A j \in 1 .. Len(o) : o[j] \in Pkts \cup {None}
  BY <1>2, CallTypes
<1> HIDE DEF r, o
<1>5. ASSUME NEW j \in 1 .. Len(o), o[j] # None
      PROVE  \/ o[j] \in P
             \/ \E i \in Slots : Frame(s.rb, i) = o[j] /\ Frame(res.rb, i) = None
  BY <1>1, <1>3, <1>5 DEF RBP!FromRing, Slots, Frame, o
<1>6. \A i \in Slots : Frame(s.rb, i) # None =>
         /\ Frame(s.rb, i).first \in s.filter \ pend
         /\ ~Among(s.app, Frame(s.rb, i).first)
  BY DEF Once, InRing
<1>7. \A p \in P : p.first \in pend /\ p.first \in s.filter /\ ~Among(s.app, p.first)
  BY DEF Offered, Once
<1>8. ASSUME NEW j \in 1 .. Len(o), o[j] # None
      PROVE  /\ ~Among(s.app, o[j].first)
             /\ o[j].first \in s.filter \ Settled(pend, P)
  BY <1>5, <1>6, <1>7, <1>8 DEF Settled
<1>9. ASSUME NEW j \in 1 .. Len(o), NEW k \in 1 .. Len(o), o[j] # None, o[k] # None,
             o[j].first = o[k].first
      PROVE  j = k
  <2>1. o[j] = o[k]
    <3>1. CASE o[j] \in P /\ o[k] \in P
      BY <3>1 DEF Offered
    <3>2. CASE o[j] \in P /\ o[k] \notin P
      BY <1>5, <1>6, <1>7, <1>9, <3>2
    <3>3. CASE o[j] \notin P /\ o[k] \in P
      BY <1>5, <1>6, <1>7, <1>9, <3>3
    <3>4. CASE o[j] \notin P /\ o[k] \notin P
      <4>1. PICK i \in Slots : Frame(s.rb, i) = o[j]
        BY <1>5, <1>9, <3>4
      <4>2. PICK x \in Slots : Frame(s.rb, x) = o[k]
        BY <1>5, <1>9, <3>4
      <4>3. i = x
        BY <1>9, <4>1, <4>2 DEF Once
      <4>4. QED  BY <4>1, <4>2, <4>3
    <3>5. QED  BY <3>1, <3>2, <3>3, <3>4
  <2>2. CASE res.rb.next = r.next
    <3>1. Len(o) <= 1
      BY <1>3, <2>2 DEF RBP!NextMoves, o
    <3>2. QED  BY <1>4, <3>1
  <2>3. CASE res.rb.next # r.next
    <3> DEFINE D(x) == RBP!Dist(RBP!SortKey(o[x]), r.next)
    <3>1. \A x, y \in 1 .. Len(o) : o[x] # None /\ o[y] # None /\ x < y => D(x) < D(y)
      BY <1>1, <1>2, <1>3, <2>3, RingFacts, SameNumbers, RBP!OutRises DEF o
    <3>2. \A x \in 1 .. Len(o) :
             o[x] # None => D(x) \in 0 .. RBP!Dist(res.rb.next, r.next) - 1
      BY <1>1, <1>2, <1>3, <2>3, RingFacts, SameNumbers, RBP!OutRises DEF o
    <3>3. D(j) \in Int /\ D(j) = D(k)
      BY <1>9, <2>1, <3>2
    <3> HIDE DEF D
    <3>4. ~(j < k) /\ ~(k < j)
      BY <1>9, <3>1, <3>3
    <3>5. QED  BY <1>4, <3>4
  <2>4. QED  BY <2>2, <2>3
<1>10. Unlike(s.app, o)
  BY <1>8, <1>9 DEF Unlike, Once
<1>11. ASSUME NEW j \in 1 .. Len(o), o[j] # None, InRing(res.rb, o[j].first)
       PROVE  FALSE
  <2>1. PICK i \in Slots : Frame(res.rb, i) # None /\ Frame(res.rb, i).first = o[j].first
    BY <1>11 DEF InRing
  <2>2. \/ Frame(res.rb, i) = Frame(s.rb, i)
        \/ Frame(res.rb, i) \in P /\ o = <<>>
    BY <1>1, <1>3, <2>1 DEF RBP!FromRing, Slots, Frame, o
  <2>3. o # <<>>
    BY <1>4, <1>11
  <2>4. Frame(s.rb, i) # None /\ Frame(s.rb, i).first = o[j].first
        /\ Frame(res.rb, i) # None
    BY <2>1, <2>2, <2>3
  <2>5. CASE o[j] \in P
    BY <1>6, <1>7, <2>4, <2>5
  <2>6. CASE o[j] \notin P
    <3>1. PICK x \in Slots : Frame(s.rb, x) = o[j] /\ Frame(res.rb, x) = None
      BY <1>5, <1>11, <2>6
    <3>2. i = x
      BY <1>11, <2>4, <3>1 DEF Once
    <3>3. QED  BY <2>4, <3>1, <3>2
  <2>7. QED  BY <2>5, <2>6
<1>12. QED  BY <1>8, <1>10, <1>11 DEF o

LEMMA ApplyOnce ==
    ASSUME NEW s \in RcvType, NEW pend, Once(s, pend), NEW sn \in SN, NEW res,
           NEW P, NEW N, NEW here, Call(s, sn, res, P, N), Offered(s, pend, P)
    PROVE  Once(Apply(s, sn, res, here), Settled(pend, P))
<1> DEFINE t == Apply(s, sn, res, here)
           r == RBP!Inited(s.rb, sn)
           o == res.out
           left == Settled(pend, P)
<1>1. RBP!CallOk(r, res) /\ RBP!FromRing(r, res, P) /\ RBP!Good(s.rb)
  BY DEF Call, RBP!Moves, Once
<1>2. t \in RcvType /\ t.filter = s.filter /\ t.rb = res.rb /\ t.app = Handed(s.app, o)
  <2>1. RBP!Good(s.rb) /\ RBP!CallOk(RBP!Inited(s.rb, sn), res)
    BY <1>1
  <2>2. Applied(t, s, sn, res, here)
    BY <2>1, ApplyFields
  <2> HIDE DEF t
  <2>3. QED  BY <2>2 DEF Applied
<1>3. r.slot = s.rb.slot
  BY <1>1, InitedFacts
<1>4. /\ Unlike(s.app, o)
      /\ \A j \in 1 .. Len(o) : o[j] # None =>
            o[j].first \in s.filter \ left /\ ~InRing(res.rb, o[j].first)
  BY OutUnlike
<1>5. /\ RBP!Good(res.rb) /\ res.rb.inited /\ o \in Seq(Pkts \cup {None})
      /\ s.app \in Seq(SN)
  BY <1>1, CallTypes DEF RcvType
<1>6. /\ \A x : Among(t.app, x) <=> Among(s.app, x) \/ Gives(o, Len(o), x)
      /\ Distinct(t.app)
  BY <1>2, <1>4, <1>5, HandedFacts DEF HandOk
<1>7. left \subseteq t.filter
  BY <1>2 DEF Once, Settled
<1>8. ASSUME NEW i \in Slots, Frame(res.rb, i) # None
      PROVE  \/ Frame(res.rb, i) = Frame(s.rb, i)
             \/ Frame(res.rb, i) \in P
  BY <1>1, <1>3, <1>8 DEF RBP!FromRing, Slots, Frame
<1>9. \A p \in P : p.first \in pend /\ p.first \in s.filter /\ p.first \notin left
                   /\ ~Among(s.app, p.first) /\ ~InRing(s.rb, p.first)
  BY DEF Offered, Once, Settled
<1> HIDE DEF t, r, o
<1>10. \A i \in Slots : Frame(s.rb, i) # None =>
         /\ Frame(s.rb, i).first \in s.filter \ pend
         /\ ~Among(s.app, Frame(s.rb, i).first)
         /\ InRing(s.rb, Frame(s.rb, i).first)
  BY DEF Once, InRing
<1>11. \A f : InRing(res.rb, f) => f \in t.filter \ left /\ ~Among(s.app, f)
  BY <1>2, <1>8, <1>9, <1>10 DEF InRing, Settled
<1>12. \A f : Among(t.app, f) => f \in t.filter \ left /\ ~InRing(t.rb, f)
  <2> SUFFICES ASSUME NEW f, Among(t.app, f)
               PROVE  f \in t.filter \ left /\ ~InRing(t.rb, f)
    OBVIOUS
  <2>1. CASE Among(s.app, f)
    BY <1>2, <1>11, <2>1 DEF Once, Settled
  <2>2. CASE Gives(o, Len(o), f)
    BY <1>2, <1>4, <2>2 DEF Gives
  <2>3. QED  BY <1>6, <2>1, <2>2
<1>13. ASSUME NEW i \in Slots, NEW j \in Slots, Frame(res.rb, i) # None,
              Frame(res.rb, j) # None, Frame(res.rb, i).first = Frame(res.rb, j).first
       PROVE  i = j
  <2>1. CASE Frame(res.rb, i) = Frame(s.rb, i) /\ Frame(res.rb, j) = Frame(s.rb, j)
    BY <1>13, <2>1 DEF Once
  <2>2. CASE Frame(res.rb, i) = Frame(s.rb, i) /\ Frame(res.rb, j) # Frame(s.rb, j)
    BY <1>8, <1>9, <1>10, <1>13, <2>2
  <2>3. CASE Frame(res.rb, i) # Frame(s.rb, i) /\ Frame(res.rb, j) = Frame(s.rb, j)
    BY <1>8, <1>9, <1>10, <1>13, <2>3
  <2>4. CASE Frame(res.rb, i) # Frame(s.rb, i) /\ Frame(res.rb, j) # Frame(s.rb, j)
    <3>1. Frame(res.rb, i) \in P /\ Frame(res.rb, j) \in P
      BY <1>8, <1>13, <2>4
    <3>2. Frame(res.rb, i) = Frame(res.rb, j)
      BY <3>1 DEF Offered
    <3>3. QED  BY <1>5, <1>13, <3>2, SamePlace
  <2>5. QED  BY <2>1, <2>2, <2>3, <2>4
<1>14. QED
  BY <1>2, <1>5, <1>6, <1>7, <1>11, <1>12, <1>13 DEF Once, t

-----------------------------------------------------------------------------
(* A stream whose numbers do not wrap.  The order of delivery, the account *)
(* of what was accepted and the meaning of a jump are about such a stream. *)

NotWrapped == FirstSn + MaxPackets < SnMod

Own(q, n) == q[n - FirstSn + 1].first
IsFirst(q, f) == \E k \in 1 .. Len(q) : q[k].first = f
SentOk(q) ==
    /\ q \in Seq(Pkts) /\ Len(q) <= MaxPackets
    /\ NotWrapped => \A k \in 1 .. Len(q) :
          /\ q[k].sn = FirstSn + k - 1
          /\ q[k].first \in FirstSn .. q[k].sn
          /\ Own(q, q[k].first) = q[k].first

\* The numbers sent so far end before this one.
End(q) == FirstSn + Len(q)

\* Number n has been dealt with, as the pack_sn_ of a packet whose frame the
\* filter knows.
Known(s, pend, q, n) ==
    Own(q, n) \in s.filter \ pend \/ RBP!Passed(Own(q, n), s.border)

Standing(s, pend, q) ==
    \A i \in Slots : RBP!Occupied(s.rb.slot[i]) =>
        \E n \in s.rb.next + 1 .. End(q) - 1 :
            /\ n < s.rb.next + BufSize /\ i = RBP!SlotOf(n)
            /\ s.rb.slot[i].ph => Known(s, pend, q, n)
TurnOk(s, q) ==
    /\ \A k \in 1 .. Len(s.turn) :
          IsFirst(q, s.turn[k]) /\ s.rb.inited /\ s.turn[k] < s.rb.next
    /\ Rising(s.turn)
Accounted(s, pend) ==
    \A f \in s.filter \ pend :
        Among(s.app, f) \/ InRing(s.rb, f) \/ f \in s.lost \/ f < s.start
Walked(s, pend, q) ==
    s.rb.inited => \A n \in s.start .. s.rb.next - 1 :
        Among(s.app, n) \/ n \in s.lost \/ Known(s, pend, q, n)

Line(s, pend, q) ==
    /\ \A f \in s.filter : IsFirst(q, f) /\ ~RBP!Passed(f, s.border)
    /\ s.rb.inited => s.start \in FirstSn .. s.rb.next /\ s.rb.next <= End(q)
    /\ ~s.rb.inited => s.filter \subseteq pend
    /\ s.rb.gap => \E i \in Slots : RBP!Occupied(s.rb.slot[i])
    /\ Standing(s, pend, q) /\ TurnOk(s, q)
    /\ Accounted(s, pend) /\ Walked(s, pend, q)

\* Below End(q) the arithmetic of the numbers is that of the integers.
LEMMA EndFacts ==
    ASSUME NotWrapped, NEW q, SentOk(q)
    PROVE  /\ End(q) \in Nat /\ FirstSn \in Nat /\ FirstSn <= End(q) /\ End(q) < SnMod
           /\ 2 * (End(q) - FirstSn) < SnMod
<1>1. FirstSn \in Nat /\ MaxPackets \in Nat /\ 2 * MaxPackets < SnMod /\ SnMod \in Nat
  BY StreamAssumption, SizeFacts DEF SN
<1>2. Len(q) \in Nat /\ Len(q) <= MaxPackets
  BY DEF SentOk
<1>3. QED  BY <1>1, <1>2 DEF End, NotWrapped

LEMMA OnLine ==
    ASSUME NotWrapped, NEW q, SentOk(q),
           NEW a \in FirstSn .. End(q), NEW b \in FirstSn .. End(q)
    PROVE  /\ a \in SN /\ a \in Nat
           /\ RBP!Passed(a, b) <=> a < b
           /\ b <= a => RBP!Dist(a, b) = a - b
           /\ a < b => 2 * RBP!Dist(a, b) >= SnMod
           /\ RBP!Dist(a, b) \in Nat
<1>1. /\ End(q) \in Nat /\ FirstSn \in Nat /\ FirstSn <= End(q) /\ End(q) < SnMod
      /\ 2 * (End(q) - FirstSn) < SnMod
  BY EndFacts
<1>2. a \in SN /\ b \in SN /\ a \in Nat /\ b \in Nat
  BY <1>1, SizeFacts DEF SN
<1> DEFINE d == RBP!Dist(a, b)
<1>3. d = IF b <= a THEN a - b ELSE a - b + SnMod
  BY <1>2, RingFacts, SameNumbers, RBP!DistLinear
<1>4. RBP!Passed(a, b) <=> 2 * d >= SnMod
  BY DEF RBP!Passed
<1> HIDE DEF d
<1>5. /\ b <= a => d = a - b
      /\ a < b => 2 * d >= SnMod
      /\ d \in Nat
      /\ 2 * d >= SnMod <=> a < b
  BY <1>1, <1>2, <1>3, SizeFacts
<1>6. QED  BY <1>2, <1>4, <1>5 DEF d

LEMMA PlusIsSum ==
    ASSUME NotWrapped, NEW q, SentOk(q), NEW a \in FirstSn .. End(q), NEW d \in Nat,
           a + d <= End(q)
    PROVE  RBP!Plus(a, d) = a + d /\ a + d \in FirstSn .. End(q)
<1>1. End(q) \in Nat /\ FirstSn \in Nat /\ End(q) < SnMod
  BY EndFacts
<1>2. a \in SN /\ d \in 0 .. SnMod /\ a + d < SnMod
  BY <1>1, SizeFacts DEF SN
<1>3. RBP!Plus(a, d) = a + d
  BY <1>2, RingFacts, SameNumbers, RBP!PlusLinear
<1>4. QED  BY <1>1, <1>3

\* A distance less than half the numbers leads forward.
LEMMA ForwardPlus ==
    ASSUME NotWrapped, NEW q, SentOk(q), NEW a \in FirstSn .. End(q),
           NEW b \in FirstSn .. End(q), NEW d \in 0 .. SnMod - 1,
           RBP!Plus(a, d) = b, 2 * d < SnMod
    PROVE  b = a + d
<1>1. /\ End(q) \in Nat /\ FirstSn \in Nat /\ FirstSn <= End(q) /\ End(q) < SnMod
      /\ 2 * (End(q) - FirstSn) < SnMod
  BY EndFacts
<1>2. a \in SN /\ d \in 0 .. SnMod /\ a \in Nat /\ b \in Nat
  BY <1>1, SizeFacts DEF SN
<1>3. b = IF a + d < SnMod THEN a + d ELSE a + d - SnMod
  BY <1>2, RingFacts, SameNumbers, RBP!PlusLinear
<1>4. QED  BY <1>1, <1>2, <1>3, SizeFacts

\* Two numbers ahead of a and less than a ring away with one slot are one.
LEMMA SameSlot ==
    ASSUME NotWrapped, NEW q, SentOk(q), NEW a \in FirstSn .. End(q),
           NEW m \in a .. End(q), NEW n \in a .. End(q),
           m < a + BufSize, n < a + BufSize, RBP!SlotOf(m) = RBP!SlotOf(n)
    PROVE  m = n
<1>1. End(q) \in Nat /\ FirstSn \in Nat /\ End(q) < SnMod
  BY EndFacts
<1> DEFINE d == m - a
           e == n - a
<1>2. a \in Nat /\ d \in Nat /\ e \in Nat /\ d < BufSize /\ e < BufSize
      /\ a + d <= End(q) /\ a + e <= End(q) /\ a + d = m /\ a + e = n
  BY <1>1, SizeFacts
<1> HIDE DEF d, e
<1>3. RBP!Plus(a, d) = m /\ RBP!Plus(a, e) = n /\ a \in SN
  <2>1. RBP!Plus(a, d) = a + d
    BY <1>2, PlusIsSum
  <2>2. RBP!Plus(a, e) = a + e
    BY <1>2, PlusIsSum
  <2>3. a \in SN
    BY <1>1, SizeFacts DEF SN
  <2>4. QED  BY <1>2, <2>1, <2>2, <2>3
<1>4. d \in 0 .. SnMod /\ e \in 0 .. SnMod /\ d < e + BufSize /\ e < d + BufSize
  BY <1>2, SizeFacts
<1>5. ~(d < e) /\ ~(e < d)
  BY <1>3, <1>4, RingFacts, SameNumbers, RBP!SlotsDiffer
<1>6. QED  BY <1>2, <1>5

\* The first_sn of a packet of the stream is its sort key.
LEMMA KeyIsFirst ==
    ASSUME NotWrapped, NEW q, SentOk(q), NEW f, IsFirst(q, f)
    PROVE  /\ f \in FirstSn .. End(q) - 1
           /\ Own(q, f) = f
           /\ \A p \in Pkts : p.first = f => RBP!SortKey(p) = f
<1>1. End(q) \in Nat /\ FirstSn \in Nat /\ End(q) < SnMod
  BY EndFacts
<1>2. PICK k \in 1 .. Len(q) : q[k].first = f
  BY DEF IsFirst
<1>3. /\ q[k].sn = FirstSn + k - 1 /\ f \in FirstSn .. q[k].sn /\ Own(q, f) = f
      /\ Len(q) \in Nat
  BY <1>2 DEF SentOk
<1>4. f \in FirstSn .. End(q) - 1
  BY <1>1, <1>3 DEF End
<1>5. f # SnMod - 1
  BY <1>1, <1>4, SizeFacts
<1>6. QED  BY <1>3, <1>4, <1>5 DEF RBP!SortKey, RBP!NoHint

\* A call for a number on the line: pack_sn_ sn, the frame in P and the
\* number in N.  Without a frame the number is given up or already known.
Numbered(s, pend, q, sn, P, N, here) ==
    /\ sn \in FirstSn .. End(q)
    /\ \A p \in P : IsFirst(q, p.first)
    /\ \A n \in N : /\ n \in FirstSn .. End(q) - 1
                    /\ P = {} => n = s.rb.next \/ Known(s, pend, q, n)
    /\ \A n \in here : Known(s, pend, q, n)

OnStream(s, pend, q, sn, res, P, N, here) ==
    /\ NotWrapped /\ SentOk(q)
    /\ s \in RcvType /\ Once(s, pend) /\ Line(s, pend, q) /\ sn \in SN
    /\ Call(s, sn, res, P, N) /\ Offered(s, pend, P)
    /\ Numbered(s, pend, q, sn, P, N, here)
    /\ P = {} /\ ~s.rb.inited => \A n \in N : Known(s, pend, q, n)

\* next moves forward, never behind what has been sent, and leaves nothing.
Forward(q, r, r1) ==
    /\ r.next \in FirstSn .. End(q) /\ r1.next \in r.next .. End(q)
    /\ \A m \in r.next .. r1.next - 1 : m < r.next + BufSize =>
          ~RBP!Occupied(r1.slot[RBP!SlotOf(m)])
    /\ ~RBP!Occupied(r1.slot[RBP!SlotOf(r1.next)])

LEMMA NextOnLine ==
    ASSUME NEW s, NEW pend, NEW q, NEW sn, NEW res, NEW P, NEW N, NEW here,
           OnStream(s, pend, q, sn, res, P, N, here)
    PROVE  Forward(q, RBP!Inited(s.rb, sn), res.rb)
<1> DEFINE r == RBP!Inited(s.rb, sn)
           n0 == r.next
           n1 == res.rb.next
<1>1. /\ NotWrapped /\ SentOk(q) /\ s \in RcvType /\ Once(s, pend) /\ Line(s, pend, q)
      /\ sn \in SN /\ Call(s, sn, res, P, N) /\ Numbered(s, pend, q, sn, P, N, here)
  BY DEF OnStream
<1>2. /\ RBP!Good(s.rb) /\ RBP!Good(r) /\ r.slot = s.rb.slot /\ n0 \in SN
      /\ n0 = IF s.rb.inited THEN s.rb.next ELSE sn
  BY <1>1, InitedFacts DEF Once
<1>3. RBP!CallOk(r, res) /\ RBP!NextMoves(r, res, N)
  BY <1>1 DEF Call, RBP!Moves
<1>4. n1 \in SN /\ RBP!Good(res.rb)
  BY <1>3, CallTypes
<1>5. /\ End(q) \in Nat /\ FirstSn \in Nat /\ FirstSn <= End(q) /\ End(q) < SnMod
  BY <1>1, EndFacts
<1>6. n0 \in FirstSn .. End(q)
  <2>1. CASE s.rb.inited
    <3>1. s.start \in FirstSn .. s.rb.next /\ s.rb.next <= End(q) /\ s.rb.next = n0
      BY <1>1, <1>2, <2>1 DEF Line
    <3>2. QED  BY <1>2, <1>5, <3>1 DEF SN
  <2>2. CASE ~s.rb.inited
    BY <1>1, <1>2, <2>2 DEF Numbered
  <2>3. QED  BY <2>1, <2>2
<1>7. ~RBP!Occupied(res.rb.slot[RBP!SlotOf(n1)])
  BY <1>4 DEF RBP!Good, RBP!HeadEmptyIn
<1> HIDE DEF r, n0, n1
<1>8. CASE n1 = n0
  BY <1>5, <1>6, <1>7, <1>8 DEF Forward, n0, n1, r
<1>9. CASE n1 # n0
  <2>1. PICK d \in 0 .. SnMod - 1 :
            /\ n1 = RBP!Plus(n0, d + 1) /\ 2 * d < SnMod
            /\ \/ RBP!Plus(n0, d) \in N
               \/ d \in 1 .. BufSize - 1 /\ RBP!Occupied(r.slot[RBP!SlotOf(RBP!Plus(n0, d))])
            /\ \A e \in 0 .. d : e < BufSize =>
                  ~RBP!Occupied(res.rb.slot[RBP!SlotOf(RBP!Plus(n0, e))])
    BY <1>3, <1>9 DEF RBP!NextMoves, n0, n1
  <2>2. n0 + d \in FirstSn .. End(q) - 1
    <3>1. CASE RBP!Plus(n0, d) \in N
      <4>1. RBP!Plus(n0, d) \in FirstSn .. End(q) - 1
        BY <1>1, <3>1 DEF Numbered
      <4>2. RBP!Plus(n0, d) \in FirstSn .. End(q)
        BY <1>5, <4>1
      <4>3. RBP!Plus(n0, d) = n0 + d
        BY <1>1, <1>6, <2>1, <4>2, ForwardPlus
      <4>4. QED  BY <4>1, <4>3
    <3>2. CASE d \in 1 .. BufSize - 1 /\ RBP!Occupied(r.slot[RBP!SlotOf(RBP!Plus(n0, d))])
      <4> DEFINE i == RBP!SlotOf(RBP!Plus(n0, d))
      <4>1. d \in 0 .. SnMod
        BY <2>1, SizeFacts
      <4>2. i \in Slots
        BY <1>2, <4>1, RingFacts, SameNumbers, RBP!SlotOfPlus DEF Slots
      <4>3. RBP!Occupied(s.rb.slot[i])
        BY <1>2, <3>2
      <4>4. s.rb.inited
        <5>1. ~s.rb.inited => s.rb.slot[i] = RBP!EmptySlot
          BY <1>2, <4>2 DEF RBP!Good, RBP!FreshEmptyIn, Slots
        <5>2. ~RBP!Occupied(RBP!EmptySlot)
          BY DEF RBP!Occupied, RBP!EmptySlot
        <5>3. QED  BY <4>3, <5>1, <5>2
      <4>5. s.rb.next = n0
        BY <1>2, <4>4
      <4>6. PICK m \in n0 + 1 .. End(q) - 1 : m < n0 + BufSize /\ i = RBP!SlotOf(m)
        BY <1>1, <4>2, <4>3, <4>5 DEF Line, Standing
      <4>7. n0 \in Nat /\ m \in Nat /\ m - n0 \in Nat /\ n0 + (m - n0) = m
            /\ n0 + (m - n0) <= End(q) /\ m - n0 \in 0 .. SnMod
        BY <1>5, <1>6, SizeFacts
      <4>8. RBP!Plus(n0, m - n0) = n0 + (m - n0)
        BY <1>1, <1>6, <4>7, PlusIsSum
      <4>9. RBP!SlotOf(RBP!Plus(n0, m - n0)) = RBP!SlotOf(RBP!Plus(n0, d))
        BY <4>6, <4>7, <4>8
      <4> DEFINE e == m - n0
      <4>10. e \in 0 .. SnMod /\ e < d + BufSize /\ d < e + BufSize
             /\ RBP!SlotOf(RBP!Plus(n0, e)) = RBP!SlotOf(RBP!Plus(n0, d))
        BY <3>2, <4>6, <4>7, <4>9, SizeFacts
      <4> HIDE DEF e
      <4>11. ~(e < d) /\ ~(d < e)
        BY <1>2, <4>1, <4>10, RingFacts, SameNumbers, RBP!SlotsDiffer
      <4>12. d = e
        BY <4>1, <4>10, <4>11
      <4>13. QED  BY <1>5, <1>6, <4>6, <4>7, <4>12 DEF e
    <3>3. QED  BY <2>1, <3>1, <3>2
  <2>3. n1 = n0 + d + 1 /\ n1 \in n0 .. End(q)
    <3>1. d + 1 \in Nat /\ n0 + (d + 1) <= End(q) /\ n0 \in Nat
      BY <1>5, <1>6, <2>2, SizeFacts
    <3>2. RBP!Plus(n0, d + 1) = n0 + (d + 1)
      BY <1>1, <1>6, <3>1, PlusIsSum
    <3>3. QED  BY <1>5, <2>1, <3>1, <3>2
  <2>4. ASSUME NEW m \in n0 .. n1 - 1, m < n0 + BufSize
        PROVE  ~RBP!Occupied(res.rb.slot[RBP!SlotOf(m)])
    <3> DEFINE e == m - n0
    <3>1. e \in 0 .. d /\ e < BufSize /\ n0 + e = m /\ e \in Nat /\ n0 + e <= End(q)
      BY <1>5, <1>6, <2>2, <2>3, <2>4, SizeFacts
    <3> HIDE DEF e
    <3>2. RBP!Plus(n0, e) = n0 + e
      BY <1>1, <1>6, <3>1, PlusIsSum
    <3>3. QED  BY <2>1, <3>1, <3>2
  <2>5. QED  BY <1>6, <1>7, <2>3, <2>4 DEF Forward, n0, n1, r
<1>10. QED  BY <1>8, <1>9

\* All that is known of a call on the stream: r the state it starts from and
\* t the receiver's state after it.
StreamCall(s, pend, q, sn, res, P, N, here, r, t) ==
    /\ OnStream(s, pend, q, sn, res, P, N, here)
    /\ r.slot = s.rb.slot /\ r.gap = s.rb.gap /\ RBP!Good(r)
    /\ r.next = IF s.rb.inited THEN s.rb.next ELSE sn
    /\ RBP!Good(res.rb) /\ res.rb.inited
    /\ RBP!CallOk(r, res) /\ RBP!Moves(r, res, P, N)
    /\ r = RBP!Inited(s.rb, sn) /\ Applied(t, s, sn, res, here) /\ Forward(q, r, res.rb)
    /\ HandOk(s.app, res.out, Len(res.out), t.app)
    /\ \A i \in Slots : Frame(s.rb, i) # None =>
          /\ Frame(s.rb, i) \in Pkts /\ Frame(s.rb, i).first \in s.filter \ pend
          /\ RBP!SortKey(Frame(s.rb, i)) = Frame(s.rb, i).first
          /\ ~RBP!Replaced(P, Frame(s.rb, i))
    /\ \A f \in s.filter : IsFirst(q, f) /\ f \in FirstSn .. End(q) - 1 /\ Own(q, f) = f
    /\ \A p \in P : /\ p \in Pkts /\ p # None /\ p.first \in pend /\ p.first \in s.filter
                    /\ RBP!SortKey(p) = p.first

LEMMA StreamFacts ==
    ASSUME NEW s, NEW pend, NEW q, NEW sn, NEW res, NEW P, NEW N, NEW here,
           OnStream(s, pend, q, sn, res, P, N, here)
    PROVE  StreamCall(s, pend, q, sn, res, P, N, here,
                      RBP!Inited(s.rb, sn), Apply(s, sn, res, here))
<1> DEFINE r == RBP!Inited(s.rb, sn)
           t == Apply(s, sn, res, here)
<1>1. /\ NotWrapped /\ SentOk(q) /\ s \in RcvType /\ Once(s, pend) /\ Line(s, pend, q)
      /\ sn \in SN /\ Call(s, sn, res, P, N) /\ Offered(s, pend, P)
  BY DEF OnStream
<1>2. RBP!Good(s.rb) /\ RBP!CallOk(r, res) /\ RBP!Moves(r, res, P, N)
  BY <1>1 DEF Once, Call
<1>3. /\ r.slot = s.rb.slot /\ r.gap = s.rb.gap /\ RBP!Good(r)
      /\ r.next = IF s.rb.inited THEN s.rb.next ELSE sn
  BY <1>1, <1>2, InitedFacts
<1>4. RBP!Good(res.rb) /\ res.rb.inited /\ res.out \in Seq(Pkts \cup {None})
  BY <1>2, CallTypes
<1>5. Applied(t, s, sn, res, here)
  BY <1>1, <1>2, ApplyFields
<1>6. Forward(q, r, res.rb)
  BY NextOnLine
<1> HIDE DEF t, r
<1>7. HandOk(s.app, res.out, Len(res.out), t.app)
  <2>1. s.app \in Seq(SN) /\ t.app = Handed(s.app, res.out)
    BY <1>1, <1>5 DEF RcvType, Applied
  <2>2. QED  BY <1>4, <2>1, HandedFacts
<1>8. \A f \in s.filter : IsFirst(q, f) /\ f \in FirstSn .. End(q) - 1 /\ Own(q, f) = f
                          /\ \A p \in Pkts : p.first = f => RBP!SortKey(p) = f
  BY <1>1, KeyIsFirst DEF Line
<1>9. \A p \in P : /\ p \in Pkts /\ p.first \in pend /\ p.first \in s.filter
                   /\ RBP!SortKey(p) = p.first /\ p # None
  <2>1. None \notin Pkts
    BY RingAssumption DEF Pkts
  <2>2. QED  BY <1>1, <1>8, <2>1 DEF Offered, Once
<1>10. ASSUME NEW i \in Slots, Frame(s.rb, i) # None
       PROVE  /\ Frame(s.rb, i) \in Pkts /\ Frame(s.rb, i).first \in s.filter \ pend
              /\ RBP!SortKey(Frame(s.rb, i)) = Frame(s.rb, i).first
              /\ ~RBP!Replaced(P, Frame(s.rb, i))
  <2>1. Frame(s.rb, i) \in Pkts
    BY <1>2, <1>10 DEF RBP!Good, RBP!RbType, RBP!SlotType, Slots, Frame, Pkts
  <2>2. Frame(s.rb, i).first \in s.filter \ pend
    BY <1>1, <1>10 DEF Once, InRing
  <2>3. RBP!SortKey(Frame(s.rb, i)) = Frame(s.rb, i).first
    BY <1>8, <2>1, <2>2
  <2>4. ~RBP!Replaced(P, Frame(s.rb, i))
    BY <1>9, <2>2, <2>3 DEF RBP!Replaced
  <2>5. QED  BY <2>1, <2>2, <2>3, <2>4
<1>11. \A f \in s.filter : IsFirst(q, f) /\ f \in FirstSn .. End(q) - 1 /\ Own(q, f) = f
  BY <1>8
<1>12. r = RBP!Inited(s.rb, sn)
  BY DEF r
<1>13. StreamCall(s, pend, q, sn, res, P, N, here, r, t)
  BY <1>2, <1>3, <1>4, <1>5, <1>6, <1>7, <1>9, <1>10, <1>11, <1>12 DEF StreamCall
<1>14. QED  BY <1>13 DEF t, r

LEMMA StandingKept ==
    ASSUME NEW s, NEW pend, NEW q, NEW sn, NEW res, NEW P, NEW N, NEW here, NEW r, NEW t,
           StreamCall(s, pend, q, sn, res, P, N, here, r, t)
    PROVE  /\ Standing(t, Settled(pend, P), q)
           /\ t.rb.gap => \E i \in Slots : RBP!Occupied(t.rb.slot[i])
<1> DEFINE n0 == r.next
           n1 == res.rb.next
<1>1. /\ NotWrapped /\ SentOk(q) /\ Once(s, pend) /\ Line(s, pend, q)
      /\ Numbered(s, pend, q, sn, P, N, here) /\ RBP!Fills(r, res, P, N)
      /\ P = {} /\ ~s.rb.inited => \A n \in N : Known(s, pend, q, n)
  BY DEF StreamCall, OnStream, RBP!Moves
<1>2. /\ r.slot = s.rb.slot /\ r.gap = s.rb.gap /\ RBP!Good(r) /\ Forward(q, r, res.rb)
      /\ n0 = IF s.rb.inited THEN s.rb.next ELSE sn
      /\ t.rb = res.rb /\ t.filter = s.filter /\ t.border = s.border
  BY DEF StreamCall, Applied
<1>3. End(q) \in Nat /\ FirstSn \in Nat /\ FirstSn <= End(q) /\ End(q) < SnMod
  BY <1>1, EndFacts
<1>4. n0 \in FirstSn .. End(q) /\ n1 \in n0 .. End(q) /\ n0 \in Nat /\ n1 \in Nat
  BY <1>2, <1>3 DEF Forward
<1> HIDE DEF n0, n1
<1>5. ASSUME NEW i \in Slots, RBP!Occupied(r.slot[i])
      PROVE  \E m \in n0 + 1 .. End(q) - 1 :
                /\ m < n0 + BufSize /\ i = RBP!SlotOf(m)
                /\ r.slot[i].ph => Known(s, pend, q, m)
  <2>1. s.rb.inited
    <3>1. ~s.rb.inited => s.rb.slot[i] = RBP!EmptySlot
      BY <1>1 DEF Once, RBP!Good, RBP!FreshEmptyIn, Slots
    <3>2. ~RBP!Occupied(RBP!EmptySlot)
      BY DEF RBP!Occupied, RBP!EmptySlot
    <3>3. QED  BY <1>2, <1>5, <3>1, <3>2
  <2>2. QED  BY <1>1, <1>2, <1>5, <2>1 DEF Line, Standing
<1>6. ASSUME NEW i, RBP!Ahead(r, N, i)
      PROVE  \E n \in N : /\ n \in n0 + 1 .. End(q) - 1 /\ n < n0 + BufSize
                          /\ i = RBP!SlotOf(n)
                          /\ P = {} => Known(s, pend, q, n)
  <2>1. PICK n \in N : i = RBP!SlotOf(n) /\ RBP!Dist(n, n0) \in 1 .. BufSize - 1
    BY <1>6 DEF RBP!Ahead, n0
  <2>2. n \in FirstSn .. End(q) - 1 /\ n \in FirstSn .. End(q)
    BY <1>1, <1>3 DEF Numbered
  <2>3. /\ n0 <= n => RBP!Dist(n, n0) = n - n0
        /\ n < n0 => 2 * RBP!Dist(n, n0) >= SnMod
    BY <1>1, <1>4, <2>2, OnLine
  <2> DEFINE d == RBP!Dist(n, n0)
  <2>4. d \in 1 .. BufSize - 1 /\ (n0 <= n => d = n - n0) /\ (n < n0 => 2 * d >= SnMod)
    BY <2>1, <2>3
  <2> HIDE DEF d
  <2>5. n > n0 /\ n < n0 + BufSize
    BY <1>3, <1>4, <2>2, <2>4, SizeFacts
  <2>6. P = {} => Known(s, pend, q, n)
    <3>1. s.rb.inited => n # s.rb.next
      BY <1>2, <1>4, <2>2, <2>5
    <3>2. QED  BY <1>1, <3>1 DEF Numbered
  <2>7. QED  BY <1>4, <2>1, <2>2, <2>5, <2>6
<1>7. ASSUME NEW i \in Slots, RBP!Occupied(res.rb.slot[i])
      PROVE  \E n \in n1 + 1 .. End(q) - 1 :
                /\ n < n1 + BufSize /\ i = RBP!SlotOf(n)
                /\ res.rb.slot[i].ph => Known(s, pend, q, n)
  <2>1. /\ RBP!Occupied(r.slot[i]) \/ (n1 = n0 /\ RBP!Ahead(r, N, i))
        /\ res.rb.slot[i].ph => r.slot[i].ph \/ (P = {} /\ n1 = n0 /\ RBP!Ahead(r, N, i))
    BY <1>1, <1>7 DEF RBP!Fills, Slots, n0, n1
  <2>2. CASE RBP!Occupied(r.slot[i])
    <3>1. PICK m \in n0 + 1 .. End(q) - 1 :
              /\ m < n0 + BufSize /\ i = RBP!SlotOf(m)
              /\ r.slot[i].ph => Known(s, pend, q, m)
      BY <1>5, <2>2
    <3>2. m > n1
      <4>1. ~(m \in n0 .. n1 - 1) /\ m # n1
        BY <1>2, <1>7, <3>1 DEF Forward, n0, n1
      <4>2. QED  BY <1>3, <1>4, <3>1, <4>1
    <3>3. m \in n1 + 1 .. End(q) - 1 /\ m < n1 + BufSize
      BY <1>3, <1>4, <3>1, <3>2, SizeFacts
    <3>4. ASSUME P = {}, RBP!Ahead(r, N, i) PROVE Known(s, pend, q, m)
      <4>1. PICK n \in N : /\ n \in n0 + 1 .. End(q) - 1 /\ n < n0 + BufSize
                           /\ i = RBP!SlotOf(n) /\ Known(s, pend, q, n)
        BY <1>6, <3>4
      <4>2. m \in n0 .. End(q) /\ n \in n0 .. End(q)
        BY <1>3, <1>4, <3>1, <4>1
      <4>3. m = n
        BY <1>1, <1>4, <3>1, <4>1, <4>2, SameSlot
      <4>4. QED  BY <4>1, <4>3
    <3>5. res.rb.slot[i].ph => Known(s, pend, q, m)
      BY <2>1, <3>1, <3>4
    <3>6. QED  BY <3>1, <3>3, <3>5
  <2>3. CASE ~RBP!Occupied(r.slot[i])
    <3>1. ~r.slot[i].ph
      BY <2>3 DEF RBP!Occupied
    <3>2. PICK n \in N : /\ n \in n0 + 1 .. End(q) - 1 /\ n < n0 + BufSize
                         /\ i = RBP!SlotOf(n) /\ (P = {} => Known(s, pend, q, n))
      BY <1>6, <2>1, <2>3
    <3>3. QED  BY <2>1, <2>3, <3>1, <3>2
  <2>4. QED  BY <2>2, <2>3
<1>8. \A n : Known(s, pend, q, n) => Known(t, Settled(pend, P), q, n)
  BY <1>2 DEF Known, Settled
<1>9. Standing(t, Settled(pend, P), q)
  BY <1>2, <1>7, <1>8 DEF Standing, n1
<1>10. ASSUME res.rb.gap PROVE \E i \in Slots : RBP!Occupied(res.rb.slot[i])
  <2>1. SUFFICES ASSUME r.gap /\ \A i \in Slots : RBP!Occupied(r.slot[i]) =>
                           r.slot[i].frame # None /\ RBP!Replaced(P, r.slot[i].frame)
                 PROVE  FALSE
    BY <1>1, <1>10 DEF RBP!Fills, Slots
  <2>2. PICK i \in Slots : RBP!Occupied(s.rb.slot[i])
    BY <1>1, <1>2, <2>1 DEF Line
  <2>3. Frame(s.rb, i) # None /\ RBP!Replaced(P, Frame(s.rb, i))
    BY <1>2, <2>1, <2>2 DEF Frame
  <2>4. QED  BY <2>2, <2>3 DEF StreamCall
<1>11. QED  BY <1>2, <1>9, <1>10

\* The frames of a call that moves next lie between the old and the new next.
OutBetween(r, res) ==
    /\ \A j \in 1 .. Len(res.out) : res.out[j] # None =>
          res.out[j].first \in r.next .. res.rb.next - 1
    /\ \A j, k \in 1 .. Len(res.out) :
          res.out[j] # None /\ res.out[k] # None /\ j < k =>
            res.out[j].first < res.out[k].first

LEMMA OutOnLine ==
    ASSUME NEW s, NEW pend, NEW q, NEW sn, NEW res, NEW P, NEW N, NEW here, NEW r, NEW t,
           StreamCall(s, pend, q, sn, res, P, N, here, r, t), res.rb.next # r.next
    PROVE  OutBetween(r, res)
<1> DEFINE n0 == r.next
           n1 == res.rb.next
           o == res.out
           D(j) == RBP!Dist(RBP!SortKey(o[j]), n0)
<1>1. /\ NotWrapped /\ SentOk(q) /\ s \in RcvType /\ Once(s, pend) /\ sn \in SN
      /\ Call(s, sn, res, P, N) /\ Offered(s, pend, P) /\ Line(s, pend, q)
      /\ Forward(q, r, res.rb) /\ RBP!CallOk(r, res) /\ RBP!NextMoves(r, res, N)
  BY DEF StreamCall, OnStream, RBP!Moves
<1>2. /\ End(q) \in Nat /\ FirstSn \in Nat /\ FirstSn <= End(q)
      /\ 2 * (End(q) - FirstSn) < SnMod
  BY <1>1, EndFacts
<1>3. n0 \in FirstSn .. End(q) /\ n1 \in n0 .. End(q) /\ n1 \in FirstSn .. End(q)
  BY <1>1, <1>2 DEF Forward
<1>4. n0 \in SN /\ RBP!Dist(n1, n0) = n1 - n0
  BY <1>1, <1>3, OnLine
<1>5. /\ \A j \in 1 .. Len(o) : o[j] # None => D(j) \in 0 .. RBP!Dist(n1, n0) - 1
      /\ \A j, k \in 1 .. Len(o) : o[j] # None /\ o[k] # None /\ j < k => D(j) < D(k)
  BY <1>1, <1>4, RingFacts, SameNumbers, RBP!OutRises
<1>6. \A j \in 1 .. Len(o) : o[j] \in Pkts \cup {None}
  BY <1>1, CallTypes
<1>7. \A j \in 1 .. Len(o) : o[j] # None => o[j].first \in s.filter
  BY <1>1, OutUnlike
<1> HIDE DEF o, n0, n1
<1>8. ASSUME NEW j \in 1 .. Len(o), o[j] # None
      PROVE  o[j].first \in n0 .. n1 - 1 /\ D(j) = o[j].first - n0
  <2> DEFINE f == o[j].first
             d == D(j)
  <2>1. IsFirst(q, f)
    BY <1>1, <1>7, <1>8 DEF Line
  <2>2. f \in FirstSn .. End(q) - 1 /\ RBP!SortKey(o[j]) = f
    BY <1>1, <1>6, <1>8, <2>1, KeyIsFirst
  <2>3. f \in FirstSn .. End(q)
    BY <1>2, <2>2
  <2>4. (n0 <= f => d = f - n0) /\ (f < n0 => 2 * d >= SnMod)
    BY <1>1, <1>3, <2>2, <2>3, OnLine
  <2>5. d \in 0 .. (n1 - n0) - 1
    BY <1>4, <1>5, <1>8
  <2> HIDE DEF f, d
  <2>6. f \in n0 .. n1 - 1 /\ d = f - n0
    BY <1>2, <1>3, <2>3, <2>4, <2>5, SizeFacts
  <2>7. QED  BY <2>6 DEF f, d
<1>9. ASSUME NEW j \in 1 .. Len(o), NEW k \in 1 .. Len(o), o[j] # None, o[k] # None, j < k
      PROVE  o[j].first < o[k].first
  <2>1. D(j) < D(k) /\ D(j) = o[j].first - n0 /\ D(k) = o[k].first - n0
        /\ o[j].first \in n0 .. n1 - 1 /\ o[k].first \in n0 .. n1 - 1
    BY <1>5, <1>8, <1>9
  <2> DEFINE fj == o[j].first
             fk == o[k].first
  <2>2. n0 \in Int /\ n1 \in Int
    BY <1>2, <1>3
  <2>3. fj \in n0 .. n1 - 1 /\ fk \in n0 .. n1 - 1 /\ fj - n0 < fk - n0
    BY <2>1
  <2> HIDE DEF D, fj, fk
  <2>4. fj < fk
    BY <2>2, <2>3
  <2>5. QED  BY <2>4 DEF fj, fk
<1>10. QED  BY <1>8, <1>9 DEF OutBetween, n0, n1, o

LEMMA TurnKept ==
    ASSUME NEW s, NEW pend, NEW q, NEW sn, NEW res, NEW P, NEW N, NEW here, NEW r, NEW t,
           StreamCall(s, pend, q, sn, res, P, N, here, r, t)
    PROVE  TurnOk(t, q) /\ Extends(t.turn, s.turn)
<1> DEFINE n0 == r.next
           n1 == res.rb.next
           o == res.out
<1>1. /\ NotWrapped /\ SentOk(q) /\ s \in RcvType /\ Once(s, pend) /\ sn \in SN
      /\ Call(s, sn, res, P, N) /\ Offered(s, pend, P) /\ Line(s, pend, q)
      /\ Forward(q, r, res.rb) /\ RBP!CallOk(r, res) /\ RBP!Good(res.rb) /\ res.rb.inited
  BY DEF StreamCall, OnStream
<1>2. /\ n0 = IF s.rb.inited THEN s.rb.next ELSE sn
      /\ t.rb = res.rb
      /\ t.turn = IF n1 = n0 THEN s.turn ELSE Handed(s.turn, o)
  BY DEF StreamCall, Applied
<1>3. End(q) \in Nat /\ FirstSn \in Nat /\ FirstSn <= End(q)
  BY <1>1, EndFacts
<1>4. n0 \in Nat /\ n1 \in Nat /\ n0 <= n1
  BY <1>1, <1>3 DEF Forward
<1>5. s.turn \in Seq(SN) /\ Len(s.turn) \in Nat
      /\ \A k \in 1 .. Len(s.turn) : s.turn[k] \in Nat
  BY <1>1, SizeFacts DEF RcvType, SN
<1>6. /\ \A k \in 1 .. Len(s.turn) : IsFirst(q, s.turn[k]) /\ s.turn[k] < n0
      /\ Rising(s.turn)
  BY <1>1, <1>2 DEF Line, TurnOk
<1> HIDE DEF n0, n1, o
<1>7. CASE n1 = n0
  BY <1>1, <1>2, <1>4, <1>5, <1>6, <1>7 DEF TurnOk, Extends, n0, n1
<1>8. CASE n1 # n0
  <2>1. OutBetween(r, res)
    BY <1>8, OutOnLine DEF n0, n1
  <2>2. o \in Seq(Pkts \cup {None})
    BY <1>1, CallTypes DEF o
  <2>3. HandOk(s.turn, o, Len(o), t.turn)
    BY <1>2, <1>5, <1>8, <2>2, HandedFacts
  <2>4. Later(s.turn, o)
    <3>1. ASSUME NEW k \in 1 .. Len(s.turn), NEW j \in 1 .. Len(o), o[j] # None
          PROVE  s.turn[k] < o[j].first
      <4>1. o[j].first \in n0 .. n1 - 1
        BY <2>1, <3>1 DEF OutBetween, o, n0, n1
      <4>2. QED  BY <1>4, <1>5, <1>6, <4>1
    <3>2. QED  BY <1>6, <2>1, <3>1 DEF Later, OutBetween, o
  <2>5. Rising(t.turn) /\ Extends(t.turn, s.turn)
        /\ \A x : Among(t.turn, x) <=> Among(s.turn, x) \/ Gives(o, Len(o), x)
    BY <2>3, <2>4 DEF HandOk
  <2>6. ASSUME NEW x, Among(s.turn, x) \/ Gives(o, Len(o), x)
        PROVE  IsFirst(q, x) /\ x < n1
    <3>1. CASE Among(s.turn, x)
      <4>1. IsFirst(q, x) /\ x < n0 /\ x \in Nat
        BY <1>5, <1>6, <3>1 DEF Among
      <4>2. QED  BY <1>4, <4>1
    <3>2. CASE Gives(o, Len(o), x)
      <4>1. PICK j \in 1 .. Len(o) : o[j] # None /\ o[j].first = x
        BY <3>2 DEF Gives
      <4>2. x \in s.filter
        BY <1>1, <4>1, OutUnlike DEF o
      <4>3. x \in n0 .. n1 - 1
        BY <2>1, <4>1 DEF OutBetween, o, n0, n1
      <4>4. QED  BY <1>1, <1>4, <4>2, <4>3 DEF Line
    <3>3. QED  BY <2>6, <3>1, <3>2
  <2>7. \A k \in 1 .. Len(t.turn) : IsFirst(q, t.turn[k]) /\ t.turn[k] < n1
    BY <2>5, <2>6 DEF Among
  <2>8. QED  BY <1>1, <1>2, <2>5, <2>7 DEF TurnOk, n1
<1>9. QED  BY <1>7, <1>8

\* What was known stays known, and what was handed over stays so.
LEMMA KeptFacts ==
    ASSUME NEW s, NEW pend, NEW q, NEW sn, NEW res, NEW P, NEW N, NEW here, NEW r, NEW t,
           StreamCall(s, pend, q, sn, res, P, N, here, r, t)
    PROVE  /\ \A n : Known(s, pend, q, n) => Known(t, Settled(pend, P), q, n)
           /\ \A x : Among(s.app, x) => Among(t.app, x)
           /\ \A p \in Pkts : RBP!Has(res.out, p) => Among(t.app, p.first)
           /\ \A x \in s.lost : x \in t.lost
<1>1. /\ t.filter = s.filter /\ t.border = s.border
      /\ t.lost = s.lost \cup GivenUp(r, res.rb, Given(res.out) \cup here)
      /\ HandOk(s.app, res.out, Len(res.out), t.app)
  BY DEF StreamCall, Applied
<1>2. \A x : Among(t.app, x) <=> Among(s.app, x) \/ Gives(res.out, Len(res.out), x)
  BY <1>1 DEF HandOk
<1>3. \A p \in Pkts : RBP!Has(res.out, p) => Gives(res.out, Len(res.out), p.first)
  <2>1. None \notin Pkts
    BY RingAssumption DEF Pkts
  <2>2. QED  BY <2>1 DEF RBP!Has, Gives
<1>4. QED  BY <1>1, <1>2, <1>3 DEF Known, Settled

LEMMA AccountedKept ==
    ASSUME NEW s, NEW pend, NEW q, NEW sn, NEW res, NEW P, NEW N, NEW here, NEW r, NEW t,
           StreamCall(s, pend, q, sn, res, P, N, here, r, t)
    PROVE  Accounted(t, Settled(pend, P))
<1>1. /\ NotWrapped /\ SentOk(q) /\ Once(s, pend) /\ Line(s, pend, q)
      /\ RBP!NoneDropped(r, res, P) /\ Forward(q, r, res.rb)
  BY DEF StreamCall, OnStream, RBP!Moves
<1>2. /\ r.next = IF s.rb.inited THEN s.rb.next ELSE sn
      /\ r.slot = s.rb.slot /\ t.rb = res.rb /\ t.filter = s.filter
      /\ t.start = IF s.rb.inited THEN s.start ELSE sn
  BY DEF StreamCall, Applied
<1>3. /\ \A i \in Slots : Frame(s.rb, i) # None =>
            Frame(s.rb, i) \in Pkts /\ ~RBP!Replaced(P, Frame(s.rb, i))
      /\ \A f \in s.filter : f \in FirstSn .. End(q) - 1 /\ Own(q, f) = f
      /\ \A p \in P : p \in Pkts /\ p # None /\ RBP!SortKey(p) = p.first
  BY DEF StreamCall
<1>4. /\ \A x : Among(s.app, x) => Among(t.app, x)
      /\ \A p \in Pkts : RBP!Has(res.out, p) => Among(t.app, p.first)
      /\ \A x \in s.lost : x \in t.lost
  BY KeptFacts
<1>5. End(q) \in Nat /\ FirstSn \in Nat /\ FirstSn <= End(q)
  BY <1>1, EndFacts
<1>6. r.next \in FirstSn .. End(q) /\ r.next \in Nat
  BY <1>1, <1>5 DEF Forward
<1>7. SUFFICES ASSUME NEW f \in s.filter \ Settled(pend, P)
               PROVE  Among(t.app, f) \/ InRing(t.rb, f) \/ f \in t.lost \/ f < t.start
  BY <1>2 DEF Accounted
<1>8. CASE f \in pend
  <2>1. PICK p \in P : p.first = f
    BY <1>7, <1>8 DEF Settled
  <2>2. CASE RBP!Passed(f, r.next)
    <3>1. f \in FirstSn .. End(q) /\ f \in Nat
      BY <1>3, <1>5, <1>7
    <3>2. f < r.next
      BY <1>1, <1>6, <2>2, <3>1, OnLine
    <3>3. CASE ~s.rb.inited
      BY <1>2, <3>2, <3>3
    <3>4. CASE s.rb.inited /\ ~(f < s.start)
      <4>1. s.start \in FirstSn .. s.rb.next /\ s.start \in Nat /\ r.next = s.rb.next
        BY <1>1, <1>2, <1>5, <3>4 DEF Line
      <4>2. f \in s.start .. s.rb.next - 1
        BY <1>6, <3>1, <3>2, <3>4, <4>1
      <4>3. Among(s.app, f) \/ f \in s.lost \/ Known(s, pend, q, f)
        BY <1>1, <3>4, <4>2 DEF Line, Walked
      <4>4. ~Among(s.app, f)
        BY <1>1, <1>8 DEF Once
      <4>5. ~Known(s, pend, q, f)
        BY <1>1, <1>3, <1>7, <1>8 DEF Known, Line
      <4>6. QED  BY <1>4, <4>3, <4>4, <4>5
    <3>5. QED  BY <1>2, <3>3, <3>4
  <2>3. CASE ~RBP!Passed(f, r.next)
    <3>1. RBP!Has(res.out, p) \/ \E i \in Slots : Frame(res.rb, i) = p
      BY <1>1, <1>3, <2>1, <2>3 DEF RBP!NoneDropped, Slots, Frame
    <3>2. QED  BY <1>2, <1>3, <1>4, <2>1, <3>1 DEF InRing
  <2>4. QED  BY <2>2, <2>3
<1>9. CASE f \notin pend
  <2>1. s.rb.inited /\ t.start = s.start
    BY <1>1, <1>2, <1>7, <1>9 DEF Line
  <2>2. Among(s.app, f) \/ InRing(s.rb, f) \/ f \in s.lost \/ f < s.start
    BY <1>1, <1>7, <1>9 DEF Line, Accounted
  <2>3. ASSUME InRing(s.rb, f) PROVE Among(t.app, f) \/ InRing(t.rb, f)
    <3>1. PICK i \in Slots : Frame(s.rb, i) # None /\ Frame(s.rb, i).first = f
      BY <2>3 DEF InRing
    <3>2. \/ Frame(res.rb, i) = Frame(s.rb, i)
          \/ RBP!Has(res.out, Frame(s.rb, i))
      BY <1>1, <1>2, <1>3, <3>1 DEF RBP!NoneDropped, Slots, Frame
    <3>3. QED  BY <1>2, <1>3, <1>4, <3>1, <3>2 DEF InRing
  <2>4. QED  BY <1>4, <2>1, <2>2, <2>3
<1>10. QED  BY <1>8, <1>9

LEMMA WalkedKept ==
    ASSUME NEW s, NEW pend, NEW q, NEW sn, NEW res, NEW P, NEW N, NEW here, NEW r, NEW t,
           StreamCall(s, pend, q, sn, res, P, N, here, r, t)
    PROVE  Walked(t, Settled(pend, P), q)
<1> DEFINE n0 == r.next
           n1 == res.rb.next
           gone == GivenUp(r, res.rb, Given(res.out) \cup here)
<1>1. /\ NotWrapped /\ SentOk(q) /\ Once(s, pend) /\ Line(s, pend, q)
      /\ Numbered(s, pend, q, sn, P, N, here)
      /\ RBP!NoneDropped(r, res, P) /\ Forward(q, r, res.rb) /\ RBP!Good(r)
      /\ RBP!CallOk(r, res)
  BY DEF StreamCall, OnStream, RBP!Moves
<1>2. /\ n0 = IF s.rb.inited THEN s.rb.next ELSE sn
      /\ r.slot = s.rb.slot /\ t.rb = res.rb /\ t.filter = s.filter
      /\ t.start = IF s.rb.inited THEN s.start ELSE sn
      /\ t.lost = s.lost \cup gone
      /\ HandOk(s.app, res.out, Len(res.out), t.app)
  BY DEF StreamCall, Applied
<1>3. \A i \in Slots : Frame(s.rb, i) # None =>
         /\ Frame(s.rb, i) \in Pkts /\ ~RBP!Replaced(P, Frame(s.rb, i))
         /\ RBP!SortKey(Frame(s.rb, i)) = Frame(s.rb, i).first
  BY DEF StreamCall
<1>4. /\ \A n : Known(s, pend, q, n) => Known(t, Settled(pend, P), q, n)
      /\ \A x : Among(s.app, x) => Among(t.app, x)
      /\ \A p \in Pkts : RBP!Has(res.out, p) => Among(t.app, p.first)
      /\ \A x \in s.lost : x \in t.lost
  BY KeptFacts
<1>5. End(q) \in Nat /\ FirstSn \in Nat /\ FirstSn <= End(q) /\ End(q) < SnMod
  BY <1>1, EndFacts
<1>6. n0 \in FirstSn .. End(q) /\ n1 \in n0 .. End(q) /\ n0 \in Nat /\ n1 \in Nat
      /\ n1 \in FirstSn .. End(q)
  BY <1>1, <1>5 DEF Forward
<1>7. SUFFICES ASSUME NEW n \in t.start .. n1 - 1
               PROVE  Among(t.app, n) \/ n \in t.lost \/ Known(t, Settled(pend, P), q, n)
  BY <1>2 DEF Walked
<1> HIDE DEF n0, n1, gone
<1>8. CASE n < n0
  <2>1. s.rb.inited /\ n0 = s.rb.next /\ t.start = s.start
    BY <1>2, <1>6, <1>7, <1>8
  <2>2. n \in s.start .. s.rb.next - 1
    BY <1>6, <1>7, <1>8, <2>1
  <2>3. Among(s.app, n) \/ n \in s.lost \/ Known(s, pend, q, n)
    BY <1>1, <2>1, <2>2 DEF Line, Walked
  <2>4. QED  BY <1>4, <2>3
<1>9. CASE ~(n < n0)
  <2> DEFINE d == n - n0
             i == RBP!SlotOf(n)
  <2>1. n \in Nat /\ d \in Nat /\ n0 + d = n /\ n <= n1 - 1 /\ n0 <= n /\ d <= n1 - n0 - 1
        /\ n0 + d <= End(q) /\ n \in FirstSn .. End(q) /\ n \in n0 .. End(q)
    <3>1. n \in Int /\ n <= n1 - 1
      BY <1>7
    <3>2. QED  BY <1>5, <1>6, <1>9, <3>1
  <2>2. RBP!Dist(n1, n0) = n1 - n0 /\ RBP!Dist(n, n0) = d /\ n \in SN
    <3>1. RBP!Dist(n1, n0) = n1 - n0
      BY <1>1, <1>6, OnLine
    <3>2. RBP!Dist(n, n0) = n - n0 /\ n \in SN
      BY <1>1, <1>6, <2>1, OnLine
    <3>3. QED  BY <3>1, <3>2
  <2>3. RBP!Plus(n0, d) = n
    <3>1. RBP!Plus(n0, d) = n0 + d
      BY <1>1, <1>6, <2>1, PlusIsSum
    <3>2. QED  BY <2>1, <3>1
  <2> HIDE DEF d
  <2>4. n \in gone \/ n \in Given(res.out) \/ n \in here
        \/ (d < BufSize /\ RBP!Occupied(r.slot[i]))
    <3>1. d \in 0 .. RBP!Dist(n1, n0) - 1
      BY <2>1, <2>2, <1>6
    <3>2. RB!Plus(r.next, d) = n /\ d \in 0 .. RB!Dist(res.rb.next, r.next) - 1
          /\ RB!Dist(n, r.next) = d /\ RB!SlotOf(n) = i
          /\ (RB!Occupied(r.slot[i]) <=> RBP!Occupied(r.slot[i]))
      BY <2>2, <2>3, <3>1, SameNumbers DEF n0, n1
    <3>3. n \in {RB!Plus(r.next, e) : e \in 0 .. RB!Dist(res.rb.next, r.next) - 1}
      BY <3>2
    <3>4. QED  BY <3>2, <3>3 DEF GivenUp, gone
  <2>5. CASE n \in Given(res.out)
    <3>1. PICK j \in DOMAIN res.out : res.out[j] # None /\ res.out[j].first = n
      BY <2>5 DEF Given
    <3>2. DOMAIN res.out = 1 .. Len(res.out)
          /\ \A k \in 1 .. Len(res.out) : res.out[k] \in Pkts \cup {None}
      BY <1>1, CallTypes
    <3>3. QED  BY <1>4, <3>1, <3>2 DEF RBP!Has
  <2>6. CASE n \in here
    BY <1>1, <1>4, <2>6 DEF Numbered
  <2>7. CASE d < BufSize /\ RBP!Occupied(r.slot[i])
    <3>1. d # 0
      <4>1. ~RBP!Occupied(r.slot[RBP!SlotOf(n0)])
        BY <1>1 DEF RBP!Good, RBP!HeadEmptyIn, n0
      <4>2. d = 0 => n = n0
        BY <1>6, <2>1
      <4>3. QED  BY <2>7, <4>1, <4>2
    <3>2. i \in Slots
      BY <2>2, SizeFacts DEF RBP!SlotOf, RBP!Slots, Slots, SN
    <3>3. s.rb.inited
      <4>1. ~s.rb.inited => s.rb.slot[i] = RBP!EmptySlot
        BY <1>1, <3>2 DEF Once, RBP!Good, RBP!FreshEmptyIn, Slots
      <4>2. ~RBP!Occupied(RBP!EmptySlot)
        BY DEF RBP!Occupied, RBP!EmptySlot
      <4>3. QED  BY <1>2, <2>7, <4>1, <4>2
    <3>4. CASE s.rb.slot[i].ph
      <4>1. PICK m \in n0 + 1 .. End(q) - 1 :
                m < n0 + BufSize /\ i = RBP!SlotOf(m) /\ Known(s, pend, q, m)
        BY <1>1, <1>2, <2>7, <3>2, <3>3, <3>4 DEF Line, Standing
      <4>2. m \in n0 .. End(q) /\ n < n0 + BufSize
        BY <1>5, <1>6, <2>1, <2>7, <4>1, SizeFacts DEF d
      <4>3. m = n
        BY <1>1, <1>6, <2>1, <4>1, <4>2, SameSlot
      <4>4. QED  BY <1>4, <4>1, <4>3
    <3>5. CASE ~s.rb.slot[i].ph
      <4>1. Frame(s.rb, i) # None
        BY <1>2, <2>7, <3>5 DEF RBP!Occupied, Frame
      <4>2. RBP!Dist(n, r.next) \in 1 .. BufSize - 1
        BY <2>1, <2>2, <2>7, <3>1, SizeFacts DEF n0
      <4>3. RBP!SlotOf(n) \in RBP!Slots /\ r.slot[RBP!SlotOf(n)].frame # None
        BY <1>2, <3>2, <4>1 DEF Slots, Frame
      <4>4. RBP!SortKey(Frame(s.rb, i)) = n
        BY <1>1, <1>2, <2>2, <4>2, <4>3, RingFacts, SameNumbers, RBP!OneKeyPerSlot DEF Frame
      <4>5. Frame(s.rb, i).first = n
        BY <1>3, <3>2, <4>1, <4>4
      <4>6. Frame(res.rb, i) # Frame(s.rb, i)
        <5>1. n \in n0 .. n1 - 1 /\ n < n0 + BufSize
          BY <1>6, <2>1, <2>7, SizeFacts DEF d
        <5>2. ~RBP!Occupied(res.rb.slot[i])
          BY <1>1, <5>1 DEF Forward, n0, n1
        <5>3. QED  BY <4>1, <5>2 DEF RBP!Occupied, Frame
      <4>7. RBP!Has(res.out, Frame(s.rb, i))
        BY <1>1, <1>2, <1>3, <3>2, <4>1, <4>6 DEF RBP!NoneDropped, Slots, Frame
      <4>8. QED  BY <1>3, <1>4, <3>2, <4>1, <4>5, <4>7
    <3>6. QED  BY <3>4, <3>5
  <2>8. QED  BY <1>2, <2>4, <2>5, <2>6, <2>7
<1>10. QED  BY <1>8, <1>9

-----------------------------------------------------------------------------
(* The calls of the receiver's handlers. *)

All(s, pend, q) == /\ s \in RcvType /\ Once(s, pend)
                   /\ NotWrapped => Line(s, pend, q)

\* A handler that does not reset the session keeps what has been delivered.
Runs(s, t) == /\ t.resets = s.resets /\ t.border = s.border
              /\ s.filter \subseteq t.filter
              /\ NotWrapped => Extends(t.turn, s.turn)

OnTime(s, pend, q, sn, P, N, here) ==
    /\ Numbered(s, pend, q, sn, P, N, here)
    /\ P = {} /\ ~s.rb.inited => \A n \in N : Known(s, pend, q, n)

LEMMA ApplyAll ==
    ASSUME NEW q, SentOk(q), NEW s, NEW pend, All(s, pend, q), NEW sn \in SN, NEW res,
           NEW P, NEW N, NEW here, Call(s, sn, res, P, N), Offered(s, pend, P),
           NotWrapped => OnTime(s, pend, q, sn, P, N, here)
    PROVE  /\ All(Apply(s, sn, res, here), Settled(pend, P), q)
           /\ Runs(s, Apply(s, sn, res, here))
<1> DEFINE t == Apply(s, sn, res, here)
           r == RBP!Inited(s.rb, sn)
           left == Settled(pend, P)
<1>1. s \in RcvType /\ Once(s, pend) /\ RBP!Good(s.rb)
  BY DEF All, Once
<1>2. Once(t, left)
  BY <1>1, ApplyOnce
<1>3. Applied(t, s, sn, res, here)
  BY <1>1, ApplyFields DEF Call
<1> HIDE DEF t, left
<1>4. t \in RcvType /\ t.resets = s.resets /\ t.border = s.border /\ t.filter = s.filter
  BY <1>3 DEF Applied
<1>5. ASSUME NotWrapped PROVE Line(t, left, q) /\ Extends(t.turn, s.turn)
  <2>1. OnStream(s, pend, q, sn, res, P, N, here)
    BY <1>1, <1>5 DEF All, OnStream, OnTime
  <2>2. StreamCall(s, pend, q, sn, res, P, N, here, r, t)
    BY <2>1, StreamFacts DEF t
  <2> HIDE DEF r
  <2>3. /\ Standing(t, left, q)
        /\ t.rb.gap => \E i \in Slots : RBP!Occupied(t.rb.slot[i])
    BY <2>2, StandingKept DEF left
  <2>4. TurnOk(t, q) /\ Extends(t.turn, s.turn)
    BY <2>2, TurnKept
  <2>5. Accounted(t, left)
    BY <2>2, AccountedKept DEF left
  <2>6. Walked(t, left, q)
    BY <2>2, WalkedKept DEF left
  <2>7. \A f \in t.filter : IsFirst(q, f) /\ ~RBP!Passed(f, t.border)
    BY <1>4, <1>5 DEF All, Line
  <2>8. /\ t.rb.inited /\ t.rb.next = res.rb.next /\ Forward(q, r, res.rb)
        /\ r.next = IF s.rb.inited THEN s.rb.next ELSE sn
        /\ t.start = IF s.rb.inited THEN s.start ELSE sn
    BY <2>2 DEF StreamCall, Applied
  <2>9. End(q) \in Nat /\ FirstSn \in Nat
    BY <1>5, EndFacts
  <2>10. s.rb.inited => s.start \in FirstSn .. s.rb.next
    BY <1>5 DEF All, Line
  <2>11. t.start \in FirstSn .. t.rb.next /\ t.rb.next <= End(q)
    <3>1. r.next \in FirstSn .. End(q) /\ t.rb.next \in r.next .. End(q)
      BY <2>8 DEF Forward
    <3>2. t.start \in FirstSn .. r.next
      BY <2>8, <2>9, <2>10, <3>1
    <3>3. QED  BY <2>9, <3>1, <3>2
  <2>12. QED  BY <2>3, <2>4, <2>5, <2>6, <2>7, <2>8, <2>11 DEF Line
<1>6. All(t, left, q) /\ Runs(s, t)
  BY <1>2, <1>4, <1>5 DEF All, Runs
<1>7. QED  BY <1>6 DEF t, left

On(q, p) == \E k \in 1 .. Len(q) : p = q[k]

LEMMA OnFacts ==
    ASSUME NEW q, SentOk(q), NEW p, On(q, p)
    PROVE  /\ p \in Pkts /\ p.sn \in SN /\ p.first \in SN
           /\ NotWrapped => /\ p.sn \in FirstSn .. End(q) - 1
                            /\ p.sn \in FirstSn .. End(q)
                            /\ IsFirst(q, p.first) /\ Own(q, p.sn) = p.first
<1>1. PICK k \in 1 .. Len(q) : p = q[k]
  BY DEF On
<1>2. q \in Seq(Pkts) /\ Len(q) \in Nat /\ p \in Pkts
  BY <1>1 DEF SentOk
<1>3. p.sn \in SN /\ p.first \in SN
  BY <1>2 DEF Pkts
<1>4. ASSUME NotWrapped
      PROVE  /\ p.sn \in FirstSn .. End(q) - 1 /\ p.sn \in FirstSn .. End(q)
             /\ IsFirst(q, p.first) /\ Own(q, p.sn) = p.first
  <2>1. End(q) \in Nat /\ FirstSn \in Nat
    BY <1>4, EndFacts
  <2>2. p.sn = FirstSn + k - 1
    BY <1>1, <1>4 DEF SentOk
  <2>3. p.sn - FirstSn + 1 = k
    BY <2>1, <2>2
  <2>4. Own(q, p.sn) = p.first
    BY <1>1, <2>3 DEF Own
  <2>5. p.sn \in FirstSn .. End(q) - 1 /\ p.sn \in FirstSn .. End(q)
    BY <1>2, <2>1, <2>2 DEF End
  <2>6. QED  BY <1>1, <2>4, <2>5 DEF IsFirst
<1>5. QED  BY <1>2, <1>3, <1>4

\* ReorderEnqueue of a packet the filter has just registered.
LEMMA EnqueueAll ==
    ASSUME NEW q, SentOk(q), NEW s, NEW pend, All(s, pend, q), NEW p, On(q, p),
           p.first \in pend, NEW oom
    PROVE  LET t == Apply(s, p.sn, RB!Enqueue(s.rb, p, oom), {})
           IN  All(t, pend \ {p.first}, q) /\ Runs(s, t)
<1> DEFINE res == RBP!Enqueue(s.rb, p, oom)
           P == {p}
           N == {RBP!SortKey(p)}
<1>1. RB!Enqueue(s.rb, p, oom) = res
  BY SameCalls
<1>2. p \in Pkts /\ p.sn \in SN
  BY OnFacts
<1>3. RBP!Good(s.rb)
  BY DEF All, Once
<1>4. Call(s, p.sn, res, P, N)
  <2>1. RBP!CallOk(RBP!Inited(s.rb, p.sn), res)
    BY <1>2, <1>3, RingFacts, SameNumbers, RBP!EnqueueOk DEF Pkts
  <2>2. RBP!Moves(RBP!Inited(s.rb, p.sn), res, {p}, {RBP!SortKey(p)})
    BY <1>2, <1>3, RingFacts, SameNumbers, RBP!EnqueueMoves DEF Pkts
  <2>3. QED  BY <2>1, <2>2 DEF Call
<1>5. Offered(s, pend, P)
  BY <1>2 DEF Offered
<1>6. ASSUME NotWrapped PROVE OnTime(s, pend, q, p.sn, P, N, {})
  <2>1. p.sn \in FirstSn .. End(q) /\ IsFirst(q, p.first)
    BY <1>6, OnFacts
  <2>2. RBP!SortKey(p) = p.first /\ p.first \in FirstSn .. End(q) - 1
    BY <1>2, <1>6, <2>1, KeyIsFirst
  <2>3. QED  BY <2>1, <2>2 DEF OnTime, Numbered
<1>7. Settled(pend, P) = pend \ {p.first}
  BY DEF Settled
<1> HIDE DEF res, P, N
<1>8. /\ All(Apply(s, p.sn, res, {}), Settled(pend, P), q)
      /\ Runs(s, Apply(s, p.sn, res, {}))
  BY <1>2, <1>4, <1>5, <1>6, ApplyAll
<1>9. QED  BY <1>1, <1>7, <1>8

\* The placeholder for a duplicate.
LEMMA PlaceholderAll ==
    ASSUME NEW q, SentOk(q), NEW s, All(s, {}, q), NEW p, On(q, p), Repeated(s, p.first)
    PROVE  LET t == Apply(s, p.sn, RB!EnqueuePlaceholder(s.rb, p.sn), {p.sn})
           IN  All(t, {}, q) /\ Runs(s, t)
<1> DEFINE res == RBP!EnqueuePlaceholder(s.rb, p.sn)
<1>1. RB!EnqueuePlaceholder(s.rb, p.sn) = res
  BY SameCalls
<1>2. p \in Pkts /\ p.sn \in SN
  BY OnFacts
<1>3. RBP!Good(s.rb)
  BY DEF All, Once
<1>4. Call(s, p.sn, res, {}, {p.sn})
  <2>1. RBP!CallOk(RBP!Inited(s.rb, p.sn), res)
    BY <1>2, <1>3, RingFacts, SameNumbers, RBP!PlaceholderOk
  <2>2. RBP!Moves(RBP!Inited(s.rb, p.sn), res, {}, {p.sn})
    BY <1>2, <1>3, RingFacts, SameNumbers, RBP!PlaceholderMoves
  <2>3. QED  BY <2>1, <2>2 DEF Call
<1>5. Offered(s, {}, {})
  BY DEF Offered
<1>6. ASSUME NotWrapped PROVE OnTime(s, {}, q, p.sn, {}, {p.sn}, {p.sn})
  <2>1. p.sn \in FirstSn .. End(q) - 1 /\ p.sn \in FirstSn .. End(q)
        /\ Own(q, p.sn) = p.first
    BY <1>6, OnFacts
  <2>2. Known(s, {}, q, p.sn)
    BY <2>1, SameNumbers DEF Known, Repeated
  <2>3. QED  BY <2>1, <2>2 DEF OnTime, Numbered
<1>7. Settled({}, {}) = {}
  BY DEF Settled
<1> HIDE DEF res
<1>8. /\ All(Apply(s, p.sn, res, {p.sn}), Settled({}, {}), q)
      /\ Runs(s, Apply(s, p.sn, res, {p.sn}))
  BY <1>2, <1>4, <1>5, <1>6, ApplyAll
<1>9. QED  BY <1>1, <1>7, <1>8

\* The gap timer.
LEMMA SkipGapAll ==
    ASSUME NEW q, SentOk(q), NEW s, All(s, {}, q), s.rb.gap
    PROVE  LET t == Apply(s, s.rb.next, RB!SkipGap(s.rb), {})
           IN  All(t, {}, q) /\ Runs(s, t)
<1> DEFINE res == RBP!SkipGap(s.rb)
           n == s.rb.next
<1>1. RB!SkipGap(s.rb) = res
  BY SameCalls
<1>2. RBP!Good(s.rb) /\ s.rb.inited /\ s \in RcvType
  BY DEF All, Once
<1>3. n \in SN
  BY <1>2, SameNumbers DEF RBP!Good, RBP!RbType
<1>4. RBP!Inited(s.rb, n) = s.rb
  BY <1>2, <1>3, RingFacts, SameNumbers, RBP!InitedGood
<1>5. Call(s, n, res, {}, {n})
  <2>1. RBP!CallOk(s.rb, res)
    BY <1>2, RingFacts, SameNumbers, RBP!SkipGapOk
  <2>2. RBP!Moves(s.rb, res, {}, {n})
    BY <1>2, RingFacts, SameNumbers, RBP!SkipGapMoves
  <2>3. QED  BY <1>4, <2>1, <2>2 DEF Call
<1>6. Offered(s, {}, {})
  BY DEF Offered
<1>7. ASSUME NotWrapped PROVE OnTime(s, {}, q, n, {}, {n}, {})
  <2>1. End(q) \in Nat /\ FirstSn \in Nat
    BY <1>7, EndFacts
  <2>2. s.start \in FirstSn .. n /\ n \in Nat
    BY <1>2, <1>3, <1>7, SizeFacts DEF All, Line, SN
  <2>3. PICK i \in Slots : RBP!Occupied(s.rb.slot[i])
    BY <1>7 DEF All, Line
  <2>4. PICK m \in n + 1 .. End(q) - 1 : m < n + BufSize
    BY <1>7, <2>3 DEF All, Line, Standing
  <2>5. n \in FirstSn .. End(q) - 1 /\ n \in FirstSn .. End(q)
    BY <2>1, <2>2, <2>4
  <2>6. QED  BY <1>2, <2>5 DEF OnTime, Numbered
<1>8. Settled({}, {}) = {}
  BY DEF Settled
<1> HIDE DEF res
<1>9. All(Apply(s, n, res, {}), Settled({}, {}), q) /\ Runs(s, Apply(s, n, res, {}))
  BY <1>3, <1>5, <1>6, <1>7, ApplyAll
<1>10. QED  BY <1>1, <1>8, <1>9

\* The filter registers F; the buffer has not been called yet.
Noted(s, t, F) ==
    /\ t \in RcvType /\ t.filter = s.filter \cup F /\ t.border = s.border
    /\ t.rb = s.rb /\ t.app = s.app /\ t.turn = s.turn /\ t.lost = s.lost
    /\ t.start = s.start /\ t.resets = s.resets

LEMMA NotedAll ==
    ASSUME NEW q, NEW s, NEW pend, All(s, pend, q), NEW t, NEW F, Noted(s, t, F),
           \A f \in F : ~Repeated(s, f) /\ (NotWrapped => IsFirst(q, f))
    PROVE  All(t, pend \cup F, q) /\ Runs(s, t)
<1>1. /\ t \in RcvType /\ t.filter = s.filter \cup F /\ t.border = s.border
      /\ t.rb = s.rb /\ t.app = s.app /\ t.turn = s.turn /\ t.lost = s.lost
      /\ t.start = s.start /\ t.resets = s.resets
  BY DEF Noted
<1>2. s \in RcvType /\ Once(s, pend)
  BY DEF All
<1>3. /\ \A f \in F : f \notin s.filter /\ ~RBP!Passed(f, s.border)
      /\ pend \subseteq s.filter
      /\ t.filter \ (pend \cup F) = s.filter \ pend
  BY <1>1, <1>2, SameNumbers DEF Repeated, Once
<1>4. Once(t, pend \cup F)
  BY <1>1, <1>2, <1>3 DEF Once
<1>5. ASSUME NotWrapped PROVE Line(t, pend \cup F, q)
  <2>1. Line(s, pend, q)
    BY <1>5 DEF All
  <2>2. \A n : Known(t, pend \cup F, q, n) <=> Known(s, pend, q, n)
    BY <1>1, <1>3 DEF Known
  <2>3. Standing(t, pend \cup F, q)
    BY <1>1, <2>1, <2>2 DEF Standing, Line
  <2>4. TurnOk(t, q)
    BY <1>1, <2>1 DEF TurnOk, Line
  <2>5. Accounted(t, pend \cup F)
    BY <1>1, <1>3, <2>1 DEF Accounted, Line
  <2>6. Walked(t, pend \cup F, q)
    BY <1>1, <2>1, <2>2 DEF Walked, Line
  <2>7. \A f \in t.filter : IsFirst(q, f) /\ ~RBP!Passed(f, t.border)
    BY <1>1, <1>3, <1>5, <2>1 DEF Line
  <2>8. ~t.rb.inited => t.filter \subseteq pend \cup F
    BY <1>1, <2>1 DEF Line
  <2>9. /\ t.rb.inited => t.start \in FirstSn .. t.rb.next /\ t.rb.next <= End(q)
        /\ t.rb.gap => \E i \in Slots : RBP!Occupied(t.rb.slot[i])
    BY <1>1, <2>1 DEF Line
  <2>10. QED  BY <2>3, <2>4, <2>5, <2>6, <2>7, <2>8, <2>9 DEF Line
<1>6. Runs(s, t)
  <2>1. Len(s.turn) \in Nat
    BY <1>2 DEF RcvType
  <2>2. QED  BY <1>1, <2>1 DEF Runs, Extends
<1>7. QED  BY <1>1, <1>4, <1>5, <1>6 DEF All

LEMMA RunsOn ==
    ASSUME NEW s \in RcvType, NEW t \in RcvType, NEW u \in RcvType, Runs(s, t), Runs(t, u)
    PROVE  Runs(s, u)
<1>1. Len(s.turn) \in Nat /\ Len(t.turn) \in Nat /\ Len(u.turn) \in Nat
  BY DEF RcvType
<1>2. ASSUME Extends(t.turn, s.turn), Extends(u.turn, t.turn) PROVE Extends(u.turn, s.turn)
  <2>1. Len(s.turn) <= Len(t.turn) /\ Len(t.turn) <= Len(u.turn)
    BY <1>2 DEF Extends
  <2>2. \A k \in 1 .. Len(s.turn) : k \in 1 .. Len(t.turn)
    BY <1>1, <2>1
  <2>3. QED  BY <1>1, <1>2, <2>1, <2>2 DEF Extends
<1>3. QED  BY <1>2 DEF Runs

\* Fec2RestoreFrameReceive for one packet.
LEMMA RestoredAll ==
    ASSUME NEW q, SentOk(q), NEW s, NEW pend, All(s, pend, q), NEW r, On(q, r), NEW oom
    PROVE  All(Restored(s, r, oom), pend, q) /\ Runs(s, Restored(s, r, oom))
<1> DEFINE c == [s EXCEPT !.cached = @ \cup {r.sn}]
           d == [c EXCEPT !.filter = @ \cup {r.first}]
<1>1. s \in RcvType /\ Once(s, pend)
  BY DEF All
<1>2. r.sn \in SN /\ r.first \in SN /\ (NotWrapped => IsFirst(q, r.first))
  BY OnFacts
<1>3. CASE Repeated(s, r.first)
  <2>1. Noted(s, c, {})
    BY <1>1, <1>2 DEF Noted, RcvType
  <2>2. All(c, pend \cup {}, q) /\ Runs(s, c)
    BY <2>1, NotedAll
  <2>3. Restored(s, r, oom) = c /\ pend \cup {} = pend
    BY <1>3 DEF Restored
  <2>4. QED  BY <2>2, <2>3
<1>4. CASE ~Repeated(s, r.first)
  <2>1. c \in RcvType /\ c.filter = s.filter /\ c.rb = s.rb
    BY <1>1, <1>2 DEF RcvType
  <2>2. Noted(s, d, {r.first})
    BY <1>1, <1>2 DEF Noted, RcvType
  <2> DEFINE more == pend \cup {r.first}
  <2>3. Restored(s, r, oom) = Apply(d, r.sn, RB!Enqueue(s.rb, r, oom), {})
    BY <1>4 DEF Restored
  <2> HIDE DEF d
  <2>4. All(d, more, q) /\ Runs(s, d) /\ d.rb = s.rb
    <3>1. \A f \in {r.first} : ~Repeated(s, f) /\ (NotWrapped => IsFirst(q, f))
      BY <1>2, <1>4
    <3>2. All(d, pend \cup {r.first}, q) /\ Runs(s, d)
      BY <2>2, <3>1, NotedAll
    <3>3. QED  BY <2>2, <3>2 DEF Noted
  <2>5. r.first \in more /\ more \ {r.first} = pend
    BY <1>1, <1>4 DEF Once, Repeated
  <2> DEFINE t == Apply(d, r.sn, RB!Enqueue(d.rb, r, oom), {})
  <2>6. All(t, more \ {r.first}, q) /\ Runs(d, t)
    BY <2>4, <2>5, EnqueueAll
  <2>7. t = Restored(s, r, oom)
    BY <2>3, <2>4
  <2> HIDE DEF t, more
  <2>8. Runs(s, t)
    BY <1>1, <2>4, <2>6, RunsOn DEF All
  <2>9. QED  BY <2>5, <2>6, <2>7, <2>8
<1>5. QED  BY <1>3, <1>4

RestoreBody(s, rs, oom, g, n) == IF n = 0 THEN s ELSE Restored(g[n - 1], rs[n], oom)

\* The recursion over the restored packets is well founded.
LEMMA RestoringExists ==
    ASSUME NEW s, NEW rs, NEW oom, NEW N \in Nat
    PROVE  \E g : g = [n \in 0 .. N |-> RestoreBody(s, rs, oom, g, n)]
<1> DEFINE Body(g, n) == RestoreBody(s, rs, oom, g, n)
           Fun(m, g) == g = [n \in 0 .. m |-> Body(g, n)]
           T == {m \in Nat : ~\E g : Fun(m, g)}
<1>1. SUFFICES ASSUME T # {} PROVE FALSE
  OBVIOUS
<1>2. PICK m \in T : \A y \in T : m <= y
  BY <1>1, RingFacts, RBP!LeastNatural
<1>3. CASE m = 0
  <2> DEFINE h == [n \in 0 .. 0 |-> s]
  <2>1. h = [n \in 0 .. 0 |-> Body(h, n)]
    BY DEF RestoreBody
  <2>2. QED  BY <1>3, <2>1
<1>4. CASE m # 0
  <2>1. m - 1 \in Nat /\ m - 1 \notin T
    BY <1>2, <1>4
  <2>2. PICK g : Fun(m - 1, g)
    BY <2>1
  <2> DEFINE h == [n \in 0 .. m |-> IF n = m THEN Body(g, m) ELSE g[n]]
  <2>3. ASSUME NEW n \in 0 .. m  PROVE h[n] = Body(h, n)
    <3>1. CASE n = m
      <4>1. h[m - 1] = g[m - 1] /\ h[m] = Body(g, m)
        BY <2>1
      <4> HIDE DEF h
      <4>2. QED  BY <3>1, <4>1, <2>1 DEF RestoreBody
    <3>2. CASE n # m
      <4>1. n \in 0 .. m - 1 /\ h[n] = g[n]
        BY <3>2, <2>1
      <4>2. g[n] = Body(g, n)
        BY <2>2, <4>1
      <4>3. n # 0 => h[n - 1] = g[n - 1]
        BY <4>1, <2>1
      <4> HIDE DEF h
      <4>4. QED  BY <4>1, <4>2, <4>3 DEF RestoreBody
    <3>3. QED  BY <3>1, <3>2
  <2>4. h = [n \in 0 .. m |-> Body(h, n)]
    <3>1. h = [n \in 0 .. m |-> h[n]]
      OBVIOUS
    <3> HIDE DEF h, Body
    <3>2. QED  BY <3>1, <2>3
  <2> HIDE DEF h
  <2>5. QED  BY <1>2, <2>4
<1>5. QED  BY <1>3, <1>4

LEMMA RestoringDef ==
    ASSUME NEW s, NEW rs, NEW oom, Len(rs) \in Nat
    PROVE  \A n \in 0 .. Len(rs) : Restoring(s, rs, oom)[n] =
              RestoreBody(s, rs, oom, Restoring(s, rs, oom), n)
<1>1. \E g : g = [n \in 0 .. Len(rs) |-> RestoreBody(s, rs, oom, g, n)]
  BY RestoringExists
<1>2. Restoring(s, rs, oom) =
        [n \in 0 .. Len(rs) |-> RestoreBody(s, rs, oom, Restoring(s, rs, oom), n)]
  BY <1>1 DEF Restoring, RestoreBody
<1>3. QED  BY <1>2

LEMMA RestoreAllAll ==
    ASSUME NEW q, SentOk(q), NEW s, NEW pend, All(s, pend, q), NEW rs, Len(rs) \in Nat,
           \A k \in 1 .. Len(rs) : On(q, rs[k]), NEW oom
    PROVE  All(RestoreAll(s, rs, oom), pend, q) /\ Runs(s, RestoreAll(s, rs, oom))
<1> DEFINE G(n) == Restoring(s, rs, oom)[n]
           Ok(n) == All(G(n), pend, q) /\ Runs(s, G(n))
           T == {n \in 0 .. Len(rs) : ~Ok(n)}
<1>1. \A n \in 0 .. Len(rs) : G(n) = IF n = 0 THEN s ELSE Restored(G(n - 1), rs[n], oom)
  BY RestoringDef DEF RestoreBody
<1> HIDE DEF G
<1>2. SUFFICES ASSUME T # {} PROVE FALSE
  BY DEF RestoreAll, G
<1>3. PICK n \in T : \A y \in T : n <= y
  <2>1. T \subseteq Nat
    OBVIOUS
  <2>2. QED  BY <1>2, <2>1, RingFacts, RBP!LeastNatural
<1>4. s \in RcvType
  BY DEF All
<1>5. CASE n = 0
  <2>1. G(0) = s
    BY <1>1
  <2>2. Runs(s, s)
    <3>1. Len(s.turn) \in Nat
      BY <1>4 DEF RcvType
    <3>2. QED  BY <3>1 DEF Runs, Extends
  <2>3. QED  BY <1>3, <1>5, <2>1, <2>2
<1>6. CASE n # 0
  <2>1. n - 1 \in 0 .. Len(rs) /\ n \in 1 .. Len(rs) /\ n - 1 < n
    BY <1>3, <1>6
  <2>2. Ok(n - 1)
    BY <1>3, <2>1
  <2>3. G(n) = Restored(G(n - 1), rs[n], oom)
    BY <1>1, <1>3, <1>6
  <2>4. All(G(n), pend, q) /\ Runs(G(n - 1), G(n))
    BY <2>1, <2>2, <2>3, RestoredAll
  <2>5. Runs(s, G(n))
    BY <1>4, <2>2, <2>4, RunsOn DEF All
  <2>6. QED  BY <1>3, <2>4, <2>5
<1>7. QED  BY <1>5, <1>6

\* PackPrepHandler, PackPostHandler and ReorderEnqueue for one DATA packet.
LEMMA HandleDataAll ==
    ASSUME NEW q, SentOk(q), NEW s, All(s, {}, q), NEW p, On(q, p), NEW rs,
           Len(rs) \in Nat, \A k \in 1 .. Len(rs) : On(q, rs[k]), NEW oom
    PROVE  All(HandleData(s, p, rs, oom), {}, q) /\ Runs(s, HandleData(s, p, rs, oom))
<1> DEFINE dup == Repeated(s, p.first)
           pre == [s EXCEPT !.filter = IF dup THEN @ ELSE @ \cup {p.first},
                            !.cached = @ \cup {p.sn}]
           post == RestoreAll(pre, rs, oom)
           F == IF dup THEN {} ELSE {p.first}
           t == HandleData(s, p, rs, oom)
<1>1. s \in RcvType /\ Once(s, {})
  BY DEF All
<1>2. p.sn \in SN /\ p.first \in SN /\ (NotWrapped => IsFirst(q, p.first))
  BY OnFacts
<1>3. Noted(s, pre, F)
  BY <1>1, <1>2 DEF Noted, RcvType
<1>4. t = IF dup THEN Apply(post, p.sn, RB!EnqueuePlaceholder(post.rb, p.sn), {p.sn})
          ELSE Apply(post, p.sn, RB!Enqueue(post.rb, p, oom), {})
  BY DEF HandleData
<1>5. dup <=> Repeated(s, p.first)
  OBVIOUS
<1> HIDE DEF pre, t, dup
<1>6. All(pre, {} \cup F, q) /\ Runs(s, pre)
  BY <1>2, <1>3, <1>5, NotedAll
<1>7. All(pre, F, q)
  BY <1>6
<1>8. All(post, F, q) /\ Runs(pre, post)
  BY <1>7, RestoreAllAll
<1> HIDE DEF post
<1>9. s \in RcvType /\ pre \in RcvType /\ post \in RcvType
  BY <1>1, <1>7, <1>8 DEF All
<1>10. Runs(s, post)
  BY <1>6, <1>8, <1>9, RunsOn
<1>11. All(t, {}, q) /\ Runs(post, t)
  <2>1. CASE dup
    <3>1. Repeated(post, p.first)
      BY <1>5, <1>10, <2>1 DEF Repeated, Runs
    <3>2. All(post, {}, q)
      BY <1>8, <2>1
    <3>3. QED  BY <1>4, <2>1, <3>1, <3>2, PlaceholderAll
  <2>2. CASE ~dup
    <3>1. All(post, {p.first}, q) /\ p.first \in {p.first}
      BY <1>8, <2>2
    <3>2. All(t, {p.first} \ {p.first}, q) /\ Runs(post, t)
      BY <1>4, <2>2, <3>1, EnqueueAll
    <3>3. QED  BY <3>2
  <2>3. QED  BY <2>1, <2>2
<1>12. Runs(s, t)
  BY <1>9, <1>10, <1>11, RunsOn DEF All
<1>13. QED  BY <1>11, <1>12 DEF t

-----------------------------------------------------------------------------
(* The stream gets longer. *)

LEMMA LongerAll ==
    ASSUME NEW q, SentOk(q), NEW w, SentOk(w), Extends(w, q), NEW s, All(s, {}, q)
    PROVE  All(s, {}, w)
<1>1. SUFFICES ASSUME NotWrapped PROVE Line(s, {}, w)
  BY DEF All
<1>2. s \in RcvType /\ Once(s, {}) /\ Line(s, {}, q)
  BY <1>1 DEF All
<1>3. /\ Len(q) \in Nat /\ Len(w) \in Nat /\ Len(q) <= Len(w)
      /\ \A k \in 1 .. Len(q) : k \in 1 .. Len(w) /\ w[k] = q[k]
  BY DEF SentOk, Extends
<1>4. /\ End(q) \in Nat /\ End(w) \in Nat /\ FirstSn \in Nat /\ End(q) <= End(w)
      /\ End(q) - FirstSn = Len(q)
  BY <1>1, <1>3, EndFacts DEF End
<1>5. \A f : IsFirst(q, f) => IsFirst(w, f)
  BY <1>3 DEF IsFirst
<1>6. ASSUME NEW n \in FirstSn .. End(q) - 1
      PROVE  Known(s, {}, q, n) => Known(s, {}, w, n)
  <2>1. n - FirstSn + 1 \in 1 .. Len(q)
    BY <1>3, <1>4
  <2>2. Own(w, n) = Own(q, n)
    BY <1>3, <2>1 DEF Own
  <2>3. QED  BY <2>2 DEF Known
<1>7. s.rb.next \in Nat
  BY <1>2, SameNumbers, SizeFacts DEF Once, RBP!Good, RBP!RbType, SN
<1>8. s.rb.inited => /\ s.start \in FirstSn .. s.rb.next /\ s.rb.next <= End(q)
                     /\ s.rb.next <= End(w) /\ FirstSn <= s.rb.next
  BY <1>2, <1>4, <1>7 DEF Line
<1>9. Standing(s, {}, w)
  <2> SUFFICES ASSUME NEW i \in Slots, RBP!Occupied(s.rb.slot[i])
               PROVE  \E n \in s.rb.next + 1 .. End(w) - 1 :
                         /\ n < s.rb.next + BufSize /\ i = RBP!SlotOf(n)
                         /\ s.rb.slot[i].ph => Known(s, {}, w, n)
    BY DEF Standing
  <2>1. s.rb.inited
    <3>1. ~s.rb.inited => s.rb.slot[i] = RBP!EmptySlot
      BY <1>2 DEF Once, RBP!Good, RBP!FreshEmptyIn, Slots
    <3>2. ~RBP!Occupied(RBP!EmptySlot)
      BY DEF RBP!Occupied, RBP!EmptySlot
    <3>3. QED  BY <3>1, <3>2
  <2>2. PICK n \in s.rb.next + 1 .. End(q) - 1 :
             /\ n < s.rb.next + BufSize /\ i = RBP!SlotOf(n)
             /\ s.rb.slot[i].ph => Known(s, {}, q, n)
    BY <1>2 DEF Line, Standing
  <2>3. n \in FirstSn .. End(q) - 1 /\ n \in s.rb.next + 1 .. End(w) - 1
    BY <1>4, <1>7, <1>8, <2>1, <2>2
  <2>4. QED  BY <1>6, <2>2, <2>3
<1>10. Walked(s, {}, w)
  <2> SUFFICES ASSUME s.rb.inited, NEW n \in s.start .. s.rb.next - 1
               PROVE  Among(s.app, n) \/ n \in s.lost \/ Known(s, {}, w, n)
    BY DEF Walked
  <2>1. n \in FirstSn .. End(q) - 1
    BY <1>4, <1>7, <1>8
  <2>2. QED  BY <1>2, <1>6, <2>1 DEF Line, Walked
<1>11. QED  BY <1>2, <1>5, <1>8, <1>9, <1>10 DEF Line, TurnOk

\* A packet with the next number: a new frame or an old one.
LEMMA AppendOk ==
    ASSUME NEW q, SentOk(q), Len(q) < MaxPackets, NEW f \in SN,
           f = RBP!Plus(FirstSn, Len(q)) \/ IsFirst(q, f)
    PROVE  LET w == Append(q, [sn |-> RBP!Plus(FirstSn, Len(q)), first |-> f])
           IN  SentOk(w) /\ Extends(w, q)
<1> DEFINE n == RBP!Plus(FirstSn, Len(q))
           p == [sn |-> n, first |-> f]
           w == Append(q, p)
<1>1. /\ FirstSn \in SN /\ MaxPackets \in Nat /\ SnMod \in Nat /\ 2 * MaxPackets < SnMod
      /\ FirstSn \in Nat /\ q \in Seq(Pkts) /\ Len(q) \in Nat
  BY StreamAssumption, SizeFacts DEF SN, SentOk
<1>2. n \in SN
  <2>1. Len(q) \in 0 .. SnMod
    BY <1>1
  <2>2. QED  BY <1>1, <2>1, RingFacts, SameNumbers, RBP!PlusLinear
<1>3. p \in Pkts /\ p.sn = n /\ p.first = f
  BY <1>2 DEF Pkts
<1> HIDE DEF p
<1>4. /\ w \in Seq(Pkts) /\ Len(w) = Len(q) + 1 /\ w[Len(q) + 1] = p
      /\ \A k \in 1 .. Len(q) : w[k] = q[k]
  BY <1>1, <1>3
<1> HIDE DEF w, n
<1>5. Extends(w, q) /\ Len(w) <= MaxPackets
  BY <1>1, <1>4 DEF Extends
<1>6. ASSUME NotWrapped, NEW k \in 1 .. Len(w)
      PROVE  /\ w[k].sn = FirstSn + k - 1
             /\ w[k].first \in FirstSn .. w[k].sn
             /\ Own(w, w[k].first) = w[k].first
  <2>1. n = FirstSn + Len(q)
    <3>1. FirstSn \in FirstSn .. End(q) /\ FirstSn + Len(q) <= End(q)
      BY <1>1 DEF End
    <3>2. QED  BY <1>1, <1>6, <3>1, PlusIsSum DEF n
  <2>2. \A g : g \in FirstSn .. End(q) - 1 => Own(w, g) = Own(q, g)
    <3>1. ASSUME NEW g \in FirstSn .. End(q) - 1 PROVE Own(w, g) = Own(q, g)
      <4>1. g - FirstSn + 1 \in 1 .. Len(q)
        BY <1>1 DEF End
      <4>2. QED  BY <1>4, <4>1 DEF Own
    <3>2. QED  BY <3>1
  <2>3. \A g : IsFirst(q, g) => g \in FirstSn .. End(q) - 1 /\ Own(q, g) = g
    BY <1>6, KeyIsFirst
  <2>4. CASE k \in 1 .. Len(q)
    <3>1. /\ w[k] = q[k] /\ q[k].sn = FirstSn + k - 1
          /\ q[k].first \in FirstSn .. q[k].sn /\ IsFirst(q, q[k].first)
      BY <1>4, <1>6, <2>4 DEF SentOk, IsFirst
    <3>2. Own(w, q[k].first) = q[k].first
      BY <2>2, <2>3, <3>1
    <3>3. QED  BY <3>1, <3>2
  <2>5. CASE k \notin 1 .. Len(q)
    <3>1. k = Len(q) + 1 /\ w[k] = p
      BY <1>1, <1>4, <1>6, <2>5
    <3>2. p.sn = FirstSn + k - 1
      BY <1>1, <1>3, <2>1, <3>1
    <3>3. CASE f = n
      <4>1. f - FirstSn + 1 = Len(q) + 1
        BY <1>1, <2>1, <3>3
      <4>2. Own(w, f) = f
        BY <1>3, <1>4, <4>1 DEF Own
      <4>3. f \in FirstSn .. p.sn
        BY <1>1, <1>3, <2>1, <3>3
      <4>4. QED  BY <1>3, <3>1, <3>2, <4>2, <4>3
    <3>4. CASE IsFirst(q, f)
      <4>1. f \in FirstSn .. End(q) - 1 /\ Own(w, f) = f
        BY <2>2, <2>3, <3>4
      <4>2. f \in FirstSn .. p.sn
        BY <1>1, <1>3, <2>1, <4>1 DEF End
      <4>3. QED  BY <1>3, <3>1, <3>2, <4>1, <4>2
    <3>5. QED  BY <3>3, <3>4 DEF n
  <2>6. QED  BY <2>4, <2>5
<1>7. SentOk(w)
  BY <1>4, <1>5, <1>6 DEF SentOk
<1>8. QED  BY <1>5, <1>7 DEF w, p, n

\* ResetSession
LEMMA ResetAll ==
    ASSUME NEW q, NEW s, All(s, {}, q), NEW sn \in SN
    PROVE  All(ResetRcv(s, sn), {}, q) /\ ResetRcv(s, sn).resets = s.resets + 1
<1> DEFINE t == ResetRcv(s, sn)
<1>1. s \in RcvType /\ s.resets \in Nat
  BY DEF All, RcvType
<1>2. RBP!Good(RBP!Cleared)
  BY RingFacts, SameNumbers, RBP!ClearedGood
<1>3. RBP!Cleared \in RBP!RbType /\ RBP!Cleared.inited = FALSE /\ RBP!Cleared.gap = FALSE
      /\ \A i \in Slots : RBP!Cleared.slot[i] = RBP!EmptySlot
  BY <1>2 DEF RBP!Good, RBP!Cleared, Slots
<1>4. sn - (sn % Block) \in Int
  BY StreamAssumption, SizeFacts DEF SN
<1>5. /\ t \in RcvType /\ t.filter = {} /\ t.rb = RBP!Cleared /\ t.app = <<>>
      /\ t.turn = <<>> /\ t.resets = s.resets + 1
  <2> DEFINE b == sn - (sn % Block)
             c == RBP!Cleared
             e == <<>>
  <2>1. t = [s EXCEPT !.filter = {}, !.border = b, !.cached = {}, !.rb = c,
                      !.app = e, !.turn = e, !.lost = {}, !.resets = @ + 1]
    BY SameNumbers DEF ResetRcv
  <2>2. b \in Int /\ c \in RBP!RbType /\ e \in Seq(SN) /\ s.resets + 1 \in Nat
    BY <1>1, <1>3, <1>4
  <2> HIDE DEF t, b, c, e
  <2>3. /\ t \in RcvType /\ t.filter = {} /\ t.rb = c /\ t.app = e
        /\ t.turn = e /\ t.resets = s.resets + 1
    BY <1>1, <2>1, <2>2 DEF RcvType
  <2>4. QED  BY <2>3 DEF c, e
<1> HIDE DEF t
<1>6. ~RBP!Occupied(RBP!EmptySlot) /\ RBP!EmptySlot.frame = None
  BY DEF RBP!Occupied, RBP!EmptySlot
<1>7. \A i \in Slots : Frame(t.rb, i) = None /\ ~RBP!Occupied(t.rb.slot[i])
  BY <1>3, <1>5, <1>6 DEF Frame
<1>8. Len(t.app) = 0 /\ Len(t.turn) = 0
  BY <1>5
<1>9. Once(t, {})
  BY <1>2, <1>3, <1>5, <1>7, <1>8 DEF Once, Distinct, Among, InRing
<1>10. Line(t, {}, q)
  BY <1>3, <1>5, <1>7, <1>8 DEF Line, Standing, TurnOk, Rising, Accounted, Walked
<1>11. QED  BY <1>5, <1>9, <1>10 DEF All, t

-----------------------------------------------------------------------------
(* The specification. *)

LastOk(l, q) == /\ l \in SN
                /\ NotWrapped => l \in FirstSn - 1 .. End(q)

\* The inductive invariant.
PathInv == SentOk(sent) /\ All(Rcv, {}, sent) /\ LastOk(last, sent)

LEMMA BecomeIs ==
    ASSUME NEW t \in RcvType, Become(t)
    PROVE  Rcv' = t
BY DEF Become, Rcv, RcvType

LEMMA InitInv == Init => PathInv
<1> SUFFICES ASSUME Init PROVE PathInv
  OBVIOUS
<1>1. /\ sent = <<>> /\ filter = {} /\ cached = {} /\ border = FirstBorder /\ app = <<>>
      /\ turn = <<>> /\ lost = {} /\ start = FirstSn /\ resets = 0
      /\ FirstSn \in SN /\ FirstBorder \in SN /\ MaxPackets \in Nat
      /\ FirstSn \in Nat /\ SnMod \in Nat /\ SnMod >= 4
  BY StreamAssumption, SizeFacts DEF Init, SN
<1>2. SentOk(sent) /\ End(sent) = FirstSn /\ Len(sent) = 0
  BY <1>1 DEF SentOk, End
<1>3. LastOk(last, sent)
  <2>1. IF FirstSn = 0 THEN last = 0 ELSE last = FirstSn - 1
    BY DEF Init
  <2>2. last \in SN /\ last \in FirstSn - 1 .. FirstSn
    BY <1>1, <2>1 DEF SN
  <2>3. QED  BY <1>2, <2>2 DEF LastOk
<1>4. RBP!Good(RBP!Cleared)
  BY RingFacts, SameNumbers, RBP!ClearedGood
<1>5. RBP!Cleared \in RBP!RbType /\ RBP!Cleared.inited = FALSE /\ RBP!Cleared.gap = FALSE
      /\ \A i \in Slots : RBP!Cleared.slot[i] = RBP!EmptySlot
  BY <1>4 DEF RBP!Good, RBP!Cleared, Slots
<1> DEFINE r == RBP!Inited(RBP!Cleared, FirstSn)
<1>6. /\ RBP!Good(r) /\ r.inited = TRUE /\ r.gap = FALSE /\ r.next = FirstSn
      /\ r.slot = RBP!Cleared.slot
  <2>1. RBP!Good(r) /\ r.inited
    BY <1>1, <1>4, RingFacts, SameNumbers, RBP!InitedGood
  <2>2. r \in RBP!RbType /\ r.gap = FALSE /\ r.next = FirstSn /\ r.slot = RBP!Cleared.slot
    BY <1>1, <1>5, <2>1 DEF RBP!Inited, RBP!RbType, RBP!Good
  <2>3. QED  BY <2>1, <2>2 DEF RBP!RbType
<1> HIDE DEF r
<1>7. /\ RBP!Good(rb) /\ rb \in RBP!RbType /\ rb.gap = FALSE
      /\ \A i \in Slots : rb.slot[i] = RBP!EmptySlot
      /\ rb.inited => rb.next = FirstSn
  <2>1. rb = RBP!Cleared \/ rb = r
    BY SameNumbers DEF Init, r
  <2>2. QED  BY <1>4, <1>5, <1>6, <2>1 DEF RBP!Good
<1>8. /\ Rcv \in RcvType /\ Rcv.filter = {} /\ Rcv.rb = rb /\ Rcv.app = <<>>
      /\ Rcv.turn = <<>> /\ Rcv.lost = {} /\ Rcv.start = FirstSn
  <2>1. FirstBorder \in Int /\ <<>> \in Seq(SN)
    BY <1>1 DEF SN
  <2>2. QED  BY <1>1, <1>7, <2>1 DEF Rcv, RcvType
<1>9. ~RBP!Occupied(RBP!EmptySlot) /\ RBP!EmptySlot.frame = None
  BY DEF RBP!Occupied, RBP!EmptySlot
<1> DEFINE t == Rcv
<1> HIDE DEF t
<1>10. /\ t \in RcvType /\ t.filter = {} /\ t.rb = rb /\ Len(t.app) = 0
       /\ Len(t.turn) = 0 /\ t.start = FirstSn
       /\ \A i \in Slots : Frame(t.rb, i) = None /\ ~RBP!Occupied(t.rb.slot[i])
  BY <1>7, <1>8, <1>9 DEF Frame, t
<1>11. Once(t, {})
  BY <1>7, <1>10 DEF Once, Distinct, Among, InRing
<1>12. Line(t, {}, sent)
  <2>1. t.rb.inited => t.start \in FirstSn .. t.rb.next /\ t.rb.next <= End(sent)
                       /\ t.start .. t.rb.next - 1 = {}
    BY <1>1, <1>2, <1>7, <1>10
  <2>2. QED
    BY <1>7, <1>10, <2>1 DEF Line, Standing, TurnOk, Rising, Accounted, Walked
<1>13. QED  BY <1>2, <1>3, <1>10, <1>11, <1>12 DEF PathInv, All, t

\* What one step does to the invariant and to the channel.
Sending == /\ UNCHANGED rcvVars
           /\ \E f \in SN : /\ f = RBP!Plus(FirstSn, Len(sent)) \/ IsFirst(sent, f)
                            /\ Len(sent) < MaxPackets
                            /\ sent' = Append(sent,
                                 [sn |-> RBP!Plus(FirstSn, Len(sent)), first |-> f])
Receiving == UNCHANGED sent /\ Runs(Rcv, Rcv')
Resetting == UNCHANGED sent /\ resets' = resets + 1 /\ Jumped(last, last')
             /\ \E p : On(sent, p) /\ last' = p.sn

LEMMA OnWireIs == \A p : p \in OnWire <=> On(sent, p)
BY DEF OnWire, On

LEMMA RestorableIs ==
    ASSUME NEW s, NEW rs \in Restorable(s)
    PROVE  Len(rs) \in Nat /\ \A k \in 1 .. Len(rs) : On(sent, rs[k])
<1>1. PICK n \in 0 .. MaxRestore : rs \in [1 .. n -> {p \in OnWire : p.sn \notin s.cached}]
  BY DEF Restorable
<1>2. n \in Nat
  BY StreamAssumption
<1>3. rs \in Seq(OnWire) /\ Len(rs) = n
  <2>1. rs \in [1 .. n -> OnWire]
    BY <1>1
  <2>2. QED  BY <1>2, <2>1, RingFacts, RBP!SeqOfFunction
<1>4. QED  BY <1>1, <1>2, <1>3, OnWireIs

LEMMA StepInv ==
    ASSUME PathInv, Next
    PROVE  PathInv' /\ (Sending \/ Receiving \/ Resetting)
<1>1. SentOk(sent) /\ All(Rcv, {}, sent) /\ LastOk(last, sent) /\ Rcv \in RcvType
  BY DEF PathInv, All
<1>2. ASSUME NEW p, On(sent, p), NEW w, w = sent PROVE LastOk(p.sn, w)
  BY <1>1, <1>2, OnFacts, EndFacts DEF LastOk
<1>3. ASSUME Sending PROVE PathInv'
  <2>1. PICK f \in SN : /\ f = RBP!Plus(FirstSn, Len(sent)) \/ IsFirst(sent, f)
                        /\ Len(sent) < MaxPackets
                        /\ sent' = Append(sent,
                             [sn |-> RBP!Plus(FirstSn, Len(sent)), first |-> f])
    BY <1>3 DEF Sending
  <2>2. SentOk(sent') /\ Extends(sent', sent)
    BY <1>1, <2>1, AppendOk
  <2>3. All(Rcv, {}, sent')
    BY <1>1, <2>2, LongerAll
  <2>4. Rcv' = Rcv /\ last' = last
    BY <1>3 DEF Sending, rcvVars, Rcv
  <2>5. LastOk(last', sent')
    <3>1. Len(sent) \in Nat /\ Len(sent') \in Nat /\ Len(sent) <= Len(sent')
      BY <1>1, <2>2 DEF SentOk, Extends
    <3>2. FirstSn \in Nat
      BY StreamAssumption, SizeFacts DEF SN
    <3>3. QED  BY <1>1, <2>4, <3>1, <3>2 DEF LastOk, End
  <2>6. QED  BY <2>2, <2>3, <2>4, <2>5 DEF PathInv
<1>4. ASSUME NEW t, All(t, {}, sent), Become(t), sent' = sent, LastOk(last', sent)
      PROVE  PathInv' /\ Rcv' = t
  <2>1. Rcv' = t
    BY <1>4, BecomeIs DEF All
  <2>2. QED  BY <1>1, <1>4, <2>1 DEF PathInv
<1>5. CASE SendFrame
  <2>1. RBP!Plus(FirstSn, Len(sent)) \in SN
    <3>1. Len(sent) \in 0 .. SnMod /\ FirstSn \in SN
      BY <1>1, StreamAssumption, SizeFacts DEF SentOk
    <3>2. QED  BY <3>1, RingFacts, SameNumbers, RBP!PlusLinear
  <2>2. Sending
    BY <1>5, <2>1, SameNumbers DEF SendFrame, Sending, NewSn
  <2>3. QED  BY <1>3, <2>2
<1>6. CASE \E f \in Firsts : Retransmit(f)
  <2>1. PICK f \in Firsts : Retransmit(f)
    BY <1>6
  <2>2. PICK k \in 1 .. Len(sent) : f = sent[k].first
    BY DEF Firsts
  <2>3. f \in SN /\ IsFirst(sent, f)
    <3>1. sent \in Seq(Pkts)
      BY <1>1 DEF SentOk
    <3>2. sent[k] \in Pkts
      BY <2>2, <3>1
    <3>3. QED  BY <2>2, <3>2 DEF Pkts, IsFirst
  <2>4. Sending
    BY <2>1, <2>3, SameNumbers DEF Retransmit, Sending, NewSn
  <2>5. QED  BY <1>3, <2>4
<1>7. CASE \E p \in OnWire, idle \in BOOLEAN, oom \in {FALSE, AllowOom} :
              ReceiveData(p, idle, oom)
  <2>1. PICK p \in OnWire, idle \in BOOLEAN, oom \in {FALSE, AllowOom} :
                ReceiveData(p, idle, oom)
    BY <1>7
  <2> DEFINE reset == ~idle /\ Jumped(last, p.sn)
             pre == IF reset THEN ResetRcv(Rcv, p.sn) ELSE Rcv
             W == [pre EXCEPT !.cached = @ \cup {p.sn}]
  <2>2. /\ last' = IF idle THEN last ELSE p.sn
        /\ \E rs \in Restorable(W) : Become(HandleData(pre, p, rs, oom))
        /\ sent' = sent
    BY <2>1 DEF ReceiveData
  <2>3. reset <=> ~idle /\ Jumped(last, p.sn)
    OBVIOUS
  <2>4. pre = IF reset THEN ResetRcv(Rcv, p.sn) ELSE Rcv
    OBVIOUS
  <2> HIDE DEF pre, reset, W
  <2>5. On(sent, p) /\ p.sn \in SN
    BY <1>1, <2>1, OnWireIs, OnFacts
  <2>6. PICK rs \in Restorable(W) : Become(HandleData(pre, p, rs, oom))
    BY <2>2
  <2>7. Len(rs) \in Nat /\ \A k \in 1 .. Len(rs) : On(sent, rs[k])
    BY RestorableIs
  <2>8. All(pre, {}, sent) /\ (reset => pre.resets = Rcv.resets + 1)
    <3>1. CASE reset
      BY <1>1, <2>4, <2>5, <3>1, ResetAll
    <3>2. CASE ~reset
      BY <1>1, <2>4, <3>2
    <3>3. QED  BY <3>1, <3>2
  <2> DEFINE t == HandleData(pre, p, rs, oom)
  <2>9. All(t, {}, sent) /\ Runs(pre, t)
    BY <1>1, <2>5, <2>7, <2>8, HandleDataAll
  <2> HIDE DEF t
  <2>10. LastOk(last', sent)
    BY <1>1, <1>2, <2>2, <2>5
  <2>11. PathInv' /\ Rcv' = t
    BY <1>4, <2>2, <2>6, <2>9, <2>10 DEF t
  <2>12. Receiving \/ Resetting
    <3>1. CASE reset
      <4>1. Rcv'.resets = Rcv.resets + 1
        BY <2>8, <2>9, <2>11, <3>1 DEF Runs
      <4>2. resets' = resets + 1
        BY <4>1 DEF Rcv
      <4>3. last' = p.sn /\ Jumped(last, last')
        BY <2>2, <2>3, <3>1
      <4>4. QED  BY <2>2, <2>5, <4>2, <4>3 DEF Resetting
    <3>2. CASE ~reset
      BY <2>2, <2>4, <2>9, <2>11, <3>2 DEF Receiving
    <3>3. QED  BY <3>1, <3>2
  <2>13. QED  BY <2>11, <2>12
<1>8. CASE \E oom \in {FALSE, AllowOom} : ReceiveFec(oom)
  <2>1. PICK oom \in {FALSE, AllowOom} : ReceiveFec(oom)
    BY <1>8
  <2>2. PICK rs \in Restorable(Rcv) : Become(RestoreAll(Rcv, rs, oom))
    BY <2>1 DEF ReceiveFec
  <2>3. sent' = sent /\ last' = last
    BY <2>1 DEF ReceiveFec
  <2>4. Len(rs) \in Nat /\ \A k \in 1 .. Len(rs) : On(sent, rs[k])
    BY RestorableIs
  <2> DEFINE t == RestoreAll(Rcv, rs, oom)
  <2>5. All(t, {}, sent) /\ Runs(Rcv, t)
    BY <1>1, <2>4, RestoreAllAll
  <2> HIDE DEF t
  <2>6. PathInv' /\ Rcv' = t
    BY <1>1, <1>4, <2>2, <2>3, <2>5 DEF t
  <2>7. QED  BY <2>3, <2>5, <2>6 DEF Receiving
<1>9. CASE GapTimeout
  <2> DEFINE t == Apply(Rcv, rb.next, RB!SkipGap(rb), {})
  <2>1. Rcv.rb = rb /\ rb.gap /\ sent' = sent /\ last' = last /\ Become(t)
    BY <1>9 DEF GapTimeout, Rcv
  <2>2. All(t, {}, sent) /\ Runs(Rcv, t)
    <3> DEFINE u == Apply(Rcv, Rcv.rb.next, RB!SkipGap(Rcv.rb), {})
    <3>1. All(u, {}, sent) /\ Runs(Rcv, u)
      BY <1>1, <2>1, SkipGapAll
    <3>2. u = t
      BY <2>1
    <3>3. QED  BY <3>1, <3>2
  <2> HIDE DEF t
  <2>3. PathInv' /\ Rcv' = t
    BY <1>1, <1>4, <2>1, <2>2
  <2>4. QED  BY <2>1, <2>2, <2>3 DEF Receiving
<1>10. QED  BY <1>5, <1>6, <1>7, <1>8, <1>9 DEF Next

\* The inductive invariant holds in every reachable state.
THEOREM Inductive == Spec => []PathInv
<1>1. Init => PathInv
  BY InitInv
<1>2. PathInv /\ [Next]_vars => PathInv'
  <2>1. CASE Next
    BY <2>1, StepInv
  <2>2. CASE UNCHANGED vars
    BY <2>2 DEF vars, PathInv, Rcv
  <2>3. QED  BY <2>1, <2>2
<1>3. QED  BY <1>1, <1>2, PTL DEF Spec

\* No frame is given to the application twice: one filter on first_sn catches
\* first copies, retransmissions, network duplicates and what FEC restores.
\* This holds for every stream, wherever its numbers start or wrap.
THEOREM DeliveredOnce == Spec => []AtMostOnce
<1>1. PathInv => AtMostOnce
  <2> SUFFICES ASSUME PathInv PROVE AtMostOnce
    OBVIOUS
  <2>1. Distinct(app) /\ app \in Seq(SN)
    BY DEF PathInv, All, Once, Rcv, RcvType
  <2>2. DOMAIN app = 1 .. Len(app)
    BY <2>1
  <2>3. QED  BY <2>1, <2>2 DEF AtMostOnce, Distinct
<1>2. QED  BY <1>1, Inductive, PTL

\* Every frame the filter accepts is delivered, buffered, given up by the
\* buffer, or older than the number the buffer started from.
THEOREM NothingElseDrops ==
    ASSUME NotWrapped
    PROVE  Spec => []AcceptedAccounted
<1>1. PathInv => AcceptedAccounted
  <2> SUFFICES ASSUME PathInv, NEW f \in filter
               PROVE  f \in Delivered \cup Buffered \cup lost \/ RB!Passed(f, start)
    BY DEF AcceptedAccounted
  <2>1. SentOk(sent) /\ Rcv \in RcvType /\ Line(Rcv, {}, sent)
    BY DEF PathInv, All
  <2>2. /\ Rcv.filter = filter /\ Rcv.app = app /\ Rcv.rb = rb /\ Rcv.lost = lost
        /\ Rcv.start = start
    BY DEF Rcv
  <2>3. Among(app, f) \/ InRing(rb, f) \/ f \in lost \/ f < start
    BY <2>1, <2>2 DEF Line, Accounted
  <2>4. Among(app, f) => f \in Delivered
    <3>1. app \in Seq(SN)
      BY <2>1, <2>2 DEF RcvType
    <3>2. QED  BY <3>1 DEF Among, Delivered
  <2>5. InRing(rb, f) => f \in Buffered
    BY SameNumbers DEF InRing, Buffered, Slots, Frame
  <2>6. ASSUME f < start PROVE RB!Passed(f, start)
    <3>1. IsFirst(sent, f) /\ rb.inited
      BY <2>1, <2>2 DEF Line
    <3>2. f \in FirstSn .. End(sent) - 1
      BY <2>1, <3>1, KeyIsFirst
    <3>3. End(sent) \in Nat /\ FirstSn \in Nat
      BY <2>1, EndFacts
    <3>4. start \in FirstSn .. rb.next /\ rb.next <= End(sent)
      BY <2>1, <2>2, <3>1 DEF Line
    <3>5. rb.next \in SN
      BY <2>1, <2>2, SameNumbers DEF RcvType, RBP!RbType
    <3>6. f \in FirstSn .. End(sent) /\ start \in FirstSn .. End(sent)
      BY <3>2, <3>3, <3>4, <3>5, SizeFacts DEF SN
    <3>7. QED  BY <2>1, <2>6, <3>6, OnLine, SameNumbers
  <2>7. QED  BY <2>3, <2>4, <2>5, <2>6
<1>2. QED  BY <1>1, Inductive, PTL

-----------------------------------------------------------------------------
(* The ordered channel. *)

Rest(b, a) == SubSeq(b, Len(a) + 1, Len(b))
Joins(b, a, c) == /\ b = a \o c
                  /\ \A j \in 1 .. Len(c) : \E k \in 1 .. Len(b) : c[j] = b[k]

\* What extends a sequence.
LEMMA SuffixOf ==
    ASSUME NEW S, NEW a \in Seq(S), NEW b \in Seq(S), Extends(b, a)
    PROVE  Joins(b, a, Rest(b, a))
<1> DEFINE m == Len(a)
           n == Len(b)
           c == Rest(b, a)
<1>1. m \in Nat /\ n \in Nat /\ m <= n /\ \A k \in 1 .. m : b[k] = a[k]
  BY DEF Extends
<1>2. c \in Seq(S) /\ Len(c) = n - m /\ \A j \in 1 .. n - m : c[j] = b[m + j]
  BY <1>1 DEF Rest
<1> HIDE DEF c
<1>3. a \o c \in Seq(S) /\ Len(a \o c) = n
  BY <1>1, <1>2
<1>4. \A k \in 1 .. n : (a \o c)[k] = b[k]
  <2> TAKE k \in 1 .. n
  <2>1. CASE k <= m
    BY <1>1, <1>2, <2>1
  <2>2. CASE k > m
    <3>1. k - m \in 1 .. n - m /\ m + (k - m) = k
      BY <1>1, <2>2
    <3>2. (a \o c)[k] = c[k - m]
      BY <1>1, <1>2, <2>2
    <3>3. QED  BY <1>2, <3>1, <3>2
  <2>3. k <= m \/ k > m
    BY <1>1
  <2> DEFINE d == (a \o c)[k]
  <2> HIDE DEF d, m
  <2>4. d = b[k]
    BY <2>1, <2>2, <2>3 DEF d
  <2>5. QED  BY <2>4 DEF d
<1>5. b = a \o c
  <2> DEFINE d == a \o c
  <2>1. d \in Seq(S) /\ Len(d) = n /\ Len(b) = n /\ \A k \in 1 .. n : d[k] = b[k]
    BY <1>3, <1>4
  <2> HIDE DEF d
  <2>2. b = [k \in 1 .. n |-> b[k]] /\ d = [k \in 1 .. n |-> d[k]]
    BY <2>1
  <2> HIDE DEF n
  <2>3. b = d
    BY <2>1, <2>2
  <2>4. QED  BY <2>3 DEF d
<1>6. ASSUME NEW j \in 1 .. Len(c) PROVE \E k \in 1 .. Len(b) : c[j] = b[k]
  <2>1. m + j \in 1 .. Len(b) /\ c[j] = b[m + j]
    BY <1>1, <1>2
  <2>2. QED  BY <2>1
<1>7. QED  BY <1>5, <1>6 DEF Joins, c

Mapped(x) == [i \in DOMAIN x |-> Index(x[i])]

LEMMA MappedFacts ==
    ASSUME NotWrapped, NEW q, SentOk(q), NEW x \in Seq(SN),
           \A k \in 1 .. Len(x) : IsFirst(q, x[k])
    PROVE  /\ Mapped(x) \in Seq(Nat) /\ Len(Mapped(x)) = Len(x)
           /\ \A k \in 1 .. Len(x) : Mapped(x)[k] = Index(x[k])
           /\ \A k \in 1 .. Len(x) : Mapped(x)[k] = x[k] - FirstSn /\ x[k] \in Nat
<1>1. DOMAIN x = 1 .. Len(x) /\ Len(x) \in Nat
  OBVIOUS
<1>2. End(q) \in Nat /\ FirstSn \in Nat /\ FirstSn <= End(q)
  BY EndFacts
<1>3. ASSUME NEW k \in 1 .. Len(x)
      PROVE  x[k] \in Nat /\ Index(x[k]) = x[k] - FirstSn /\ x[k] - FirstSn \in Nat
  <2>1. IsFirst(q, x[k])
    BY <1>3
  <2>2. x[k] \in FirstSn .. End(q) - 1
    BY <2>1, KeyIsFirst
  <2>3. x[k] \in FirstSn .. End(q) /\ FirstSn \in FirstSn .. End(q) /\ FirstSn <= x[k]
        /\ x[k] \in Nat /\ x[k] - FirstSn \in Nat
    BY <1>2, <2>2
  <2>4. RBP!Dist(x[k], FirstSn) = x[k] - FirstSn
    BY <2>3, OnLine
  <2>5. QED  BY <2>3, <2>4, SameNumbers DEF Index
<1>4. Mapped(x) \in [1 .. Len(x) -> Nat]
      /\ \A k \in 1 .. Len(x) : Mapped(x)[k] = Index(x[k])
  BY <1>1, <1>3 DEF Mapped
<1>5. Mapped(x) \in Seq(Nat) /\ Len(Mapped(x)) = Len(x)
  BY <1>1, <1>4, RingFacts, RBP!SeqOfFunction
<1>6. QED  BY <1>3, <1>4, <1>5

LEMMA ChannelStep ==
    ASSUME NotWrapped, PathInv, Next
    PROVE  Channel!Next
<1> DEFINE peer == {Index(f) : f \in Firsts}
           got == Mapped(turn)
<1>1. PathInv' /\ (Sending \/ Receiving \/ Resetting)
  BY StepInv
<1>2. /\ SentOk(sent) /\ Rcv \in RcvType /\ Line(Rcv, {}, sent)
      /\ SentOk(sent') /\ Rcv' \in RcvType /\ Line(Rcv', {}, sent')
  BY <1>1 DEF PathInv, All
<1>3. /\ turn \in Seq(SN) /\ Rising(turn)
      /\ \A k \in 1 .. Len(turn) : IsFirst(sent, turn[k])
  BY <1>2 DEF Line, TurnOk, RcvType, Rcv
<1>4. /\ turn' \in Seq(SN) /\ Rising(turn')
      /\ \A k \in 1 .. Len(turn') : IsFirst(sent', turn'[k])
  BY <1>2 DEF Line, TurnOk, RcvType, Rcv
<1>5. /\ got \in Seq(Nat) /\ Len(got) = Len(turn)
      /\ \A k \in 1 .. Len(turn) : got[k] = turn[k] - FirstSn /\ turn[k] \in Nat
  BY <1>2, <1>3, MappedFacts
<1>6. /\ got' \in Seq(Nat) /\ Len(got') = Len(turn')
      /\ \A k \in 1 .. Len(turn') : /\ got'[k] = Index(turn'[k])
                                    /\ got'[k] = turn'[k] - FirstSn /\ turn'[k] \in Nat
  <2>1. got' = Mapped(turn')
    BY DEF Mapped, Index, RB!Dist
  <2>2. QED  BY <1>2, <1>4, <2>1, MappedFacts
<1>7. FirstSn \in Nat
  BY <1>2, EndFacts
<1>8. \A i, j \in 1 .. Len(got') : i < j => got'[i] < got'[j]
  BY <1>4, <1>6, <1>7 DEF Rising
<1>9. sent' = sent => \A k \in 1 .. Len(got') : got'[k] \in peer
  BY <1>4, <1>6 DEF IsFirst, Firsts
<1>10. sent' = sent => peer' = peer
  BY DEF Firsts, Index, RB!Dist
<1> HIDE DEF peer, got
<1>11. CASE Sending
  <2>1. PICK f \in SN : /\ f = RBP!Plus(FirstSn, Len(sent)) \/ IsFirst(sent, f)
                        /\ Len(sent) < MaxPackets
                        /\ sent' = Append(sent,
                             [sn |-> RBP!Plus(FirstSn, Len(sent)), first |-> f])
    BY <1>11 DEF Sending
  <2>2. got' = got /\ resets' = resets
    BY <1>11 DEF Sending, rcvVars, got, Mapped, Index, RB!Dist
  <2>3. /\ sent \in Seq(Pkts) /\ Len(sent) \in Nat /\ Len(sent') = Len(sent) + 1
        /\ sent'[Len(sent) + 1].first = f
        /\ \A k \in 1 .. Len(sent) : sent'[k] = sent[k]
    BY <1>2, <2>1 DEF SentOk
  <2>4. Firsts' = Firsts \cup {f}
    <3>1. 1 .. Len(sent') = (1 .. Len(sent)) \cup {Len(sent) + 1}
      BY <2>3
    <3>2. QED  BY <2>3, <3>1 DEF Firsts
  <2>5. peer' = peer \cup {Index(f)}
    BY <2>4 DEF peer, Index, RB!Dist
  <2>6. ASSUME NEW n \in peer' \ peer, NEW m \in peer PROVE m < n
    <3>1. n = Index(f) /\ ~IsFirst(sent, f)
      BY <2>5, <2>6 DEF peer, Firsts, IsFirst
    <3>2. PICK g \in Firsts : m = Index(g)
      BY DEF peer
    <3>3. IsFirst(sent, g)
      BY DEF Firsts, IsFirst
    <3>4. g \in FirstSn .. End(sent) - 1
      BY <1>2, <3>3, KeyIsFirst
    <3>5. End(sent) \in Nat /\ FirstSn <= End(sent) /\ End(sent) = FirstSn + Len(sent)
      BY <1>2, EndFacts DEF End
    <3>6. f = End(sent)
      <4>1. FirstSn \in FirstSn .. End(sent) /\ FirstSn + Len(sent) <= End(sent)
        BY <1>7, <3>5
      <4>2. RBP!Plus(FirstSn, Len(sent)) = FirstSn + Len(sent)
        BY <1>2, <2>3, <4>1, PlusIsSum
      <4>3. QED  BY <2>1, <3>1, <3>5, <4>2
    <3>7. /\ f \in FirstSn .. End(sent) /\ g \in FirstSn .. End(sent)
          /\ FirstSn \in FirstSn .. End(sent) /\ FirstSn <= f /\ FirstSn <= g /\ g < f
      BY <1>7, <3>4, <3>5, <3>6
    <3>8. RBP!Dist(f, FirstSn) = f - FirstSn
      BY <1>2, <3>7, OnLine
    <3>9. RBP!Dist(g, FirstSn) = g - FirstSn
      BY <1>2, <3>7, OnLine
    <3>10. n = f - FirstSn /\ m = g - FirstSn
      BY <3>1, <3>2, <3>8, <3>9, SameNumbers DEF Index
    <3>11. QED  BY <1>7, <3>5, <3>7, <3>10
  <2>7. Channel!Send
    BY <2>2, <2>5, <2>6 DEF Channel!Send, peer, got, Mapped
  <2>8. QED  BY <2>7 DEF Channel!Next
<1>12. CASE Receiving
  <2>1. sent' = sent /\ resets' = resets /\ Extends(turn', turn)
    BY <1>12 DEF Receiving, Runs, Rcv
  <2>2. Extends(got', got)
    <3>1. \A k \in 1 .. Len(turn) : k \in 1 .. Len(turn') /\ turn'[k] = turn[k]
      BY <1>3, <1>4, <2>1 DEF Extends
    <3>2. QED  BY <1>5, <1>6, <2>1, <3>1 DEF Extends
  <2> DEFINE c == Rest(got', got)
  <2>3. Channel!Suffix = c
    BY DEF Channel!Suffix, got, Mapped, Rest
  <2>4. Joins(got', got, c)
    BY <1>5, <1>6, <2>2, SuffixOf
  <2> HIDE DEF c
  <2>5. /\ got' = got \o c
        /\ \A j \in 1 .. Len(c) : \E k \in 1 .. Len(got') : c[j] = got'[k]
    BY <2>4 DEF Joins
  <2>6. \A j \in 1 .. Len(c) : c[j] \in peer
    BY <1>9, <2>1, <2>5
  <2>7. Len(got') >= Len(got)
    BY <1>5, <1>6, <2>2 DEF Extends
  <2>8. Channel!Deliver(c)
    BY <1>8, <1>10, <2>1, <2>5, <2>6
       DEF Channel!Deliver, Channel!FromPeer, Channel!Increasing, peer, got, Mapped
  <2>9. QED  BY <2>3, <2>7, <2>8 DEF Channel!Next, got, Mapped
<1>13. CASE Resetting
  <2>1. sent' = sent /\ resets' = resets + 1
    BY <1>13 DEF Resetting
  <2>2. Channel!Restart(got')
    BY <1>8, <1>9, <1>10, <2>1
       DEF Channel!Restart, Channel!FromPeer, Channel!Increasing, peer, got, Mapped
  <2>3. QED  BY <2>2 DEF Channel!Next, got, Mapped
<1>14. QED  BY <1>1, <1>11, <1>12, <1>13

\* The handlers implement the ordered channel: in the order of first
\* transmission, none twice, none invented, until the session is reset.
THEOREM Refinement ==
    ASSUME NotWrapped
    PROVE  Spec => OrderedDelivery
<1>1. Init => Channel!Init
  <2> SUFFICES ASSUME Init PROVE Channel!Init
    OBVIOUS
  <2>1. sent = <<>> /\ turn = <<>> /\ resets = 0
    BY DEF Init
  <2>2. {Index(f) : f \in Firsts} = {}
    BY <2>1 DEF Firsts
  <2>3. [i \in DOMAIN turn |-> Index(turn[i])] = <<>>
    BY <2>1
  <2>4. QED  BY <2>1, <2>2, <2>3 DEF Channel!Init
<1>2. ASSUME PathInv, [Next]_vars
      PROVE  [Channel!Next]_<<{Index(f) : f \in Firsts},
                              [i \in DOMAIN turn |-> Index(turn[i])], resets>>
  <2>1. CASE Next
    BY <1>2, <2>1, ChannelStep
  <2>2. CASE UNCHANGED vars
    BY <2>2 DEF vars, Firsts, Index, RB!Dist
  <2>3. QED  BY <1>2, <2>1, <2>2
<1>3. QED  BY <1>1, <1>2, Inductive, PTL DEF Spec, OrderedDelivery, Channel!Spec
=============================================================================
