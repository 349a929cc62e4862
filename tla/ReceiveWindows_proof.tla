----------------------- MODULE ReceiveWindows_proof ------------------------
(***************************************************************************)
(* The two receiving windows for every size of window, word, reserve and   *)
(* every stream of packets: as long as sequence numbers do not wrap and    *)
(* the jumps that are let pass fit into the room that the window keeps on  *)
(* its right, a repeat is known as one, a packet that is not too old is    *)
(* not taken for one, the left border keeps its distance, and ACKs confirm *)
(* what has arrived.                                                       *)
(*                                                                         *)
(* A window describes a set of numbers by bits on a ring that is reused    *)
(* and cleared word by word; the invariant says that bit by bit the two    *)
(* agree between the borders, that the newest number and its position      *)
(* belong together and stay right of the left border, and how far from it. *)
(***************************************************************************)
EXTENDS ReceiveWindows, WellFoundedInduction, TLAPS

\* The hypothesis: numbers stay away from the wrap, every burst of losses that
\* the jump check lets pass fits into the room that is left when the window
\* has kept its reserve (ai_learn_sn_delta_ against MIN_WIN_SZ), and so does a
\* matrix of FEC.
Fits ==
    /\ ~PauseLoss
    /\ \A sn \in Sns : sn + 2 * Win < SnMod
    /\ \A r \in Reserves : SnJump + r <= Half + 1 /\ FecSpan + r <= Half

WinFields == {"lpos", "lsn", "bits", "maxSn", "maxPos", "outr"}

\* The position of a distance from the left border.
At(w, d) == (w.lpos + d) % WinBuf

\* How far the newest number is from the left border.
Reach(w) == w.maxSn - w.lsn

WinShape(w) ==
    /\ DOMAIN w = WinFields
    /\ w.lpos \in Ring /\ w.lsn \in Nat /\ w.maxSn \in Nat
    /\ w.lsn <= w.maxSn /\ w.maxSn + 2 * Win < SnMod
    /\ w.maxPos = At(w, Reach(w))
    /\ \E r \in Reserves : Reach(w) < Half + r

\* Between its borders the window holds the numbers of A.
Holds(w, A) ==
    /\ \A d \in 0 .. Win - 1 : At(w, d) \in w.bits <=> w.lsn + d \in A
    /\ \A a \in A : a \in Nat /\ a <= w.maxSn
    /\ A # {} => w.maxSn \in A
    /\ A = {} => w.maxSn = w.lsn

WinOk(w, A) == WinShape(w) /\ Holds(w, A)

Keeps(w, s) == w.lsn = s \/ \E r \in Reserves : Reach(w) >= r - 1

WindowInv ==
    /\ WinOk(filter, seen) /\ WinOk(data, arrived)
    /\ filter.maxSn = data.maxSn
    /\ last \in Nat /\ last <= filter.maxSn
    /\ seen = {} => filter.lsn = 0 /\ start = 0
    /\ arrived = {} => data.lsn = 0
    /\ Keeps(filter, start)
-----------------------------------------------------------------------------
(* Arithmetic *)

\* A set of naturals that is not empty has a least element.
LEMMA LeastOf ==
    ASSUME NEW T, T \subseteq Nat, T # {}
    PROVE  \E x \in T : \A y \in T : x <= y
<1>1. \E R : /\ \A x, y \in Nat : <<y, x>> \in R <=> y < x
             /\ \E x \in T : \A y \in T : ~ (<<y, x>> \in R)
  <2>1. \E x \in T : \A y \in T : ~ (<<y, x>> \in OpToRel(<, Nat))
    BY NatLessThanWellFounded, WFMin
  <2>2. \A x, y \in Nat : <<y, x>> \in OpToRel(<, Nat) <=> y < x
    BY DEF OpToRel
  <2> QED  BY <2>1, <2>2, Zenon
<1>2. PICK R : /\ \A x, y \in Nat : <<y, x>> \in R <=> y < x
               /\ \E x \in T : \A y \in T : ~ (<<y, x>> \in R)
  BY <1>1
<1>3. PICK x \in T : \A y \in T : ~ (<<y, x>> \in R)
  BY <1>2
<1>4. \A y \in T : ~ (y < x)
  BY <1>2, <1>3
<1> QED  BY <1>4

LEMMA MinOf ==
    ASSUME NEW T, T \subseteq Nat, T # {}
    PROVE  Min(T) \in T /\ \A y \in T : Min(T) <= y
BY LeastOf DEF Min

LEMMA DivMod ==
    ASSUME NEW a \in Int, NEW b \in Nat, b >= 1
    PROVE  \E q \in Int, r \in 0 .. b - 1 : a = b * q + r /\ (a % b) = r
<1>1. a \div b \in Int /\ (a % b) \in 0 .. b - 1
  OBVIOUS
<1>2. a = b * (a \div b) + (a % b)
  OBVIOUS
<1>3. QED  BY <1>1, <1>2

\* Less than one multiple apart means equal.
LEMMA NoMultipleBetween ==
    ASSUME NEW b \in Nat, b >= 1, NEW q \in Int, b * q > 0 - b, b * q < b
    PROVE  q = 0
<1>1. CASE q >= 1
  <2>1. b * q >= b
    BY <1>1
  <2>2. QED  BY <2>1
<1>2. CASE q <= -1
  <2>1. b * q <= 0 - b
    BY <1>2
  <2>2. QED  BY <2>1
<1>3. QED  BY <1>1, <1>2

\* Two numbers that differ by a multiple of b have the same residue.
LEMMA ModShift ==
    ASSUME NEW a \in Int, NEW c \in Int, NEW b \in Nat, b >= 1,
           NEW k \in Int, c = a + b * k
    PROVE  (c % b) = (a % b)
<1>1. PICK q \in Int, r \in 0 .. b - 1 : a = b * q + r /\ (a % b) = r
  BY DivMod
<1>2. PICK p \in Int, s \in 0 .. b - 1 : c = b * p + s /\ (c % b) = s
  BY DivMod
<1> DEFINE t == (q + k) - p
<1>3. b * t = (b * q + b * k) - b * p
  OBVIOUS
<1>4. a = b * q + r /\ c = b * p + s
  BY <1>1, <1>2
<1>5. b * t = s - r
  BY <1>3, <1>4
<1>6. t = 0
  BY <1>5, NoMultipleBetween
<1>7. s = r
  BY <1>5, <1>6
<1>8. QED  BY <1>1, <1>2, <1>7

\* Residues of numbers less than b apart are different.
LEMMA ModInjective ==
    ASSUME NEW a \in Int, NEW c \in Int, NEW b \in Nat, b >= 1,
           a < c, c < a + b
    PROVE  (a % b) # (c % b)
<1>1. PICK q \in Int, r \in 0 .. b - 1 : a = b * q + r /\ (a % b) = r
  BY DivMod
<1>2. PICK p \in Int, s \in 0 .. b - 1 : c = b * p + s /\ (c % b) = s
  BY DivMod
<1>3. SUFFICES ASSUME r = s PROVE FALSE
  BY <1>1, <1>2
<1> DEFINE t == p - q
<1>4. b * t = b * p - b * q
  OBVIOUS
<1>5. a = b * q + r /\ c = b * p + r
  BY <1>1, <1>2, <1>3
<1>6. b * t = c - a
  BY <1>4, <1>5
<1>7. t = 0
  BY <1>6, NoMultipleBetween
<1>8. QED  BY <1>6, <1>7

LEMMA SizeFacts ==
    /\ Block \in Nat /\ Block >= 2 /\ Win \in Nat /\ Half \in Nat
    /\ Win = 2 * Half /\ \E k \in Nat : Half = Block * k /\ k >= 1
    /\ Half >= Block
    /\ WinBuf = 2 * Win /\ WinBuf \in Nat
    /\ SnMod \in Nat /\ SnMod >= 2 * WinBuf
<1>1. PICK k \in 1 .. Win : Win = 2 * k * Block
  BY WindowAssumption
<1>2. Win \in Nat /\ Block \in Nat /\ Block >= 2 /\ k \in Nat /\ k >= 1 /\ SnMod \in Nat
  BY <1>1, WindowAssumption
<1>3. Win = 2 * (Block * k) /\ Block * k \in Nat
  BY <1>1, <1>2
<1>4. Half = Block * k
  BY <1>3, <1>2 DEF Half
<1>5. Block * k >= Block
  BY <1>2
<1>6. WinBuf = 2 * Win /\ WinBuf \in Nat
  BY <1>2 DEF WinBuf
<1>7. PICK m \in 2 .. SnMod : SnMod = m * WinBuf
  BY WindowAssumption
<1>8. m * WinBuf >= 2 * WinBuf
  BY <1>6, <1>7, <1>2
<1> QED  BY <1>2, <1>3, <1>4, <1>5, <1>6, <1>7, <1>8

LEMMA ReserveFacts ==
    ASSUME NEW r \in Reserves
    PROVE  /\ r \in Nat /\ Block <= r /\ r + Block <= Half
           /\ \E k \in Nat : r = Block * k
<1>1. /\ r \in Nat /\ Block <= r /\ r + Block <= Half
      /\ \E k \in 1 .. r : r = k * Block
  BY ReservesAssumption
<1>2. PICK k \in 1 .. r : r = k * Block
  BY <1>1
<1>3. k \in Nat /\ r = Block * k
  BY <1>1, <1>2, SizeFacts
<1> QED  BY <1>1, <1>3

\* Rounding down to whole words.
LEMMA FloorFacts ==
    ASSUME NEW n \in Nat
    PROVE  /\ Floor(n) \in Nat /\ Floor(n) <= n /\ n < Floor(n) + Block
           /\ \E k \in Int : Floor(n) = Block * k
<1>1. Block \in Nat /\ Block >= 1
  BY SizeFacts
<1>2. PICK q \in Int, r \in 0 .. Block - 1 : n = Block * q + r /\ (n % Block) = r
  BY <1>1, DivMod
<1>3. Floor(n) = n - r /\ r \in Nat /\ r < Block
  BY <1>1, <1>2 DEF Floor
<1>4. Block * q \in Int /\ Floor(n) = Block * q
  BY <1>1, <1>2, <1>3
<1>5. q >= 0
  <2> SUFFICES ASSUME q <= -1  PROVE FALSE
    OBVIOUS
  <2>1. Block * q <= 0 - Block
    BY <1>1
  <2> QED  BY <2>1, <1>1, <1>2
<1>6. Block * q >= 0
  BY <1>5, <1>1
<1> QED  BY <1>1, <1>3, <1>4, <1>6

\* Whole words are not changed, nor does one number more make a difference.
LEMMA FloorWhole ==
    ASSUME NEW k \in Int, NEW i \in {0, 1}, Block * k >= 0
    PROVE  Floor(Block * k + i) = Block * k
<1>1. Block \in Nat /\ Block >= 2 /\ Block * k \in Int
  BY SizeFacts
<1>2. (Block * k + i) % Block = i % Block
  BY <1>1, ModShift
<1>3. i % Block = i
  BY <1>1
<1> QED  BY <1>1, <1>2, <1>3 DEF Floor
-----------------------------------------------------------------------------
(* The ring *)

LEMMA RingPlus ==
    ASSUME NEW a \in Int, NEW d \in Int
    PROVE  ((a % WinBuf) + d) % WinBuf = (a + d) % WinBuf /\ (a % WinBuf) \in Ring
<1>1. WinBuf \in Nat /\ WinBuf >= 1
  BY SizeFacts
<1>2. PICK q \in Int, r \in 0 .. WinBuf - 1 : a = WinBuf * q + r /\ (a % WinBuf) = r
  BY <1>1, DivMod
<1>3. r \in Int /\ r + d \in Int /\ a + d \in Int /\ WinBuf * q \in Int
  BY <1>1, <1>2
<1>4. a + d = (r + d) + WinBuf * q
  BY <1>2, <1>3
<1> DEFINE x == r + d
           y == a + d
<1>5. x \in Int /\ y \in Int /\ y = x + WinBuf * q
  BY <1>3, <1>4
<1> HIDE DEF x, y
<1>6. y % WinBuf = x % WinBuf
  BY <1>1, <1>5, ModShift
<1> USE DEF x, y
<1> QED  BY <1>2, <1>6 DEF Ring

LEMMA AtInRing ==
    ASSUME NEW w, w.lpos \in Ring, NEW d \in Int
    PROVE  At(w, d) \in Ring
<1>1. w.lpos \in Int /\ w.lpos + d \in Int
  BY SizeFacts DEF Ring
<1> QED  BY <1>1, RingPlus DEF At

\* Distances less than one round apart have different positions.
LEMMA AtDiffer ==
    ASSUME NEW w, w.lpos \in Ring, NEW d \in Int, NEW e \in Int, d < e, e < d + WinBuf
    PROVE  At(w, d) # At(w, e)
<1>1. w.lpos \in Int /\ WinBuf \in Nat /\ WinBuf >= 1
  BY SizeFacts DEF Ring
<1>2. w.lpos + d \in Int /\ w.lpos + e \in Int
      /\ w.lpos + d < w.lpos + e /\ w.lpos + e < (w.lpos + d) + WinBuf
  BY <1>1
<1> QED  BY <1>1, <1>2, ModInjective DEF At

\* RingSpan is the inverse of At.
LEMMA RingSpanAt ==
    ASSUME NEW w, w.lpos \in Ring, NEW d \in Nat, NEW i \in {0, 1}, d + i < WinBuf
    PROVE  RingSpan(w, At(w, d) + i) = d + i
<1>1. w.lpos \in Int /\ WinBuf \in Nat /\ WinBuf >= 1
  BY SizeFacts DEF Ring
<1>2. w.lpos + d \in Int /\ i - w.lpos \in Int
  BY <1>1
<1>3. (((w.lpos + d) % WinBuf) + (i - w.lpos)) % WinBuf = ((w.lpos + d) + (i - w.lpos)) % WinBuf
  BY <1>2, RingPlus
<1>4. (w.lpos + d) + (i - w.lpos) = d + i /\ (d + i) % WinBuf = d + i
  BY <1>1
<1>5. At(w, d) \in Int
  BY AtInRing, <1>1 DEF Ring
<1>6. (At(w, d) + i) - w.lpos = At(w, d) + (i - w.lpos)
  BY <1>1, <1>5
<1> QED  BY <1>3, <1>4, <1>6 DEF At, RingSpan

\* Distances as the code computes them, without a wrap.
LEMMA SpanFacts ==
    ASSUME NEW w, NEW sn \in Nat, w.lsn \in Nat, w.lsn + 2 * Win < SnMod, sn + 2 * Win < SnMod
    PROVE  /\ w.lsn <= sn => /\ Span(w, sn) = sn - w.lsn /\ Ahead(w, sn) = sn - w.lsn
                             /\ WritePos(w, sn) = At(w, sn - w.lsn)
                             /\ ReadPos(w, sn) = At(w, sn - w.lsn)
           /\ sn < w.lsn => Span(w, sn) > Win /\ Ahead(w, sn) >= Win /\ Refuse(w, sn) = w
           /\ Span(w, sn) \in Nat
<1>1. Win \in Nat /\ Win >= 4 /\ SnMod \in Nat /\ SnMod >= 4 * Win
  BY SizeFacts
<1>2. CASE w.lsn <= sn
  <2>1. Span(w, sn) = sn - w.lsn
    BY <1>2 DEF Span
  <2>2. Ahead(w, sn) = sn - w.lsn
    BY <1>1, <1>2 DEF Ahead
  <2> QED  BY <1>1, <1>2, <2>1, <2>2 DEF WritePos, ReadPos, At
<1>3. CASE sn < w.lsn
  <2>1. Span(w, sn) = sn + (SnMod - 1 - w.lsn)
    BY <1>1, <1>3 DEF Span
  <2>2. Ahead(w, sn) = sn - w.lsn + SnMod
    BY <1>1, <1>3 DEF Ahead
  <2>3. (w.lsn + Win) % SnMod = w.lsn + Win
    BY <1>1
  <2>4. ~OutRight(w, sn)
    BY <1>1, <1>3, <2>3 DEF OutRight
  <2> QED  BY <1>1, <1>3, <2>1, <2>2, <2>4 DEF Refuse
<1> QED  BY <1>2, <1>3, <1>1

-----------------------------------------------------------------------------
(* Moving a window *)

\* MoveWin advances by whole words, and not into its reserve.
LEMMA StepFacts ==
    ASSUME NEW step \in Nat, NEW rsv \in Reserves
    PROVE  /\ ValidStep(step, rsv) \in Nat
           /\ step <= rsv => ValidStep(step, rsv) = 0
           /\ step > rsv => ValidStep(step, rsv) <= step - rsv
<1>1. rsv \in Nat /\ Block <= rsv /\ Block \in Nat
  BY ReserveFacts, SizeFacts
<1>2. CASE step <= rsv
  BY <1>1, <1>2 DEF ValidStep
<1>3. CASE step > rsv
  <2>1. ValidStep(step, rsv) = Floor(step - rsv) /\ step - rsv \in Nat
    BY <1>1, <1>3 DEF ValidStep
  <2> QED  BY <2>1, <1>1, <1>3, FloorFacts
<1> QED  BY <1>1, <1>2, <1>3

\* Steps of whole words, and of one number more, lose nothing but the reserve.
LEMMA WholeStep ==
    ASSUME NEW k \in Int, NEW i \in {0, 1}, NEW rsv \in Reserves, Block * k + i > rsv
    PROVE  ValidStep(Block * k + i, rsv) = Block * k - rsv
<1>1. rsv \in Nat /\ Block <= rsv /\ Block \in Nat /\ Block >= 2
  BY ReserveFacts, SizeFacts
<1>2. PICK m \in Nat : rsv = Block * m
  BY ReserveFacts
<1>3. Block * k \in Int /\ Block * m \in Int /\ Block * (k - m) = Block * k - Block * m
      /\ k - m \in Int
  BY <1>1, <1>2
<1>4. Block * (k - m) >= 0
  <2> SUFFICES ASSUME k - m <= -1  PROVE FALSE
    BY <1>1, <1>3
  <2>1. Block * (k - m) <= 0 - Block
    BY <1>1, <1>3
  <2> QED  BY <2>1, <1>1, <1>2, <1>3
<1>5. Floor(Block * (k - m) + i) = Block * (k - m)
  BY <1>3, <1>4, FloorWhole
<1>6. (Block * k + i) - rsv = Block * (k - m) + i
  BY <1>1, <1>2, <1>3
<1> QED  BY <1>1, <1>2, <1>3, <1>5, <1>6 DEF ValidStep

\* The words that MoveWin clears, and what it leaves.
Cleared(w, v) ==
    LET r == (w.lpos + Win) % WinBuf
        n == IF r + v < WinBuf THEN v ELSE v + Block
    IN  {(r + i) % WinBuf : i \in 0 .. n - 1}

Shifted(w, v) ==
    [w EXCEPT !.lpos = (@ + v) % WinBuf, !.lsn = (@ + v) % SnMod, !.bits = @ \ Cleared(w, v)]

LEMMA MoveWinIs ==
    ASSUME NEW w, NEW step, NEW rsv
    PROVE  MoveWin(w, step, rsv)
              = IF ValidStep(step, rsv) = 0 THEN w ELSE Shifted(w, ValidStep(step, rsv))
BY DEF MoveWin, Shifted, Cleared

LEMMA ShiftedFields ==
    ASSUME NEW w, DOMAIN w = WinFields, NEW v
    PROVE  /\ DOMAIN Shifted(w, v) = WinFields
           /\ Shifted(w, v).lpos = (w.lpos + v) % WinBuf
           /\ Shifted(w, v).lsn = (w.lsn + v) % SnMod
           /\ Shifted(w, v).bits = w.bits \ Cleared(w, v)
           /\ Shifted(w, v).maxSn = w.maxSn /\ Shifted(w, v).maxPos = w.maxPos
BY DEF Shifted, WinFields

\* What is cleared begins at the right border, covers the step and ends at
\* most a word behind it.
LEMMA ClearedFacts ==
    ASSUME NEW w, w.lpos \in Ring, NEW v \in Nat
    PROVE  /\ \A i \in 0 .. v - 1 : At(w, Win + i) \in Cleared(w, v)
           /\ \A x \in Cleared(w, v) : \E i \in 0 .. v + Block - 1 : x = At(w, Win + i)
<1> DEFINE r == (w.lpos + Win) % WinBuf
           n == IF r + v < WinBuf THEN v ELSE v + Block
<1>1. w.lpos \in Nat /\ Win \in Nat /\ Block \in Nat /\ w.lpos + Win \in Int
  BY SizeFacts DEF Ring
<1>2. \A i \in Nat : (r + i) % WinBuf = At(w, Win + i)
  <2> TAKE i \in Nat
  <2> DEFINE x == w.lpos + Win
  <2>0. x \in Int /\ r = x % WinBuf
    BY <1>1
  <2> HIDE DEF x, r
  <2>1. (r + i) % WinBuf = (x + i) % WinBuf
    BY <2>0, RingPlus
  <2> USE DEF x
  <2>2. (w.lpos + Win) + i = w.lpos + (Win + i)
    BY <1>1
  <2> QED  BY <2>1, <2>2 DEF At
<1>3. Cleared(w, v) = {(r + i) % WinBuf : i \in 0 .. n - 1}
  BY DEF Cleared
<1>4. n \in Nat /\ v <= n /\ n <= v + Block
  BY <1>1
<1> HIDE DEF r, n
<1>5. ASSUME NEW i \in 0 .. v - 1  PROVE At(w, Win + i) \in Cleared(w, v)
  <2>1. i \in 0 .. n - 1 /\ i \in Nat
    BY <1>4
  <2> QED  BY <1>2, <1>3, <2>1
<1>6. ASSUME NEW x \in Cleared(w, v)
      PROVE  \E i \in 0 .. v + Block - 1 : x = At(w, Win + i)
  <2>1. PICK i \in 0 .. n - 1 : x = (r + i) % WinBuf
    BY <1>3
  <2>2. i \in 0 .. v + Block - 1 /\ i \in Nat
    BY <1>1, <1>4
  <2> QED  BY <1>2, <2>1, <2>2
<1> QED  BY <1>5, <1>6

LEMMA ReachFacts ==
    ASSUME NEW w, WinShape(w)
    PROVE  /\ Reach(w) \in Nat /\ w.maxSn = w.lsn + Reach(w) /\ Reach(w) < Win
           /\ w.lsn \in Nat /\ w.maxSn \in Nat /\ w.lsn + 2 * Win < SnMod
           /\ w.lpos \in Ring /\ DOMAIN w = WinFields
<1>1. PICK r \in Reserves : Reach(w) < Half + r
  BY DEF WinShape
<1>2. r \in Nat /\ r + Block <= Half /\ Win = 2 * Half /\ Half \in Nat /\ Block \in Nat
  BY SizeFacts, ReserveFacts
<1>3. w.lsn \in Nat /\ w.maxSn \in Nat /\ w.lsn <= w.maxSn /\ w.maxSn + 2 * Win < SnMod
      /\ w.lpos \in Ring /\ DOMAIN w = WinFields /\ SnMod \in Nat
  BY SizeFacts DEF WinShape
<1>4. Reach(w) \in Nat /\ w.maxSn = w.lsn + Reach(w)
  BY <1>3 DEF Reach
<1> QED  BY <1>1, <1>2, <1>3, <1>4

\* A window that moves no further than to its newest number holds what it held.
LEMMA ShiftOk ==
    ASSUME NEW w, NEW A, WinOk(w, A), NEW v \in Nat, v <= Reach(w)
    PROVE  /\ WinOk(Shifted(w, v), A)
           /\ Shifted(w, v).lsn = w.lsn + v /\ Shifted(w, v).maxSn = w.maxSn
           /\ \A d \in Int : At(Shifted(w, v), d) = At(w, v + d)
<1> DEFINE u == Shifted(w, v)
<1>1. /\ Reach(w) \in Nat /\ w.maxSn = w.lsn + Reach(w) /\ Reach(w) < Win
      /\ w.lsn \in Nat /\ w.maxSn \in Nat /\ w.lsn + 2 * Win < SnMod
      /\ w.lpos \in Ring /\ DOMAIN w = WinFields
  BY ReachFacts DEF WinOk
<1>2. /\ DOMAIN u = WinFields /\ u.lpos = (w.lpos + v) % WinBuf
      /\ u.lsn = (w.lsn + v) % SnMod /\ u.bits = w.bits \ Cleared(w, v)
      /\ u.maxSn = w.maxSn /\ u.maxPos = w.maxPos
  BY <1>1, ShiftedFields
<1> HIDE DEF u
<1>3. Win \in Nat /\ Block \in Nat /\ Block <= Win /\ WinBuf = 2 * Win /\ SnMod \in Nat
      /\ w.lpos \in Nat
  BY <1>1, SizeFacts DEF Ring
<1>4. u.lsn = w.lsn + v
  BY <1>1, <1>2, <1>3
<1>5. \A d \in Int : At(u, d) = At(w, v + d)
  <2> TAKE d \in Int
  <2> DEFINE x == w.lpos + v
  <2>1. x \in Int /\ x + d = w.lpos + (v + d) /\ u.lpos = x % WinBuf
    BY <1>2, <1>3
  <2> HIDE DEF x
  <2>2. ((x % WinBuf) + d) % WinBuf = (x + d) % WinBuf
    BY <2>1, RingPlus
  <2> QED  BY <2>1, <2>2 DEF At
<1>6. u.lpos \in Ring
  <2>1. w.lpos + v \in Int
    BY <1>3
  <2> QED  BY <1>2, <2>1, RingPlus
<1>7. Reach(u) = Reach(w) - v /\ Reach(u) \in Nat
  BY <1>1, <1>2, <1>4 DEF Reach
<1>8. u.maxPos = At(u, Reach(u))
  <2>1. v + Reach(u) = Reach(w) /\ Reach(u) \in Int
    BY <1>1, <1>7
  <2>2. w.maxPos = At(w, Reach(w))
    BY DEF WinOk, WinShape
  <2> QED  BY <1>2, <1>5, <2>1, <2>2
<1>9. \E r \in Reserves : Reach(u) < Half + r
  <2>1. PICK r \in Reserves : Reach(w) < Half + r
    BY DEF WinOk, WinShape
  <2> QED  BY <2>1, <1>1, <1>7, ReserveFacts, SizeFacts
<1>10. WinShape(u)
  <2>1. u.maxSn \in Nat /\ u.lsn <= u.maxSn /\ u.maxSn + 2 * Win < SnMod /\ u.lsn \in Nat
    BY <1>1, <1>2, <1>3, <1>4 DEF WinOk, WinShape
  <2> QED  BY <2>1, <1>2, <1>6, <1>8, <1>9 DEF WinShape
<1>11. ASSUME NEW d \in 0 .. Win - 1
       PROVE  At(u, d) \in u.bits <=> u.lsn + d \in A
  <2> DEFINE e == v + d
  <2>1. e \in Nat /\ e >= v /\ At(u, d) = At(w, e) /\ u.lsn + d = w.lsn + e /\ e < v + Win
    BY <1>1, <1>3, <1>4, <1>5
  <2> HIDE DEF e
  <2>2. CASE e < Win
    <3>1. At(w, e) \in w.bits <=> w.lsn + e \in A
      BY <2>1, <2>2, <1>3 DEF WinOk, Holds
    <3>2. At(w, e) \notin Cleared(w, v)
      <4> SUFFICES ASSUME At(w, e) \in Cleared(w, v)  PROVE FALSE
        OBVIOUS
      <4>1. PICK i \in 0 .. v + Block - 1 : At(w, e) = At(w, Win + i)
        BY <1>1, ClearedFacts
      <4>2. Win + i \in Int /\ e < Win + i /\ Win + i < e + WinBuf
        BY <1>3, <2>1, <2>2
      <4> QED  BY <1>1, <2>1, <4>1, <4>2, AtDiffer
    <3> QED  BY <2>1, <3>1, <3>2, <1>2
  <2>3. CASE e >= Win
    <3>1. e - Win \in 0 .. v - 1 /\ Win + (e - Win) = e
      BY <1>3, <2>1, <2>3
    <3>2. At(w, e) \in Cleared(w, v)
      BY <3>1, <1>1, ClearedFacts
    <3>3. w.lsn + e \notin A
      <4>1. w.lsn + e > w.maxSn
        BY <1>1, <1>3, <2>1, <2>3
      <4> QED  BY <4>1, <1>1, <2>1 DEF WinOk, Holds
    <3> QED  BY <2>1, <3>2, <3>3, <1>2
  <2> QED  BY <2>1, <2>2, <2>3, <1>3
<1>12. Holds(u, A)
  <2>1. A = {} => u.maxSn = u.lsn
    BY <1>1, <1>2, <1>4 DEF WinOk, Holds
  <2> QED  BY <1>2, <1>11, <2>1 DEF WinOk, Holds
<1> QED  BY <1>2, <1>4, <1>5, <1>10, <1>12 DEF WinOk, u

LEMMA MoveOk ==
    ASSUME NEW w, NEW A, WinOk(w, A), NEW step \in Nat, NEW rsv \in Reserves,
           ValidStep(step, rsv) <= Reach(w)
    PROVE  LET u == MoveWin(w, step, rsv)
               v == ValidStep(step, rsv)
           IN  /\ WinOk(u, A) /\ u.lsn = w.lsn + v /\ u.maxSn = w.maxSn
               /\ \A d \in Int : At(u, d) = At(w, v + d)
<1> DEFINE v == ValidStep(step, rsv)
<1>1. v \in Nat
  BY StepFacts
<1>2. w.lsn \in Nat
  BY ReachFacts DEF WinOk
<1>3. MoveWin(w, step, rsv) = IF v = 0 THEN w ELSE Shifted(w, v)
  BY MoveWinIs
<1>4. v <= Reach(w)
  OBVIOUS
<1> HIDE DEF v
<1>5. CASE v = 0
  <2>1. MoveWin(w, step, rsv) = w /\ w.lsn + v = w.lsn /\ \A d \in Int : v + d = d
    BY <1>2, <1>3, <1>5
  <2> QED  BY <2>1 DEF v
<1>6. CASE v # 0
  BY <1>1, <1>3, <1>4, <1>6, ShiftOk DEF v
<1> QED  BY <1>5, <1>6

-----------------------------------------------------------------------------
(* Loss calculation and entries *)

\* u is w moved to the right, by whole words, with its reserve kept.
Advanced(w, u) ==
    /\ w.lsn <= u.lsn /\ w.maxSn <= u.maxSn
    /\ u.lsn = w.lsn \/ \E r \in Reserves : Reach(u) >= r - 1

LEMMA ScanFacts ==
    ASSUME NEW w, WinShape(w), NEW step \in 0 .. MaxScan(w), NEW rsv \in Reserves
    PROVE  LET v == ValidStep(step, rsv)
           IN  step \in Nat /\ v \in Nat /\ v <= Reach(w) /\ (v = 0 \/ Reach(w) - v >= rsv - 1)
<1> DEFINE v == ValidStep(step, rsv)
           t == Reach(w) + 1
<1>1. Reach(w) \in Nat /\ Reach(w) < Win /\ w.lpos \in Ring
  BY ReachFacts
<1>2. Block \in Nat /\ Block >= 2 /\ Win \in Nat /\ WinBuf = 2 * Win
      /\ rsv \in Nat /\ Block <= rsv
  BY SizeFacts, ReserveFacts
<1>3. RingSpan(w, w.maxPos + 1) = t
  <2>1. w.maxPos = At(w, Reach(w)) /\ Reach(w) + 1 < WinBuf
    BY <1>1, <1>2 DEF WinShape
  <2> QED  BY <1>1, <2>1, RingSpanAt
<1>4. MaxScan(w) = IF t % Block = 0 THEN t + 1 ELSE t
  BY <1>3 DEF MaxScan
<1>5. t \in Nat /\ step \in Nat /\ v \in Nat
  <2>1. t \in Nat
    BY <1>1
  <2>2. MaxScan(w) \in Nat
    BY <2>1, <1>4
  <2>3. step \in Nat
    BY <2>2
  <2> QED  BY <2>1, <2>3, StepFacts
<1>6. CASE step <= t
  <2>1. step <= rsv => v = 0
    BY <1>5, StepFacts
  <2>2. step > rsv => v <= step - rsv
    BY <1>5, StepFacts
  <2> HIDE DEF v
  <2>3. v = 0 \/ v <= t - rsv
    BY <1>2, <1>5, <1>6, <2>1, <2>2
  <2>4. v <= Reach(w) /\ (v = 0 \/ Reach(w) - v >= rsv - 1)
    BY <1>1, <1>2, <1>5, <2>3
  <2> QED  BY <1>5, <2>4 DEF v
<1>7. CASE ~(step <= t)
  <2>1. t % Block = 0 /\ step = t + 1
    BY <1>4, <1>5, <1>7
  <2> HIDE DEF t
  <2>b. t \in Int /\ Block \in Nat /\ Block >= 1
    BY <1>2, <1>5
  <2>2. PICK q \in Int, r \in 0 .. Block - 1 : t = Block * q + r /\ (t % Block) = r
    BY <2>b, DivMod
  <2>3. Block * q \in Int /\ t = Block * q /\ step = Block * q + 1
    BY <1>2, <1>5, <2>1, <2>2
  <2>4. CASE step <= rsv
    BY <1>1, <1>5, <2>4, StepFacts
  <2>5. CASE step > rsv
    <3>1. v = t - rsv
      BY <2>3, <2>5, WholeStep
    <3> HIDE DEF v
    <3>2. v <= Reach(w) /\ Reach(w) - v >= rsv - 1
      BY <1>1, <1>2, <3>1 DEF t
    <3> QED  BY <1>5, <3>2 DEF v
  <2> QED  BY <1>2, <1>5, <2>4, <2>5
<1> QED  BY <1>5, <1>6, <1>7

LEMMA CalcOk ==
    ASSUME NEW w, NEW A, WinOk(w, A), NEW rsv \in Reserves, NEW u \in CalcRcvLoss(w, rsv)
    PROVE  WinOk(u, A) /\ u.maxSn = w.maxSn /\ Advanced(w, u)
<1>1. PICK step \in 0 .. MaxScan(w) : u = MoveWin(w, step, rsv)
  BY DEF CalcRcvLoss
<1> DEFINE v == ValidStep(step, rsv)
<1>2. step \in Nat /\ v \in Nat /\ v <= Reach(w) /\ (v = 0 \/ Reach(w) - v >= rsv - 1)
  BY ScanFacts DEF WinOk
<1>3. WinOk(u, A) /\ u.lsn = w.lsn + v /\ u.maxSn = w.maxSn
  BY <1>1, <1>2, MoveOk
<1>4. w.lsn \in Nat /\ w.maxSn \in Nat /\ w.maxSn = w.lsn + Reach(w) /\ Reach(w) \in Nat
  BY ReachFacts DEF WinOk
<1> HIDE DEF v
<1>5. Reach(u) = Reach(w) - v
  BY <1>2, <1>3, <1>4 DEF Reach
<1> QED  BY <1>2, <1>3, <1>4, <1>5 DEF Advanced

\* sn is no further ahead of the newest number than the room of the window.
Near(w, sn) == \A r \in Reserves : sn + r <= w.maxSn + Half

\* How SnEntryWin moves the window for a number at distance s.
LEMMA EntryStep ==
    ASSUME NEW w, WinShape(w), NEW s \in Nat, NEW rsv \in Reserves, Near(w, w.lsn + s)
    PROVE  LET step == MoveStep(w, At(w, s))
               v == ValidStep(step, rsv)
           IN  /\ s < Win /\ step \in Nat /\ step <= MaxMove
               /\ v \in Nat /\ v <= s /\ v <= Reach(w)
               /\ s - v < Half + rsv /\ (v = 0 \/ s - v >= rsv - 1)
<1> DEFINE step == MoveStep(w, At(w, s))
           v == ValidStep(step, rsv)
<1>1. /\ Reach(w) \in Nat /\ w.maxSn = w.lsn + Reach(w) /\ w.lsn \in Nat /\ w.lpos \in Ring
  BY ReachFacts
<1>2. /\ Block \in Nat /\ Block >= 2 /\ Half \in Nat /\ Win = 2 * Half /\ WinBuf = 2 * Win
      /\ rsv \in Nat /\ Block <= rsv /\ rsv + Block <= Half
  BY SizeFacts, ReserveFacts
<1>3. s + rsv <= Reach(w) + Half
  BY <1>1, <1>2 DEF Near
<1>4. s < Win
  <2>1. PICK r \in Reserves : Reach(w) < Half + r
    BY DEF WinShape
  <2>2. r \in Nat
    BY ReserveFacts
  <2>3. s + r <= Reach(w) + Half
    BY <1>1, <1>2, <2>2 DEF Near
  <2> QED  BY <1>1, <1>2, <2>1, <2>2, <2>3
<1>5. Half <= MaxMove /\ MaxMove \in Nat
  BY <1>2 DEF MaxMove
<1>6. RingSpan(w, At(w, s)) = s
  <2>1. RingSpan(w, At(w, s) + 0) = s + 0
    BY <1>1, <1>2, <1>4, RingSpanAt
  <2>2. At(w, s) + 0 = At(w, s)
    BY <1>1, <1>2, AtInRing DEF Ring
  <2> QED  BY <2>1, <2>2
<1>7. CASE s < Half
  <2>1. step = 0
    BY <1>6, <1>7 DEF MoveStep
  <2>2. v = 0
    BY <1>2, <2>1, StepFacts
  <2> HIDE DEF step, v
  <2>3. s < Half + rsv /\ s - v = s /\ step <= MaxMove /\ v <= s /\ v <= Reach(w)
    BY <1>1, <1>2, <1>5, <1>7, <2>1, <2>2
  <2> QED  BY <1>4, <2>1, <2>2, <2>3 DEF step, v
<1>8. CASE s >= Half
  <2>1. s - Half \in Nat
    BY <1>2, <1>8
  <2>2. step = Floor(s - Half) + Block
    BY <1>2, <1>6, <1>8 DEF MoveStep
  <2>3. PICK k \in Int : Floor(s - Half) = Block * k
    BY <2>1, FloorFacts
  <2>4. /\ Floor(s - Half) \in Nat /\ Floor(s - Half) <= s - Half
        /\ s - Half < Floor(s - Half) + Block
    BY <2>1, FloorFacts
  <2>5. k + 1 \in Int /\ step = Block * (k + 1)
    BY <1>2, <2>2, <2>3
  <2>6. step <= Half
    <3>1. PICK h \in Nat : Half = Block * h
      BY SizeFacts
    <3>2. Block * k < Block * h
      BY <1>2, <1>4, <2>3, <2>4, <3>1
    <3>3. k + 1 <= h
      <4> SUFFICES ASSUME k >= h  PROVE FALSE
        OBVIOUS
      <4>1. Block * k >= Block * h
        BY <1>2
      <4> QED  BY <1>2, <3>2, <4>1
    <3>4. Block * (k + 1) <= Block * h
      BY <1>2, <3>3
    <3> QED  BY <2>5, <3>1, <3>4
  <2>7. step \in Nat /\ step <= MaxMove
    BY <1>2, <1>5, <2>2, <2>4, <2>6 DEF MaxMove
  <2>8. v = IF step <= rsv THEN 0 ELSE step - rsv
    <3>1. CASE step <= rsv
      BY <3>1, <2>7, StepFacts
    <3>2. CASE step > rsv
      <4>1. Block * (k + 1) + 0 = step
        BY <2>5, <2>7
      <4>2. ValidStep(Block * (k + 1) + 0, rsv) = Block * (k + 1) - rsv
        BY <4>1, <3>2, <2>5, WholeStep
      <4> QED  BY <1>2, <2>5, <2>7, <3>2, <4>1, <4>2
    <3> QED  BY <3>1, <3>2, <2>7, <1>2
  <2> HIDE DEF step, v
  <2>9. CASE step <= rsv
    <3>1. v = 0 /\ s < Half + rsv
      BY <1>2, <2>1, <2>2, <2>4, <2>7, <2>8, <2>9
    <3>2. /\ s < Win /\ step \in Nat /\ step <= MaxMove /\ v \in Nat /\ v <= s /\ v <= Reach(w)
          /\ s - v < Half + rsv /\ (v = 0 \/ s - v >= rsv - 1)
      BY <1>1, <1>4, <2>7, <3>1
    <3> QED  BY <3>2 DEF step, v
  <2>10. CASE step > rsv
    <3>1. v = step - rsv /\ v \in Nat
      BY <1>2, <2>7, <2>8, <2>10
    <3>2. v <= (s - Half) + Block - rsv /\ v > s - Half - rsv
      BY <1>2, <2>1, <2>2, <2>4, <3>1
    <3>3. /\ v <= s /\ v <= Reach(w)
          /\ s - v < Half + rsv /\ (v = 0 \/ s - v >= rsv - 1)
      BY <1>1, <1>2, <1>3, <3>1, <3>2
    <3> QED  BY <1>4, <2>7, <3>1, <3>3 DEF step, v
  <2> QED  BY <1>2, <2>7, <2>9, <2>10
<1> QED  BY <1>2, <1>7, <1>8

Rested(w) == [w EXCEPT !.outr = 0]
Marked(w, pos) == [w EXCEPT !.bits = @ \cup {pos}]
Newest(w, pos, sn) == [w EXCEPT !.maxSn = sn, !.maxPos = pos]

LEMMA RestedOk ==
    ASSUME NEW w, NEW A, WinOk(w, A)
    PROVE  /\ WinOk(Rested(w), A) /\ Reach(Rested(w)) = Reach(w)
           /\ Rested(w).lsn = w.lsn /\ Rested(w).maxSn = w.maxSn
           /\ \A d \in Int : At(Rested(w), d) = At(w, d)
<1> DEFINE u == Rested(w)
<1>1. DOMAIN w = WinFields
  BY DEF WinOk, WinShape
<1>2. /\ DOMAIN u = WinFields /\ u.lpos = w.lpos /\ u.lsn = w.lsn /\ u.bits = w.bits
      /\ u.maxSn = w.maxSn /\ u.maxPos = w.maxPos
  BY <1>1 DEF Rested, WinFields
<1> HIDE DEF u
<1>3. Reach(u) = Reach(w)
  BY <1>2 DEF Reach
<1>4. \A d : At(u, d) = At(w, d)
  BY <1>2 DEF At
<1>5. WinShape(u)
  BY <1>2, <1>3, <1>4 DEF WinOk, WinShape
<1>6. Holds(u, A)
  BY <1>2, <1>4 DEF WinOk, Holds
<1> QED  BY <1>2, <1>3, <1>4, <1>5, <1>6 DEF WinOk, u

\* Setting the bit of a number between the borders, and the newest number.
LEMMA MarkOk ==
    ASSUME NEW w, NEW A, WinOk(w, A), NEW sn \in Nat, sn + 2 * Win < SnMod, w.lsn <= sn,
           NEW e \in Nat, sn = w.lsn + e, NEW rsv \in Reserves, e < Half + rsv
    PROVE  LET pos == At(w, e)
               u == UpdateMaxSnPos(Marked(w, pos), pos, sn)
           IN  /\ WinOk(u, A \cup {sn}) /\ u.lsn = w.lsn
               /\ u.maxSn = IF w.maxSn <= sn THEN sn ELSE w.maxSn
<1> DEFINE pos == At(w, e)
           m == Marked(w, pos)
           u == UpdateMaxSnPos(m, pos, sn)
<1>1. /\ Reach(w) \in Nat /\ w.maxSn = w.lsn + Reach(w) /\ Reach(w) < Win
      /\ w.lsn \in Nat /\ w.maxSn \in Nat /\ w.lpos \in Ring /\ DOMAIN w = WinFields
  BY ReachFacts DEF WinOk
<1>2. /\ Win \in Nat /\ Half \in Nat /\ Win = 2 * Half /\ WinBuf = 2 * Win /\ SnMod \in Nat
      /\ rsv \in Nat /\ rsv + Block <= Half /\ Block \in Nat
  BY SizeFacts, ReserveFacts
<1>3. e < Win
  BY <1>2
<1>4. pos \in Ring
  BY <1>1, AtInRing
<1>5. w.maxPos = At(w, Reach(w)) /\ w.maxPos \in Ring
  <2>1. w.maxPos = At(w, Reach(w))
    BY DEF WinOk, WinShape
  <2> QED  BY <1>1, <2>1, AtInRing
<1>6. /\ DOMAIN m = WinFields /\ m.lpos = w.lpos /\ m.lsn = w.lsn
      /\ m.bits = w.bits \cup {pos} /\ m.maxSn = w.maxSn /\ m.maxPos = w.maxPos
  BY <1>1 DEF Marked, WinFields
<1>7. RingSpan(m, pos) = e
  <2>1. RingSpan(w, At(w, e) + 0) = e + 0
    BY <1>1, <1>2, <1>3, RingSpanAt
  <2>2. pos + 0 = pos /\ e + 0 = e
    BY <1>2, <1>4 DEF Ring
  <2>3. RingSpan(m, pos) = RingSpan(w, pos)
    BY <1>6 DEF RingSpan
  <2> QED  BY <2>1, <2>2, <2>3
<1>8. RingSpan(m, m.maxPos) = Reach(w)
  <2>1. RingSpan(w, At(w, Reach(w)) + 0) = Reach(w) + 0
    BY <1>1, <1>2, RingSpanAt
  <2>2. w.maxPos + 0 = w.maxPos /\ Reach(w) + 0 = Reach(w)
    BY <1>1, <1>2, <1>5 DEF Ring
  <2>3. RingSpan(m, m.maxPos) = RingSpan(w, w.maxPos)
    BY <1>6 DEF RingSpan
  <2> QED  BY <1>5, <2>1, <2>2, <2>3
<1>9. u = IF w.maxSn <= sn THEN Newest(m, pos, sn) ELSE m
  <2>1. u = IF RingSpan(m, pos) <= Win /\ RingSpan(m, m.maxPos) <= RingSpan(m, pos)
            THEN Newest(m, pos, sn) ELSE m
    BY DEF UpdateMaxSnPos, Newest
  <2>2. (e <= Win /\ Reach(w) <= e) <=> w.maxSn <= sn
    BY <1>1, <1>2, <1>3
  <2> QED  BY <2>1, <2>2, <1>7, <1>8
<1> HIDE DEF m
<1>10. /\ DOMAIN u = WinFields /\ u.lpos = w.lpos /\ u.lsn = w.lsn
       /\ u.bits = w.bits \cup {pos}
       /\ u.maxSn = (IF w.maxSn <= sn THEN sn ELSE w.maxSn)
       /\ u.maxPos = (IF w.maxSn <= sn THEN pos ELSE w.maxPos)
  <2> HIDE DEF u, pos
  <2>1. CASE w.maxSn <= sn
    BY <1>6, <1>9, <2>1 DEF Newest, WinFields
  <2>2. CASE ~(w.maxSn <= sn)
    BY <1>6, <1>9, <2>2
  <2> QED  BY <2>1, <2>2
<1> HIDE DEF u, pos
<1>11. \A d : At(u, d) = At(w, d)
  BY <1>10 DEF At
<1>12. WinShape(u)
  <2>1. CASE w.maxSn <= sn
    <3>1. Reach(u) = e
      BY <1>1, <1>10, <2>1 DEF Reach
    <3>2. u.maxPos = At(u, Reach(u))
      BY <1>10, <1>11, <2>1, <3>1 DEF pos
    <3>3. \E r \in Reserves : Reach(u) < Half + r
      BY <3>1
    <3> QED  BY <1>1, <1>10, <2>1, <3>2, <3>3 DEF WinShape
  <2>2. CASE ~(w.maxSn <= sn)
    <3>1. Reach(u) = Reach(w)
      BY <1>1, <1>10, <2>2 DEF Reach
    <3> QED  BY <1>10, <1>11, <2>2, <3>1 DEF WinShape, WinOk
  <2> QED  BY <2>1, <2>2
<1>13. ASSUME NEW d \in 0 .. Win - 1
       PROVE  At(u, d) \in u.bits <=> u.lsn + d \in A \cup {sn}
  <2>1. At(w, d) \in w.bits <=> w.lsn + d \in A
    BY DEF WinOk, Holds
  <2>2. d \in Nat /\ d < Win
    BY <1>2
  <2>3. At(w, d) = pos <=> d = e
    <3>1. CASE d = e
      BY <3>1 DEF pos
    <3>2. CASE d < e
      BY <1>1, <1>2, <1>3, <2>2, <3>2, AtDiffer DEF pos
    <3>3. CASE e < d
      BY <1>1, <1>2, <1>3, <2>2, <3>3, AtDiffer DEF pos
    <3> QED  BY <2>2, <3>1, <3>2, <3>3
  <2>4. w.lsn + d = sn <=> d = e
    BY <1>1, <2>2
  <2> QED  BY <1>10, <1>11, <2>1, <2>3, <2>4
<1>14. \A a \in A \cup {sn} : a \in Nat /\ a <= u.maxSn
  <2>1. \A a \in A : a \in Nat /\ a <= w.maxSn
    BY DEF WinOk, Holds
  <2> QED  BY <1>1, <1>10, <2>1
<1>15. u.maxSn \in A \cup {sn}
  <2>1. CASE w.maxSn <= sn
    BY <1>10, <2>1
  <2>2. CASE ~(w.maxSn <= sn)
    \* Then there was a newest number before, since the border is not beyond sn.
    <3>1. A # {}
      <4>1. A = {} => w.maxSn = w.lsn
        BY DEF WinOk, Holds
      <4> QED  BY <2>2, <4>1
    <3> QED  BY <1>10, <2>2, <3>1 DEF WinOk, Holds
  <2> QED  BY <2>1, <2>2
<1>16. Holds(u, A \cup {sn})
  BY <1>13, <1>14, <1>15 DEF Holds
<1> QED  BY <1>10, <1>12, <1>16 DEF WinOk, u, pos, m

Newer(a, b) == IF a <= b THEN b ELSE a

LEMMA RecordOk ==
    ASSUME NEW w, NEW A, WinOk(w, A), NEW sn \in Nat, sn + 2 * Win < SnMod, w.lsn <= sn,
           Near(w, sn), NEW rsv \in Reserves
    PROVE  LET u == Record(w, sn, rsv)
           IN  /\ WinOk(u, A \cup {sn}) /\ u.maxSn = Newer(w.maxSn, sn) /\ Advanced(w, u)
               /\ Span(w, sn) < Win /\ MoveStep(w, WritePos(w, sn)) <= MaxMove
<1> DEFINE s == sn - w.lsn
           pos == At(w, s)
           step == MoveStep(w, pos)
           v == ValidStep(step, rsv)
           c == MoveWin(Rested(w), step, rsv)
           u == UpdateMaxSnPos(Marked(c, pos), pos, sn)
<1>1. /\ Reach(w) \in Nat /\ w.maxSn = w.lsn + Reach(w) /\ w.lsn \in Nat /\ w.maxSn \in Nat
      /\ w.lsn + 2 * Win < SnMod
  BY ReachFacts DEF WinOk
<1>2. s \in Nat /\ sn = w.lsn + s
  BY <1>1
<1>3. Span(w, sn) = s /\ WritePos(w, sn) = pos
  BY <1>1, SpanFacts
<1>4. /\ s < Win /\ step \in Nat /\ step <= MaxMove
      /\ v \in Nat /\ v <= s /\ v <= Reach(w)
      /\ s - v < Half + rsv /\ (v = 0 \/ s - v >= rsv - 1)
  <2>1. Near(w, w.lsn + s) /\ WinShape(w)
    BY <1>2 DEF WinOk
  <2> HIDE DEF s
  <2> QED  BY <1>2, <2>1, EntryStep
<1>5. Record(w, sn, rsv) = u
  BY <1>3 DEF Record, Rested, Marked
<1> HIDE DEF step
<1>6. /\ WinOk(Rested(w), A) /\ Reach(Rested(w)) = Reach(w)
      /\ Rested(w).lsn = w.lsn /\ Rested(w).maxSn = w.maxSn
      /\ \A d \in Int : At(Rested(w), d) = At(w, d)
  BY RestedOk
<1>7. /\ WinOk(c, A) /\ c.lsn = w.lsn + v /\ c.maxSn = w.maxSn
      /\ \A d \in Int : At(c, d) = At(Rested(w), v + d)
  BY <1>4, <1>6, MoveOk
<1> DEFINE e == s - v
<1>8. e \in Nat /\ sn = c.lsn + e /\ c.lsn <= sn /\ e < Half + rsv
  BY <1>1, <1>2, <1>4, <1>7
<1>9. pos = At(c, e)
  <2>1. v + e = s /\ e \in Int /\ s \in Int
    BY <1>2, <1>4
  <2> HIDE DEF e, v, s, c
  <2> QED  BY <1>6, <1>7, <2>1 DEF pos
<1> HIDE DEF e, c, pos, v, s
<1>10. /\ WinOk(u, A \cup {sn}) /\ u.lsn = c.lsn
       /\ u.maxSn = IF c.maxSn <= sn THEN sn ELSE c.maxSn
  BY <1>7, <1>8, <1>9, MarkOk
<1> HIDE DEF u
<1>11. Advanced(w, u)
  <2>1. u.lsn = w.lsn + v /\ u.maxSn >= sn /\ u.maxSn >= w.maxSn
    BY <1>1, <1>7, <1>10
  <2>2. rsv \in Nat /\ u.maxSn \in Nat
    BY <1>1, <1>7, <1>10, ReserveFacts
  <2>3. v = 0 \/ Reach(u) >= rsv - 1
    BY <1>1, <1>2, <1>4, <2>1, <2>2 DEF Reach
  <2>4. u.lsn = w.lsn \/ \E r \in Reserves : Reach(u) >= r - 1
    BY <1>1, <2>1, <2>3
  <2> QED  BY <1>1, <1>4, <2>1, <2>4 DEF Advanced
<1>12. u.maxSn = Newer(w.maxSn, sn)
  BY <1>7, <1>10 DEF Newer
<1> QED  BY <1>3, <1>4, <1>5, <1>10, <1>11, <1>12 DEF step

\* A number left of the window changes nothing that the window says.
LEMMA OldOk ==
    ASSUME NEW w, NEW A, WinOk(w, A), NEW sn \in Nat, sn < w.lsn, A # {}
    PROVE  WinOk(w, A \cup {sn}) /\ w.maxSn = Newer(w.maxSn, sn)
<1>1. w.lsn \in Nat /\ w.maxSn \in Nat /\ w.lsn <= w.maxSn
  BY DEF WinOk, WinShape
<1>2. \A d \in 0 .. Win - 1 : w.lsn + d # sn
  BY <1>1, SizeFacts
<1>3. Holds(w, A \cup {sn})
  BY <1>1, <1>2 DEF WinOk, Holds
<1> QED  BY <1>1, <1>3 DEF WinOk, Newer

\* What SnEntryWin leaves behind.
LEMMA EntryOk ==
    ASSUME NEW w, NEW A, WinOk(w, A), NEW sn \in Nat, sn + 2 * Win < SnMod, Near(w, sn),
           A = {} => w.lsn <= sn, NEW rsv \in Reserves, NEW u \in SnEntryWin(w, sn, rsv)
    PROVE  WinOk(u, A \cup {sn}) /\ u.maxSn = Newer(w.maxSn, sn) /\ Advanced(w, u)
<1>1. w.lsn \in Nat /\ w.maxSn \in Nat /\ w.lsn + 2 * Win < SnMod /\ Win \in Nat
  BY ReachFacts, SizeFacts DEF WinOk
<1>2. CASE sn < w.lsn
  <2>1. Span(w, sn) > Win /\ Refuse(w, sn) = w
    BY <1>1, <1>2, SpanFacts
  <2>2. u = w
    BY <2>1 DEF SnEntryWin
  <2>3. Advanced(w, w)
    BY <1>1 DEF Advanced
  <2>4. A # {}
    BY <1>1, <1>2
  <2> QED  BY <1>2, <2>2, <2>3, <2>4, OldOk
<1>3. CASE w.lsn <= sn
  <2> DEFINE z == Record(w, sn, rsv)
  <2>1. /\ WinOk(z, A \cup {sn}) /\ z.maxSn = Newer(w.maxSn, sn) /\ Advanced(w, z)
        /\ Span(w, sn) < Win /\ MoveStep(w, WritePos(w, sn)) <= MaxMove
    BY <1>3, RecordOk
  <2>2. Span(w, sn) \in Nat
    BY <1>1, SpanFacts
  <2>3. MoveStep(w, WritePos(w, sn)) \in Int /\ MaxMove \in Int
    <3>1. Span(w, sn) = sn - w.lsn /\ WritePos(w, sn) = At(w, sn - w.lsn)
      BY <1>1, <1>3, SpanFacts
    <3>2. sn - w.lsn \in Nat /\ sn = w.lsn + (sn - w.lsn)
      BY <1>1, <1>3
    <3>3. MoveStep(w, At(w, sn - w.lsn)) \in Nat
      <4> DEFINE s == sn - w.lsn
      <4>1. s \in Nat /\ Near(w, w.lsn + s) /\ WinShape(w)
        BY <3>2 DEF WinOk
      <4> HIDE DEF s
      <4>2. MoveStep(w, At(w, s)) \in Nat
        BY <4>1, EntryStep
      <4> QED  BY <4>2 DEF s
    <3> QED  BY <3>1, <3>3, SizeFacts DEF MaxMove
  <2>4. u \in CalcRcvLoss(z, rsv)
    BY <1>1, <2>1, <2>2, <2>3 DEF SnEntryWin
  <2> HIDE DEF z
  <2>5. WinOk(u, A \cup {sn}) /\ u.maxSn = z.maxSn /\ Advanced(z, u)
    BY <2>1, <2>4, CalcOk
  <2>6. Advanced(w, u)
    <3>1. z.lsn \in Nat /\ u.lsn \in Nat /\ z.maxSn \in Nat /\ u.maxSn \in Nat
      BY <2>1, <2>5, ReachFacts DEF WinOk
    <3>2. u.lsn = z.lsn => Reach(u) = Reach(z)
      BY <2>5 DEF Reach
    <3> QED  BY <1>1, <2>1, <2>5, <3>1, <3>2 DEF Advanced
  <2> QED  BY <2>1, <2>5, <2>6
<1> QED  BY <1>1, <1>2, <1>3

-----------------------------------------------------------------------------
(* The answers of a window *)

LEMMA RepeatKnown ==
    ASSUME NEW w, NEW A, WinOk(w, A), NEW sn \in A
    PROVE  IsRepeat(w, sn)
<1>1. /\ Reach(w) \in Nat /\ w.maxSn = w.lsn + Reach(w) /\ Reach(w) < Win
      /\ w.lsn \in Nat /\ w.maxSn \in Nat /\ w.lsn + 2 * Win < SnMod
  BY ReachFacts DEF WinOk
<1>2. Win \in Nat /\ SnMod \in Nat /\ w.maxSn + 2 * Win < SnMod
  BY SizeFacts DEF WinOk, WinShape
<1>3. sn \in Nat /\ sn <= w.maxSn /\ sn + 2 * Win < SnMod
  BY <1>1, <1>2 DEF WinOk, Holds
<1>4. CASE sn < w.lsn
  <2>1. Span(w, sn) > Win /\ Span(w, sn) \in Nat
    BY <1>1, <1>3, <1>4, SpanFacts
  <2> QED  BY <1>2, <2>1 DEF IsRepeat
<1>5. CASE w.lsn <= sn
  <2>1. Span(w, sn) = sn - w.lsn /\ ReadPos(w, sn) = At(w, sn - w.lsn)
    BY <1>1, <1>3, <1>5, SpanFacts
  <2>2. Span(w, w.maxSn) = w.maxSn - w.lsn
    BY <1>1, <1>2, SpanFacts
  <2> DEFINE d == sn - w.lsn
  <2>3. d \in 0 .. Win - 1 /\ w.lsn + d = sn
    BY <1>1, <1>2, <1>3, <1>5
  <2>4. At(w, d) \in w.bits
    <3> HIDE DEF d
    <3> QED  BY <2>3 DEF WinOk, Holds
  <2> QED  BY <1>1, <1>3, <2>1, <2>2, <2>4 DEF IsRepeat
<1> QED  BY <1>1, <1>3, <1>4, <1>5

LEMMA NearInside ==
    ASSUME NEW w, WinShape(w), NEW sn \in Nat, Near(w, sn), w.lsn <= sn
    PROVE  sn - w.lsn \in 0 .. Win - 1
<1>1. w.lsn \in Nat /\ Win \in Nat
  BY ReachFacts, SizeFacts
<1> DEFINE s == sn - w.lsn
<1>2. s \in Nat /\ w.lsn + s = sn
  BY <1>1
<1> HIDE DEF s
<1>3. PICK r : r \in Reserves
  BY ReservesAssumption
<1>4. s < Win
  BY <1>2, <1>3, EntryStep
<1> QED  BY <1>1, <1>2, <1>4 DEF s

LEMMA RepeatOnly ==
    ASSUME NEW w, NEW A, WinOk(w, A), NEW sn \in Nat, sn + 2 * Win < SnMod, Near(w, sn),
           w.lsn <= sn, IsRepeat(w, sn)
    PROVE  sn \in A
<1>1. w.lsn \in Nat /\ w.lsn + 2 * Win < SnMod /\ Win \in Nat
  BY ReachFacts, SizeFacts DEF WinOk
<1> DEFINE d == sn - w.lsn
<1>2. d \in 0 .. Win - 1
  BY NearInside DEF WinOk
<1>3. Span(w, sn) = d /\ ReadPos(w, sn) = At(w, d)
  BY <1>1, SpanFacts
<1>4. At(w, d) \in w.bits
  BY <1>1, <1>2, <1>3 DEF IsRepeat
<1>5. w.lsn + d = sn
  BY <1>1
<1> HIDE DEF d
<1> QED  BY <1>2, <1>4, <1>5 DEF WinOk, Holds

LEMMA ResetOk ==
    ASSUME NEW w, NEW n \in Nat, n + 2 * Win < SnMod
    PROVE  LET u == ResetWin(w, n)
           IN  WinOk(u, {}) /\ u.lsn = n /\ u.maxSn = n
<1> DEFINE u == ResetWin(w, n)
<1>1. /\ DOMAIN u = WinFields /\ u.lpos = 0 /\ u.lsn = n /\ u.bits = w.bits \ (0 .. Win - 1)
      /\ u.maxSn = n /\ u.maxPos = 0
  BY DEF ResetWin, WinFields
<1> HIDE DEF u
<1>2. Win \in Nat /\ WinBuf = 2 * Win /\ WinBuf >= 1 /\ Half \in Nat
  BY SizeFacts
<1>3. \A d \in 0 .. Win - 1 : At(u, d) = d
  BY <1>1, <1>2 DEF At
<1>4. Reach(u) = 0 /\ At(u, Reach(u)) = 0
  BY <1>1, <1>2 DEF Reach, At
<1>5. PICK r \in Reserves : r \in Nat /\ r >= 1
  <2>1. PICK r : r \in Reserves
    BY ReservesAssumption
  <2> QED  BY <2>1, ReserveFacts, SizeFacts
<1>6. \E q \in Reserves : Reach(u) < Half + q
  BY <1>2, <1>4, <1>5
<1>7. WinShape(u)
  BY <1>1, <1>2, <1>4, <1>6 DEF WinShape, Ring
<1>8. Holds(u, {})
  BY <1>1, <1>3 DEF Holds
<1> QED  BY <1>1, <1>7, <1>8 DEF WinOk, u

-----------------------------------------------------------------------------
(* Steps of the session *)

\* The state behind the jump check, with the packet sn about to be entered.
CheckOk(c, sn) ==
    /\ WinOk(c.filter, c.seen) /\ WinOk(c.data, c.arrived)
    /\ c.filter.maxSn = c.data.maxSn
    /\ Near(c.filter, sn)
    /\ c.seen = {} => c.filter.lsn <= sn
    /\ c.arrived = {} => c.data.lsn <= sn
    /\ Keeps(c.filter, c.start)

LEMMA FilteredOk ==
    ASSUME NEW c, NEW sn \in Nat, sn + 2 * Win < SnMod, CheckOk(c, sn), Filtered(c, sn)
    PROVE  /\ WinOk(filter', seen') /\ filter'.maxSn = Newer(c.filter.maxSn, sn)
           /\ seen' # {} /\ Keeps(filter', c.start)
<1>1. /\ WinOk(c.filter, c.seen) /\ Near(c.filter, sn) /\ Keeps(c.filter, c.start)
      /\ c.seen = {} => c.filter.lsn <= sn
  BY DEF CheckOk
<1>2. c.filter.lsn \in Nat /\ c.filter.maxSn \in Nat /\ c.filter.lsn <= c.filter.maxSn
  BY <1>1 DEF WinOk, WinShape
<1>3. CASE IsRepeat(c.filter, sn)
  <2>1. filter' = c.filter /\ seen' = c.seen
    BY <1>3 DEF Filtered
  <2>2. sn < c.filter.lsn \/ sn \in c.seen
    BY <1>1, <1>2, <1>3, RepeatOnly
  <2>3. sn <= c.filter.maxSn
    BY <1>1, <1>2, <2>2 DEF WinOk, Holds
  <2>4. c.seen # {}
    BY <1>1, <1>2, <2>2
  <2>5. c.filter.maxSn = Newer(c.filter.maxSn, sn)
    BY <1>2, <2>3 DEF Newer
  <2> QED  BY <1>1, <2>1, <2>4, <2>5
<1>4. CASE ~IsRepeat(c.filter, sn)
  <2>1. PICK rsv \in Reserves : filter' \in SnEntryWin(c.filter, sn, rsv)
    BY <1>4 DEF Filtered
  <2>2. seen' = c.seen \cup {sn}
    BY <1>4 DEF Filtered
  <2>3. /\ WinOk(filter', c.seen \cup {sn}) /\ filter'.maxSn = Newer(c.filter.maxSn, sn)
        /\ Advanced(c.filter, filter')
    <3> DEFINE w == c.filter
               A == c.seen
               u == filter'
    <3>1. /\ WinOk(w, A) /\ Near(w, sn) /\ (A = {} => w.lsn <= sn)
          /\ u \in SnEntryWin(w, sn, rsv)
      BY <1>1, <2>1
    <3> HIDE DEF w, A, u
    <3>2. WinOk(u, A \cup {sn}) /\ u.maxSn = Newer(w.maxSn, sn) /\ Advanced(w, u)
      BY <3>1, EntryOk
    <3> QED  BY <3>2 DEF w, A, u
  <2>4. Keeps(filter', c.start)
    <3>1. filter'.lsn \in Nat /\ filter'.maxSn \in Nat
      BY <2>3 DEF WinOk, WinShape
    <3>2. filter'.lsn = c.filter.lsn => Reach(filter') >= Reach(c.filter)
      BY <1>2, <2>3, <3>1 DEF Advanced, Reach
    <3>3. Reach(filter') \in Int /\ Reach(c.filter) \in Int
      BY <1>2, <3>1 DEF Reach
    <3>4. CASE \E r \in Reserves : Reach(filter') >= r - 1
      BY <3>4 DEF Keeps
    <3>5. CASE filter'.lsn = c.filter.lsn
      <4>1. CASE c.filter.lsn = c.start
        BY <3>5, <4>1 DEF Keeps
      <4>2. ASSUME NEW r \in Reserves, Reach(c.filter) >= r - 1  PROVE Keeps(filter', c.start)
        <5>1. r \in Nat
          BY ReserveFacts
        <5>2. Reach(filter') >= r - 1
          BY <3>2, <3>3, <3>5, <4>2, <5>1
        <5> QED  BY <5>2 DEF Keeps
      <4> QED  BY <1>1, <4>1, <4>2 DEF Keeps
    <3> QED  BY <2>3, <3>4, <3>5 DEF Advanced
  <2> QED  BY <2>2, <2>3, <2>4
<1> QED  BY <1>3, <1>4

LEMMA RegisteredOk ==
    ASSUME NEW c, NEW sn \in Nat, sn + 2 * Win < SnMod, CheckOk(c, sn), Registered(c, sn)
    PROVE  /\ WinOk(data', arrived') /\ data'.maxSn = Newer(c.filter.maxSn, sn)
           /\ arrived' # {}
<1>1. /\ WinOk(c.data, c.arrived) /\ Near(c.data, sn) /\ c.data.maxSn = c.filter.maxSn
      /\ c.arrived = {} => c.data.lsn <= sn
  BY DEF CheckOk, Near
<1>2. PICK rsv \in Reserves : data' \in SnEntryWin(c.data, sn, rsv)
  BY DEF Registered
<1>3. arrived' = c.arrived \cup {sn}
  BY DEF Registered
<1>4. WinOk(data', c.arrived \cup {sn}) /\ data'.maxSn = Newer(c.data.maxSn, sn)
  <2> DEFINE w == c.data
             A == c.arrived
             u == data'
  <2>1. /\ WinOk(w, A) /\ Near(w, sn) /\ (A = {} => w.lsn <= sn)
        /\ u \in SnEntryWin(w, sn, rsv)
    BY <1>1, <1>2
  <2> HIDE DEF w, A, u
  <2>2. WinOk(u, A \cup {sn}) /\ u.maxSn = Newer(w.maxSn, sn)
    BY <2>1, EntryOk
  <2> QED  BY <2>2 DEF w, A, u
<1> QED  BY <1>1, <1>3, <1>4

LEMMA SnFacts ==
    ASSUME Fits, NEW sn \in Sns
    PROVE  sn \in Nat /\ sn + 2 * Win < SnMod
<1>1. sn \in SN
  BY SnsAssumption
<1> QED  BY <1>1, SizeFacts DEF SN, Fits

LEMMA UncheckedOk ==
    ASSUME WindowInv, NEW sn \in Nat, Near(filter, sn)
    PROVE  CheckOk([filter |-> filter, data |-> data, seen |-> seen,
                    arrived |-> arrived, start |-> start], sn)
<1>1. seen = {} => filter.lsn <= sn
  BY DEF WindowInv
<1>2. arrived = {} => data.lsn <= sn
  BY DEF WindowInv
<1> QED  BY <1>1, <1>2 DEF WindowInv, CheckOk

LEMMA CheckedOk ==
    ASSUME Fits, WindowInv, NEW sn \in Sns, NEW idle \in BOOLEAN, idle => ~Jumped(sn)
    PROVE  CheckOk(Checked(sn, idle), sn) /\ (idle => Checked(sn, idle).filter = filter)
<1>1. sn \in Nat /\ sn + 2 * Win < SnMod
  BY SnFacts
<1>2. CASE Jumped(sn)
  <2> DEFINE n == Floor(sn)
  <2>1. n \in Nat /\ n <= sn /\ sn < n + Block /\ n + 2 * Win < SnMod /\ Block \in Nat
    <3>1. n \in Nat /\ n <= sn /\ sn < n + Block
      BY <1>1, FloorFacts
    <3> HIDE DEF n
    <3> QED  BY <1>1, <3>1, SizeFacts
  <2>2. Checked(sn, idle) = [filter |-> ResetWin(filter, n), data |-> ResetWin(data, n),
                             seen |-> {}, arrived |-> {}, start |-> n]
    BY <1>2 DEF Checked
  <2> HIDE DEF n
  <2>3. /\ WinOk(ResetWin(filter, n), {}) /\ ResetWin(filter, n).lsn = n
        /\ ResetWin(filter, n).maxSn = n
    BY <2>1, ResetOk
  <2>4. /\ WinOk(ResetWin(data, n), {}) /\ ResetWin(data, n).lsn = n
        /\ ResetWin(data, n).maxSn = n
    BY <2>1, ResetOk
  <2>5. Near(ResetWin(filter, n), sn)
    <3> SUFFICES ASSUME NEW r \in Reserves  PROVE sn + r <= n + Half
      BY <2>3 DEF Near
    <3>1. r \in Nat /\ r + Block <= Half /\ Half \in Nat
      BY ReserveFacts, SizeFacts
    <3> QED  BY <1>1, <2>1, <3>1
  <2> HIDE DEF n
  <2>6. CheckOk(Checked(sn, idle), sn)
    BY <2>1, <2>2, <2>3, <2>4, <2>5 DEF CheckOk, Keeps
  <2> QED  BY <1>2, <2>6
<1>3. CASE ~Jumped(sn)
  <2>1. Checked(sn, idle) = [filter |-> filter, data |-> data, seen |-> seen,
                             arrived |-> arrived, start |-> start]
    BY <1>3 DEF Checked
  <2>2. Near(filter, sn)
    <3> SUFFICES ASSUME NEW r \in Reserves  PROVE sn + r <= filter.maxSn + Half
      BY DEF Near
    <3>1. r \in Nat /\ Half \in Nat /\ SnJump \in Nat /\ SnJump + r <= Half + 1
      BY ReserveFacts, SizeFacts, JumpAssumption DEF Fits
    <3>2. last \in Nat /\ last <= filter.maxSn /\ filter.maxSn \in Nat
      BY DEF WindowInv, WinOk, WinShape
    <3>3. sn < last + SnJump
      BY <1>1, <1>3, <3>1, <3>2 DEF Jumped
    <3> QED  BY <1>1, <3>1, <3>2, <3>3
  <2> QED  BY <1>1, <2>1, <2>2, UncheckedOk
<1> QED  BY <1>2, <1>3

-----------------------------------------------------------------------------
(* WindowInv is inductive *)

LEMMA WindowInit == Init => WindowInv
<1> SUFFICES ASSUME Init  PROVE WindowInv
  OBVIOUS
<1>1. PICK g \in {{}, Win .. 2 * Win - 1} : filter = ResetWin([bits |-> g], 0)
  BY DEF Init
<1>2. 0 + 2 * Win < SnMod /\ 0 \in Nat
  BY SizeFacts
<1>3. WinOk(filter, {}) /\ filter.lsn = 0 /\ filter.maxSn = 0
  BY <1>1, <1>2, ResetOk
<1> QED  BY <1>3 DEF Init, WindowInv, Keeps

\* Both windows have entered the packet.
LEMMA EnteredInv ==
    ASSUME WindowInv, NEW c, NEW sn \in Nat, sn + 2 * Win < SnMod, CheckOk(c, sn),
           Filtered(c, sn), Registered(c, sn), start' = c.start,
           last' = sn \/ (last' = last /\ c.filter.maxSn = filter.maxSn)
    PROVE  WindowInv'
<1>1. /\ WinOk(filter', seen') /\ filter'.maxSn = Newer(c.filter.maxSn, sn)
      /\ seen' # {} /\ Keeps(filter', c.start)
  BY FilteredOk
<1>2. /\ WinOk(data', arrived') /\ data'.maxSn = Newer(c.filter.maxSn, sn)
      /\ arrived' # {}
  BY RegisteredOk
<1>3. last' \in Nat /\ last' <= filter'.maxSn
  <2>1. c.filter.maxSn \in Nat /\ last \in Nat /\ last <= filter.maxSn
    BY DEF CheckOk, WindowInv, WinOk, WinShape
  <2> QED  BY <1>1, <2>1 DEF Newer
<1> QED  BY <1>1, <1>2, <1>3 DEF WindowInv

LEMMA WindowNext == ASSUME Fits, WindowInv, [Next]_vars  PROVE WindowInv'
<1>1. ASSUME NEW sn \in Sns, NEW idle \in BOOLEAN, ReceiveData(sn, idle)  PROVE WindowInv'
  <2> DEFINE c == Checked(sn, idle)
  <2>1. /\ Filtered(c, sn) /\ Registered(c, sn) /\ start' = c.start
        /\ last' = (IF idle THEN last ELSE sn) /\ (idle => ~Jumped(sn))
    BY <1>1 DEF ReceiveData, Fits
  <2>2. CheckOk(c, sn) /\ (idle => c.filter = filter)
    BY <2>1, CheckedOk
  <2>3. sn \in Nat /\ sn + 2 * Win < SnMod
    BY SnFacts
  <2> HIDE DEF c
  <2>4. last' = sn \/ (last' = last /\ c.filter.maxSn = filter.maxSn)
    BY <2>1, <2>2
  <2> QED  BY <2>1, <2>2, <2>3, <2>4, EnteredInv
<1>2. ASSUME NEW sn \in Sns, RestoreByFec(sn)  PROVE WindowInv'
  <2> DEFINE c == Checked(sn, TRUE)
  <2>1. /\ Filtered(c, sn) /\ Registered(c, sn) /\ start' = start /\ last' = last
    BY <1>2 DEF RestoreByFec
  <2>2. c = [filter |-> filter, data |-> data, seen |-> seen,
             arrived |-> arrived, start |-> start]
    BY DEF Checked
  <2>3. sn \in Nat /\ sn + 2 * Win < SnMod
    BY SnFacts
  <2>4. Near(filter, sn)
    <3> SUFFICES ASSUME NEW r \in Reserves  PROVE sn + r <= filter.maxSn + Half
      BY DEF Near
    <3>1. r \in Nat /\ Half \in Nat /\ FecSpan \in Nat /\ FecSpan + r <= Half
      BY ReserveFacts, SizeFacts, JumpAssumption DEF Fits
    <3>2. PICK a \in arrived : sn - a \in -FecSpan .. FecSpan
      BY <1>2 DEF RestoreByFec
    <3>3. a \in Nat /\ a <= filter.maxSn /\ filter.maxSn \in Nat
      BY DEF WindowInv, WinOk, Holds, WinShape
    <3> QED  BY <2>3, <3>1, <3>2, <3>3
  <2>5. CheckOk(c, sn)
    BY <2>2, <2>3, <2>4, UncheckedOk
  <2> HIDE DEF c
  <2>6. start' = c.start /\ c.filter.maxSn = filter.maxSn
    BY <2>1, <2>2
  <2> QED  BY <2>1, <2>3, <2>5, <2>6, EnteredInv
<1>3. CASE CalcQuality
  <2>1. PICK rsv \in Reserves : data' \in CalcRcvLoss(data, rsv)
    BY <1>3 DEF CalcQuality
  <2>2. /\ filter' = filter /\ last' = last /\ seen' = seen /\ arrived' = arrived
        /\ start' = start
    BY <1>3 DEF CalcQuality
  <2>3. WinOk(data', arrived) /\ data'.maxSn = data.maxSn
    BY <2>1, CalcOk DEF WindowInv
  <2>4. arrived = {} => data'.lsn = 0
    BY <2>3 DEF WindowInv, WinOk, Holds
  <2> QED  BY <2>2, <2>3, <2>4 DEF WindowInv
<1>4. CASE UNCHANGED vars
  BY <1>4 DEF vars, WindowInv
<1> QED  BY <1>1, <1>2, <1>3, <1>4 DEF Next

-----------------------------------------------------------------------------
(* What the session says of its packets *)

LEMMA WindowInvariance == Fits => (Spec => []WindowInv)
<1> SUFFICES ASSUME Fits  PROVE Spec => []WindowInv
  OBVIOUS
<1>1. WindowInv /\ [Next]_vars => WindowInv'
  BY WindowNext
<1> QED  BY <1>1, WindowInit, PTL DEF Spec

\* A number that was accepted is a repeat ever after (CheckIsRepeatPacketSn),
\* although the window moves and max_sn_ short-cuts the look at the bitmap.
THEOREM RepeatsAreCaught == Fits => (Spec => []RepeatsCaught)
<1>1. WindowInv => RepeatsCaught
  BY RepeatKnown DEF WindowInv, RepeatsCaught
<1> QED  BY <1>1, WindowInvariance, PTL

\* MoveWin keeps its reserve: a packet that was overtaken by fewer packets is
\* not dropped as too old.
THEOREM LateIsTolerated == Fits => (Spec => []LateTolerance)
<1>1. WindowInv => LateTolerance
  <2> SUFFICES ASSUME WindowInv, filter.lsn # start
               PROVE  Max(seen) - filter.lsn >= Min(Reserves) - 1
    BY DEF LateTolerance
  <2>1. seen # {}
    BY DEF WindowInv
  <2>2. /\ filter.maxSn \in seen /\ \A a \in seen : a \in Nat /\ a <= filter.maxSn
        /\ filter.maxSn \in Nat /\ filter.lsn \in Nat
    BY <2>1 DEF WindowInv, WinOk, Holds, WinShape
  <2>3. Max(seen) = filter.maxSn
    BY <2>2 DEF Max
  <2>4. PICK r \in Reserves : Reach(filter) >= r - 1
    BY DEF WindowInv, Keeps
  <2>5. Reserves \subseteq Nat /\ Reserves # {}
    BY ReservesAssumption
  <2>6. Min(Reserves) \in Nat /\ Min(Reserves) <= r
    BY <2>5, MinOf
  <2> QED  BY <2>2, <2>3, <2>4, <2>5, <2>6 DEF Reach
<1> QED  BY <1>1, WindowInvariance, PTL

\* An ACK confirms nothing that has not arrived (SnEntryWin, MoveWin).
THEOREM OnlyArrivedConfirmed == Fits => (Spec => []ConfirmedArrived)
<1> SUFFICES ASSUME Fits  PROVE Spec => []ConfirmedArrived
  OBVIOUS
<1>1. WindowInv => ConfirmedArrived
  <2> HAVE WindowInv
  <2> SUFFICES ASSUME NEW sn \in Sns, InWindow(data, sn), ReadPos(data, sn) \in data.bits
               PROVE  sn \in arrived
    BY DEF ConfirmedArrived, Confirmed
  <2>1. sn \in Nat /\ sn + 2 * Win < SnMod
    BY SnFacts
  <2>2. WinOk(data, arrived) /\ data.lsn \in Nat /\ data.lsn + 2 * Win < SnMod /\ Win \in Nat
    BY ReachFacts, SizeFacts DEF WindowInv, WinOk
  <2>3. data.lsn <= sn
    <3> SUFFICES ASSUME sn < data.lsn  PROVE FALSE
      BY <2>1, <2>2
    <3>1. Ahead(data, sn) >= Win /\ Ahead(data, sn) < Win
      BY <2>1, <2>2, SpanFacts DEF InWindow
    <3>2. Ahead(data, sn) \in Int
      BY <2>1, <2>2, SizeFacts DEF Ahead
    <3> QED  BY <2>2, <3>1, <3>2
  <2> DEFINE d == sn - data.lsn
  <2>4. Ahead(data, sn) = d /\ ReadPos(data, sn) = At(data, d)
    BY <2>1, <2>2, <2>3, SpanFacts
  <2>5. d \in 0 .. Win - 1 /\ data.lsn + d = sn
    BY <2>1, <2>2, <2>3, <2>4 DEF InWindow
  <2> HIDE DEF d
  <2> QED  BY <2>2, <2>4, <2>5 DEF WinOk, Holds
<1> QED  BY <1>1, WindowInvariance, PTL
=============================================================================
