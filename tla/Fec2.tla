-------------------------------- MODULE Fec2 --------------------------------
(***************************************************************************)
(* Forward error correction, src/src/fec2: the encoder of one end, the     *)
(* decoder of the other, and a network between them that loses, delays and *)
(* reorders.                                                               *)
(*                                                                         *)
(* The packets of a block form a matrix of h columns.  The encoder XORs    *)
(* the packets of each row, column and diagonal its code book asks for and *)
(* sends the result, a parity packet, with a bitmap of what went into it.  *)
(* The decoder keeps DATA packets in a ring and parity packets by block,   *)
(* and restores a packet as soon as it is the only one missing in a line.  *)
(*                                                                         *)
(* The bytes of a packet are abstracted to the set of the packets XORed    *)
(* into them: a DATA packet is a singleton, XOR the symmetric difference,  *)
(* and bytes that are no packet are a set that is not a singleton; their   *)
(* pack_sn_ field is the XOR of the numbers.  Lengths are left out.  A     *)
(* packet is identified by its number: the sender keeps its session.       *)
(***************************************************************************)
EXTENDS Integers, FiniteSets, FiniteSetsExt, SequencesExt, Functions

CONSTANTS Cap,        \* MAX_FEC2_CACHE_CAPACITY (32)
          SnBits,     \* bits of a number (32)
          FirstSn,    \* the first number of the stream
          Books,      \* the code books LinkQualityCallback selects
          Steps,      \* what ClearResource keeps: MIN_ .. MAX_CLEAR_FEC_RECV_STEP
          MaxSends,   \* bound: packets sent
          MaxFaults   \* bound: packets lost, overtaken or not encoded, failed
                      \* allocations, changes of the book, resets, ClearResource

Weight[k \in 0 .. SnBits] == IF k = 0 THEN 1 ELSE 2 * Weight[k - 1]
SnMod == Weight[SnBits]            \* 2^32
SN == 0 .. SnMod - 1
Pos == 0 .. Cap - 1
Mats == 0 .. (Cap \div 2) - 1      \* MAX_RECV_FEC2_MATRIX_NUM
Dirs == <<"H", "V", "U", "D">>     \* Fec2CodeDir, in the order they are tried

\* The code books of GtpManager: columns, rows and directions.
CodeBook ==
    <<[h |-> 4, v |-> 4, dirs |-> {"H", "V", "U", "D"}, block |-> 16],
      [h |-> 4, v |-> 4, dirs |-> {"H", "V"}, block |-> 16],
      [h |-> 4, v |-> 0, dirs |-> {"H"}, block |-> 4],
      [h |-> 2, v |-> 2, dirs |-> {"H", "V", "U", "D"}, block |-> 4],
      [h |-> 2, v |-> 2, dirs |-> {"H", "V"}, block |-> 4],
      [h |-> 2, v |-> 0, dirs |-> {"H"}, block |-> 2]>>
Book(b) == CodeBook[b + 1]

ASSUME Fec2Assumption ==
    /\ Books \subseteq 0 .. 5 /\ 4 \in Books
    /\ Cap \in Nat \ {0} /\ \A b \in Books : Cap % Book(b).block = 0
    /\ SnBits \in Nat /\ SnMod % Cap = 0 /\ 2 * Cap <= SnMod /\ FirstSn \in SN
    /\ Steps \subseteq 1 .. Cap - 1

VARIABLES enc,    \* [using, book, start, par, want, next]: encode_ of the sender
          dec,    \* [book, cache, max, num, mats, out]: decode_ of the receiver;
                  \* out: history, what was restored
          snd,    \* pack_sn_ of the sender
          net,    \* [queue, late]: packets under way in order, and overtaken
          got,    \* history: what the receiver got
          cnt     \* [sends, faults]: the counters of the bounds

vars == <<enc, dec, snd, net, got, cnt>>

-----------------------------------------------------------------------------
\* XorEncode on the field pack_sn_ of the packets: bit k, and the bits below k.
XorBit(bytes, k) == Cardinality({x \in bytes : (x \div Weight[k]) % 2 = 1}) % 2
XorBelow(bytes) ==
    LET below[k \in 0 .. SnBits] ==
            IF k = 0 THEN 0 ELSE below[k - 1] + Weight[k - 1] * XorBit(bytes, k - 1)
    IN  below
PackSn(bytes) == XorBelow(bytes)[SnBits]

\* XorEncode on the bytes of a parity packet and of the packets in the slots S:
\* what occurs an odd number of times.
XorAll(bytes, cache, S) ==
    {x \in bytes \cup UNION {cache[p] : p \in S} :
        x \in bytes <=> Cardinality({p \in S : x \in cache[p]}) % 2 = 0}

CachePos(sn) == sn % Cap                         \* CalcPosInPackCache
StartSn(sn, b) == sn - (sn % Book(b).block)      \* PackSnToStartSn
MatId(sn, b) == CachePos(sn) \div Book(b).block  \* PackSnToMatrixId
InMatrix(sn, b) == CachePos(sn) % Book(b).block  \* CalcPackPosInMatrix

\* Distance of sn behind from, one short when numbers wrapped in between.
Delta(from, sn) == IF from <= sn THEN sn - from ELSE SnMod - 1 - from + sn

\* CheckPackSnInBlock
InBlock(sn, m) ==
    LET end == (m.start + Book(m.book).block) % SnMod
    IN  IF m.start <= end THEN m.start <= sn /\ sn < end
                          ELSE m.start <= sn \/ sn < end

\* CalcHorizontalEncodePos and CalcVerticalEncodePos: row and column.
Row(p, b) == p \div Book(b).h
Col(p, b) == p % Book(b).h

\* The line of position p in direction d, and whether there is one: the
\* diagonals of a single element are left out.
Line(p, b, d) ==
    <<d, CASE d = "H" -> Row(p, b)
           [] d = "V" -> Col(p, b)
           [] d = "U" -> Row(p, b) + Col(p, b) - 1
           [] d = "D" -> Row(p, b) - Col(p, b) + Book(b).h - 2>>
HasLine(p, b, d) ==
    /\ d \in Book(b).dirs
    /\ d = "U" => Row(p, b) + Col(p, b) \in 1 .. 2 * Book(b).h - 3
    /\ d = "D" => Row(p, b) - Col(p, b) \in 2 - Book(b).h .. Book(b).h - 2

\* The bit of p in the bitmap of its line, and the other way round.
Bit(p, b, d) == IF d = "H" THEN Col(p, b) ELSE Row(p, b)
Members(line, b) ==
    {p \in 0 .. Book(b).block - 1 : HasLine(p, b, line[1]) /\ Line(p, b, line[1]) = line}

\* The first and the last element of a line in the order of the numbers.
FirstOfLine(p, b, line) == \A q \in Members(line, b) : p <= q
LastOfLine(p, b, line) == \A q \in Members(line, b) : q <= p

-----------------------------------------------------------------------------
\* The parity packets of a matrix, by line.
NoPar == [l \in {} |-> {}]
With(par, line, pack) == [l \in DOMAIN par \cup {line} |-> IF l = line THEN pack ELSE par[l]]
Without(par, line) == Restrict(par, DOMAIN par \ {line})

\* Fec2EnDeCodeMatrix::Clear: the diagonals are freed only when the book of the
\* matrix has some.
ClearedPar(m) ==
    Restrict(m.par, {l \in DOMAIN m.par : l[1] \in {"U", "D"} /\ Book(m.book).dirs \cap {"U", "D"} = {}})
Clear(m) == [m EXCEPT !.using = FALSE, !.start = 0, !.par = ClearedPar(m)]

\* Fec2EnDeCodeMatrix::Init
InitMatrix(m, b) == [using |-> FALSE, book |-> b, start |-> 0, par |-> ClearedPar(m)]

\* Mutant of SetEmptyFecEnCode: the matrix keeps its parity.
SetEmptyFecEnCodeKeep(acc, sn, from) ==
    [e |-> [acc.e EXCEPT !.using = FALSE, !.book = acc.e.want, !.start = 0],
     out |-> acc.out \cup Range(acc.e.par)]

\* SetEmptyFecEnCode: incomplete parity is sent, or dropped when the number is
\* far from where it was expected, and the matrix starts afresh with the book
\* that is wanted.  acc holds the encoder and the parity packets it has sent.
SetEmptyFecEnCode(acc, sn, from) ==
    [e |-> [acc.e EXCEPT !.using = FALSE, !.book = acc.e.want, !.start = 0,
                         !.par = ClearedPar(acc.e)],
     out |-> IF Delta(from, sn) <= Cap THEN acc.out \cup Range(acc.e.par) ELSE acc.out]

\* The parity of a line is kept, or sent (SendFecCodePacket) when p is the last.
Store(acc, p, line, pack) ==
    IF LastOfLine(p, acc.e.book, line)
    THEN [e |-> [acc.e EXCEPT !.par = Without(@, line)], out |-> acc.out \cup {pack}]
    ELSE [e |-> [acc.e EXCEPT !.par = With(@, line, pack)], out |-> acc.out]

\* HorizontalEncode, VerticalEncode, UphillEncode, DownhillEncode: packet x at
\* position p starts its line or goes into it; fail: there is no memory to
\* start the line or to enlarge its buffer (ReAllocateEncodeMem).
EncodeLine(acc, x, p, line, fail) ==
    IF line \notin DOMAIN acc.e.par \/ FirstOfLine(p, acc.e.book, line)
    THEN IF fail THEN [e |-> [acc.e EXCEPT !.par = Without(@, line)], out |-> acc.out]
         ELSE Store(acc, p, line,
                    [book |-> acc.e.book, start |-> acc.e.start, line |-> line,
                     bits |-> {Bit(p, acc.e.book, line[1])}, bytes |-> {x}])
    ELSE IF fail THEN acc
         ELSE Store(acc, p, line,
                    [acc.e.par[line] EXCEPT !.bits = @ \cup {Bit(p, acc.e.book, line[1])},
                                            !.bytes = SymDiff(@, {x})])

\* BlockEncode: a new block starts with its first packet, when the matrix is
\* not in use, or when the number lies beyond it.
NewBlock(e, sn) ==
    \/ InMatrix(sn, e.book) = 0
    \/ ~e.using
    \/ (e.start + Book(e.book).block) % SnMod <= sn
StartBlock(acc, sn) ==
    [e |-> [acc.e EXCEPT !.using = TRUE, !.start = StartSn(sn, acc.e.book)], out |-> acc.out]
EnterBlock(acc, sn) ==
    IF NewBlock(acc.e, sn)
    THEN StartBlock(SetEmptyFecEnCode(acc, sn, acc.e.start), sn) ELSE acc
EncodeDir(acc, x, p, d, fail) ==
    IF HasLine(p, acc.e.book, d)
    THEN EncodeLine(acc, x, p, Line(p, acc.e.book, d), fail) ELSE acc
BlockEncode(acc, x, fails) ==
    LET Along(a, d) == EncodeDir(a, x, InMatrix(x, a.e.book), d, d \in fails)
    IN  Along(Along(Along(Along(EnterBlock(acc, x), "H"), "V"), "U"), "D")

\* Encode; fails: the directions that get no memory.
Continued(acc, sn) ==
    IF acc.e.next = sn THEN acc ELSE SetEmptyFecEnCode(acc, sn, acc.e.next)
Expecting(acc, sn) == [e |-> [acc.e EXCEPT !.next = sn], out |-> acc.out]
Encode(e, x, fails) ==
    BlockEncode(Expecting(Continued([e |-> e, out |-> {}], x), (x + 1) % SnMod), x, fails)

-----------------------------------------------------------------------------
\* Fec2Buffer.  PopPack and Clear free slots, PushPack fills one.
Pop(f, S) ==
    [f EXCEPT !.cache = [p \in Pos |-> IF p \in S THEN {} ELSE f.cache[p]],
              !.num = @ - Quantify(S, LAMBDA p : f.cache[p] # {})]

PushAt(f, bytes, sn) ==
    [f EXCEPT !.cache[CachePos(sn)] = bytes,
              !.num = IF f.cache[CachePos(sn)] = {} THEN @ + 1 ELSE @,
              !.max = IF @ <= sn \/ SnMod - 1 - @ + sn <= Cap THEN sn ELSE @]
PushPack(f, bytes) == PushAt(f, bytes, PackSn(bytes))

\* The slots of a matrix, of a line of it, and those of a parity's bitmap.
SlotsOf(m) == {CachePos(m.start + i) : i \in 0 .. Book(m.book).block - 1}
LineSlots(m, line) == {CachePos(m.start + p) : p \in Members(line, m.book)}
CodedSlots(m, line) ==
    {CachePos(m.start + p) : p \in
        {q \in Members(line, m.book) : Bit(q, m.book, line[1]) \in m.par[line].bits}}
Foreign(f, m, S) == {p \in S : f.cache[p] # {} /\ ~InBlock(PackSn(f.cache[p]), m)}

DropPar(f, id, line) ==
    [f EXCEPT !.mats[id].par = Without(@, line)]

\* The slot of the missing packet, in pos, or the end of a parity not needed.
OneMissing(f, id, line, missing) ==
    [f |-> IF missing = {} THEN DropPar(f, id, line) ELSE f,
     pos |-> IF Cardinality(missing) = 1 THEN missing ELSE {}]

\* Mutant of CalcRestorePos: packets of another block are left in the line.
CalcRestorePosForeign(f, id, line) ==
    OneMissing(f, id, line, {p \in CodedSlots(f.mats[id], line) : f.cache[p] = {}})

\* CalcRestorePosBy*Dir: packets of another block are removed from the line;
\* pos holds the slot of the packet when exactly one is missing, and the parity
\* is freed when none is.
CalcRestorePos(f, id, line) ==
    LET Search(g) == OneMissing(g, id, line,
                         {p \in CodedSlots(g.mats[id], line) : g.cache[p] = {}})
    IN  Search(Pop(f, Foreign(f, f.mats[id], LineSlots(f.mats[id], line))))

\* RestoreDataBy*Dir: what the parity and the packets of the line XOR to is
\* taken for a packet when its number belongs into the slot that is missing.
\* restorePackRecv_cb_ (Fec2RestoreFrameReceive) gets it, recorded in out.
Restored(f, bytes, pos) ==
    IF CachePos(PackSn(bytes)) = pos
    THEN [f |-> [PushPack(f, bytes) EXCEPT !.out = @ \cup {bytes}], ok |-> TRUE]
    ELSE [f |-> f, ok |-> FALSE]
RestoreData(f, id, line, pos) ==
    Restored(DropPar(f, id, line),
             XorAll(f.mats[id].par[line].bytes, f.cache, CodedSlots(f.mats[id], line)), pos)

\* Mutant of Tries: what was restored is not tried in its other lines.
TriesOnce(pos, skip) ==
    IF skip # "" THEN <<>> ELSE [i \in DOMAIN Dirs |-> [pos |-> pos, dir |-> Dirs[i]]]

\* The directions in which the packet in slot pos is to be tried: all but the
\* one it was restored from.
Tries(pos, skip) ==
    LET dirs == SelectSeq(Dirs, LAMBDA d : d # skip)
    IN  [i \in DOMAIN dirs |-> [pos |-> pos, dir |-> dirs[i]]]

\* One line of TryRecoveryPackByFecPack and TryRecoveryPackByDataPack.  The
\* packet that was restored is to be tried in its other lines (todo), where the
\* code calls itself; the slots of a book with one direction are not needed any
\* more.
AfterRestore(r, id, line, pos, byFec) ==
    IF byFec /\ line[1] = "V" /\ ~r.ok THEN [f |-> r.f, todo |-> <<>>]
    ELSE IF Book(r.f.mats[id].book).dirs \in {{"H"}, {"V"}}
         THEN [f |-> Pop(r.f, LineSlots(r.f.mats[id], line)), todo |-> <<>>]
    ELSE [f |-> r.f, todo |-> Tries(pos, line[1])]
AfterSearch(c, id, line, byFec) ==
    IF c.pos = {} THEN [f |-> c.f, todo |-> <<>>]
    ELSE LET Found(pos) == AfterRestore(RestoreData(c.f, id, line, pos), id, line, pos, byFec)
         IN  Found(CHOOSE p \in c.pos : TRUE)
TryLine(f, id, line, byFec) ==
    IF line \in DOMAIN f.mats[id].par
    THEN AfterSearch(CalcRestorePos(f, id, line), id, line, byFec) ELSE [f |-> f, todo |-> <<>>]

TryDir(f, id, p, d) ==
    IF HasLine(p, f.mats[id].book, d)
    THEN TryLine(f, id, Line(p, f.mats[id].book, d), FALSE) ELSE [f |-> f, todo |-> <<>>]

\* TryRecoveryPackByDataPack: everything that is to be tried, what comes up
\* last first.  There are at most four tries at the start; each packet restored
\* uses up a parity, and asks for at most three more.
TryFirst(w, id) ==
    LET Joined(r) == [f |-> r.f, todo |-> r.todo \o Tail(w.todo)]
    IN  Joined(TryDir(w.f, id, InMatrix(Head(w.todo).pos, w.f.mats[id].book), Head(w.todo).dir))
Trying(w, id, most) ==
    LET tried[n \in 0 .. most] ==
            IF n = 0 THEN w
            ELSE LET More(v) == IF v.todo = <<>> THEN v ELSE TryFirst(v, id)
                 IN  More(tried[n - 1])
    IN  tried
TryRecovery(w, id) ==
    LET most == 4 + 3 * Cardinality(DOMAIN w.f.mats[id].par)
    IN  Trying(w, id, most)[most].f

-----------------------------------------------------------------------------
\* Decode: a parity packet finds or replaces the matrix of its block; one of a
\* block before that is too late.
Newer(m, p) ==
    m.using /\ m.start # p.start
            /\ (m.start < p.start \/ SnMod - 1 - m.start + p.start <= Cap)
TooLate(m, p) == m.using /\ m.start # p.start /\ ~Newer(m, p)

\* The matrix that takes the parity; a change of the book keeps the rest.
Taken(m, p) ==
    LET c == IF Newer(m, p) THEN Clear(m) ELSE m
    IN  [c EXCEPT !.using = TRUE, !.book = p.book, !.start = p.start]

Belonging(f, id) == Pop(f, Foreign(f, f.mats[id], SlotsOf(f.mats[id])))
Cached(f, id, m, p) ==     \* CachedFecEncodePack
    [f EXCEPT !.book = IF f.mats[id].book = p.book THEN @ ELSE p.book,
              !.mats[id] = [m EXCEPT !.par = With(m.par, p.line, p)]]
DecodeIn(f, id, p) ==
    IF TooLate(f.mats[id], p) THEN f
    ELSE LET g == Cached(f, id, Taken(f.mats[id], p), p)
             h == IF Newer(f.mats[id], p) THEN Belonging(g, id) ELSE g
         IN  TryRecovery(TryLine(h, id, p.line, TRUE), id)
Decode(f, p) == DecodeIn(f, MatId(p.start, p.book), p)

\* CalcRecvMatrixIdByPackSn: the first matrix, by size of the block, that
\* holds parity for the number.
MatrixOf(f, sn) ==
    {id \in Mats : /\ f.mats[id].using
                   /\ id = MatId(sn, f.mats[id].book)
                   /\ f.mats[id].start = StartSn(sn, f.mats[id].book)}
SearchRank(f, id) == CASE Book(f.mats[id].book).block = 2 -> 1
                       [] Book(f.mats[id].book).block = 4 -> 2
                       [] Book(f.mats[id].book).block = 16 -> 3

Release(f, id, S) == [Pop(f, S) EXCEPT !.mats[id] = Clear(@)]

\* ClearReceiveUnUsedResource: matrices whose slot the packet has taken for
\* another block are cleared with what else they hold.
Lapped(f, m, pos) ==
    m.using /\ pos \in SlotsOf(m) /\ ~InBlock(PackSn(f.cache[pos]), m)
ClearUnUsed(f, pos) ==
    IF f.cache[pos] = {} THEN f
    ELSE LET stale == {id \in Mats : Lapped(f, f.mats[id], pos)}
             slots == UNION {SlotsOf(f.mats[id]) : id \in stale} \ {pos}
         IN  [Pop(f, slots) EXCEPT
                 !.mats = [id \in Mats |-> IF id \in stale THEN Clear(f.mats[id]) ELSE f.mats[id]]]

Recovered(f, sn, ids) ==
    IF ids = {} THEN f
    ELSE TryRecovery([f |-> f, todo |-> Tries(CachePos(sn), "")],
                     CHOOSE i \in ids : \A j \in ids : SearchRank(f, i) <= SearchRank(f, j))
CacheDataPack(f, x) ==
    LET Try(g) == Recovered(g, x, MatrixOf(g, x))
    IN  ClearUnUsed(Try(PushPack(f, {x})), CachePos(x))

\* ClearResource: complete blocks are given up with their packets, then all
\* packets but those in the step + 1 slots up to max_cached_sn_.
Complete(f, m) ==
    m.using /\ \A p \in SlotsOf(m) : f.cache[p] # {} /\ InBlock(PackSn(f.cache[p]), m)
Clearing(f) ==
    LET cleared[n \in 0 .. Cap \div 2] ==
            IF n = 0 THEN f
            ELSE LET More(g) == IF Complete(g, g.mats[n - 1])
                                THEN Release(g, n - 1, SlotsOf(g.mats[n - 1])) ELSE g
                 IN  More(cleared[n - 1])
    IN  cleared
ClearComplete(f) == Clearing(f)[Cap \div 2]
ClearOld(f, step) == Pop(f, Pos \ {(f.max - i) % Cap : i \in 0 .. step})

\* PopAllPack, from ResetSession; max_cached_sn_ is kept.
PopAllDec(f) ==
    [Pop(f, Pos) EXCEPT !.num = 0,
                        !.mats = [id \in Mats |-> InitMatrix(@[id], f.book)]]
PopAllEnc(e) == [e EXCEPT !.using = FALSE, !.start = 0, !.par = ClearedPar(e)]

-----------------------------------------------------------------------------
\* A fault, or another event that a run has a few of.
Fault == cnt.faults < MaxFaults /\ cnt' = [cnt EXCEPT !.faults = @ + 1]

\* FramePostHandler: a DATA packet is sent and, with FEC on, encoded.  Encoder
\* and decoder do not depend on each other, so that the next packet may wait
\* until the queue is empty.
SendData(x) ==
    /\ cnt.sends < MaxSends /\ net.queue = <<>>
    /\ snd' = (snd + 1) % SnMod
    /\ UNCHANGED <<dec, got>>
SendCoded(x, fails) ==
    /\ SendData(x)
    /\ fails # {} => cnt.faults < MaxFaults
    /\ cnt' = [sends |-> cnt.sends + 1,
               faults |-> IF fails = {} THEN cnt.faults ELSE cnt.faults + 1]
    /\ \E r \in {Encode(enc, x, fails)} :
          /\ enc' = r.e
          /\ net' = [net EXCEPT !.queue = <<[data |-> x]>> \o SetToSeq(r.out)]
SendPlain(x) ==
    /\ SendData(x)
    /\ cnt.faults < MaxFaults
    /\ cnt' = [sends |-> cnt.sends + 1, faults |-> cnt.faults + 1]
    /\ net' = [net EXCEPT !.queue = <<[data |-> x]>>]
    /\ UNCHANGED enc

\* The network hands over the next packet or one that was overtaken.
Flight == net.late \cup ToSet(net.queue)
IsData(p) == "bytes" \notin DOMAIN p
Arrives(p) ==
    \/ /\ net.queue # <<>> /\ p = Head(net.queue)
       /\ net' = [net EXCEPT !.queue = Tail(@)]
    \/ /\ p \in net.late
       /\ net' = [net EXCEPT !.late = @ \ {p}]

\* The decoder becomes f; what it restored counts as got.
Decoded(f, old) == dec' = f /\ got' = old \cup UNION (f.out \ dec.out)

\* PackPostHandler caches the packet, be it a repeat or not.
ReceiveData(p) ==
    /\ IsData(p) /\ Arrives(p)
    /\ Decoded(CacheDataPack(dec, p.data), got \cup {p.data})
    /\ UNCHANGED <<enc, snd, cnt>>

ReceiveParity(p) ==
    /\ ~IsData(p) /\ Arrives(p)
    /\ Decoded(Decode(dec, p), got)
    /\ UNCHANGED <<enc, snd, cnt>>

\* The next packet is lost or overtaken.
Disturb ==
    /\ Fault
    /\ net.queue # <<>>
    /\ \E late \in {net.late, net.late \cup {Head(net.queue)}} :
          net' = [queue |-> Tail(net.queue), late |-> late]
    /\ UNCHANGED <<enc, dec, snd, got>>

\* ChangeFecMode, called by LinkQualityCallback.
ChangeFecMode(b) ==
    /\ Fault
    /\ enc.want # b
    /\ enc' = [enc EXCEPT !.want = b]
    /\ UNCHANGED <<dec, snd, net, got>>

\* ResetSession at the sender, for the stream that comes back, and at the
\* receiver, after a jump of the numbers.
ResetSender ==
    /\ Fault
    /\ enc' = PopAllEnc(enc)
    /\ UNCHANGED <<dec, snd, net, got>>
ResetReceiver ==
    /\ Fault
    /\ dec' = PopAllDec(dec)
    /\ got' = {}
    /\ UNCHANGED <<enc, snd, net>>

\* ClearResource, from TimerHandler.
ClearResource(step) ==
    /\ Fault
    /\ dec' = ClearOld(ClearComplete(dec), step)
    /\ UNCHANGED <<enc, snd, net, got>>

\* GtpFec2 of a new session: next_pack_sn_(0).
NewEncoder == [using |-> FALSE, book |-> 4, start |-> 0, par |-> NoPar, want |-> 4, next |-> 0]

Init ==
    /\ enc = NewEncoder
    /\ dec = [book |-> 4, cache |-> [p \in Pos |-> {}], max |-> 0, num |-> 0, out |-> {},
              mats |-> [id \in Mats |-> [using |-> FALSE, book |-> 4, start |-> 0, par |-> NoPar]]]
    /\ snd = FirstSn
    /\ net = [queue |-> <<>>, late |-> {}]
    /\ got = {}
    /\ cnt = [sends |-> 0, faults |-> 0]

Next ==
    \/ SendPlain(snd)
    \/ \E fails \in {{}} \cup {{d} : d \in Book(enc.want).dirs} : SendCoded(snd, fails)
    \/ \E p \in Flight : ReceiveData(p) \/ ReceiveParity(p)
    \/ Disturb
    \/ \E b \in Books : ChangeFecMode(b)
    \/ ResetSender \/ ResetReceiver
    \/ \E step \in Steps : ClearResource(step)

Spec == Init /\ [][Next]_vars

-----------------------------------------------------------------------------
\* The XOR of a parity packet is that of the packets its bitmap names, whatever
\* book switches, jumps of the numbers, skipped packets and failed allocations
\* the encoder went through (BlockEncode and the four line encoders).
ParityHonest ==
    \A p \in Flight : ~IsData(p) =>
        p.bytes = {(p.start + q) % SnMod : q \in
                     {q \in Members(p.line, p.book) : Bit(q, p.book, p.line[1]) \in p.bits}}

\* "before its stale FEC data causes a false XOR reconstruction"
\* (goodtp_fec2.cpp:2517): what the decoder restores is a packet that was sent,
\* while slots and matrices are reused across blocks, books, resets and the
\* wrap of the numbers.
RestoredWasSent ==
    \A bytes \in dec.out : \E sn \in SN : bytes = {sn}

\* "unreceived only one packet, it can be restore" (goodtp_fec2.cpp:1916):
\* parity that could restore a packet the receiver has not got is not left
\* lying in its matrix.
NoIdleParity ==
    \A id \in Mats : LET m == dec.mats[id] IN m.using =>
        \A line \in DOMAIN m.par :
            LET coded == {m.start + q : q \in
                    {q \in Members(line, m.book) : Bit(q, m.book, line[1]) \in m.par[line].bits}}
                missing == {sn \in coded : dec.cache[CachePos(sn)] # {sn % SnMod}}
            IN  Cardinality(missing) = 1 => \E sn \in missing : sn % SnMod \in got
=============================================================================
