---------------------------- MODULE PacketMemory ----------------------------
(***************************************************************************)
(* The packet buffers of an instance, TranMemPool (src/src/tranmempool.h), *)
(* the node pool GtpMemPool (src/src/mempool), and everyone who keeps a    *)
(* reference to a buffer: the application, the ARQ list, the FEC cache,    *)
(* the parity of a line being decoded, the line being encoded and the      *)
(* reorder buffer.                                                         *)
(*                                                                         *)
(* A buffer is a pair <<class, position>>.  Bytes are left out: what       *)
(* matters is who holds which buffer, and whether the counters, flags and  *)
(* bitmaps of the pools agree with it.  When a handler decides by sizes,   *)
(* rates or sequence numbers, its outcomes are the elements of a set.      *)
(*                                                                         *)
(* The application is the one of the proxy and of the demo: a packet is    *)
(* allocated, handed to GtpFrameSend or GtpPacketReceive and then freed,   *)
(* whatever kind of packet it was (socks5udpf/src/fec.cpp:119-185 and      *)
(* 300-351, demotest/src/tran/tran.cpp:2402-2483).  The library frees ACK, *)
(* NACK and FEC packets as well, so a buffer may go back to the pool while *)
(* somebody still keeps it: pools and holders are modelled so that they    *)
(* may disagree.                                                           *)
(***************************************************************************)
EXTENDS Integers, FiniteSets, FiniteSetsExt, SequencesExt

CONSTANTS Word,        \* buffers per word of a bitmap (64)
          Sizes,       \* pool_size of each class, smallest buffers first
          NodeNum,     \* block_num_ of the ARQ node pool
          Slots,       \* slots of the FEC cache
          MaxPacks     \* bound: references the application has at a time

ASSUME MemoryAssumption ==
    /\ Word \in Nat \ {0} /\ NodeNum \in Nat \ {0} /\ NodeNum % Word = 0
    /\ Sizes \in Seq(Nat)
    /\ IsFiniteSet(Slots) /\ Slots \cap {"parity", "line", "reorder"} = {}
    /\ MaxPacks \in Nat \ {0}

VARIABLE mem   \* [pool, node, app, arq, at]
vars == <<mem>>

Classes == DOMAIN Sizes
Positions(k) == 0 .. Sizes[k] - 1
Cells == UNION {{k} \X Positions(k) : k \in Classes}
Nodes == 0 .. NodeNum - 1
Empty == <<>>                                  \* no buffer
Places == Slots \cup {"parity", "line", "reorder"}

-----------------------------------------------------------------------------
(* TranMemPool *)

\* The words of the bitmap of a pool, pool_size >> 6.  A pool below one word
\* (32 buffers, socks5udpf/src/fec.cpp:62-63) has none; the code then works on
\* the first word behind malloc(0), which is the pool's own in the heaps of
\* the builds and not cleared.
Words(k) == Sizes[k] \div Word
InWord(w) == w * Word .. (w * Word) + Word - 1
FullWord(bits, w) == InWord(w) \subseteq bits

\* Mutant of FreeElement: only the word of the last position is searched.
FreeElementNear(p, k) ==
    {i \in Positions(k) \cap InWord(p.last \div Word) :
        i \notin p.bits /\ \A j \in InWord(p.last \div Word) : j < i => j \in p.bits}

\* MallocTranBufElement: the first free position in the word of last_free_pos,
\* or in the first word that is not full; the empty set when all are, or when
\* the position is behind the end of the pool.  (The bit of such a position is
\* set for good, which nothing can tell: it is searched after all others.)
FreeElement(p, k) ==
    LET words == IF FullWord(p.bits, p.last \div Word)
                 THEN {w \in 0 .. Words(k) - 1 : ~FullWord(p.bits, w)}
                 ELSE {p.last \div Word}
    IN  IF words = {} THEN {} ELSE {Min(InWord(Min(words)) \ p.bits)} \cap Positions(k)
TakeElement(p, i) ==
    [bits |-> p.bits \cup {i}, used |-> p.used \cup {i}, ref |-> [p.ref EXCEPT ![i] = 1],
     last |-> i, usedNum |-> p.usedNum + 1, freeNum |-> p.freeNum - 1]

\* MallocTranBuf without tran_buf: the class asked for, then the larger ones.
MallocTranBuf(m, k) ==
    LET ready == {j \in Classes : j >= k /\ FreeElement(m.pool[j], j) # {}}
    IN  IF ready = {} THEN {}
        ELSE {<<Min(ready), i>> : i \in FreeElement(m.pool[Min(ready)], Min(ready))}
Taken(m, c) == [m EXCEPT !.pool[c[1]] = TakeElement(@, c[2])]

\* TranBufUseRefAddOne, and MallocTranBuf on a tran_buf that has room.  Nothing
\* reads referenceCounter of a buffer that is not in use, until it is set to 1
\* when the buffer is taken: it is kept 0.
AddElementRef(p, i) == IF i \in p.used THEN [p EXCEPT !.ref[i] = @ + 1] ELSE p
RefAddOne(m, c) == [m EXCEPT !.pool[c[1]] = AddElementRef(@, c[2])]

\* Mutant of FreeElementRef: the flag is not reset.
FreeElementRefFlag(p, i) ==
    IF p.ref[i] > 1 THEN [p EXCEPT !.ref[i] = @ - 1]
    ELSE IF i \notin p.used THEN p
    ELSE [bits |-> p.bits \ {i}, used |-> p.used, ref |-> [p.ref EXCEPT ![i] = 0],
          last |-> i, usedNum |-> p.usedNum - 1, freeNum |-> p.freeNum + 1]

\* FreeTranBuf: the buffer goes back with its last reference.
FreeElementRef(p, i) ==
    IF p.ref[i] > 1 THEN [p EXCEPT !.ref[i] = @ - 1]
    ELSE IF i \notin p.used THEN p
    ELSE [bits |-> p.bits \ {i}, used |-> p.used \ {i}, ref |-> [p.ref EXCEPT ![i] = 0],
          last |-> i, usedNum |-> p.usedNum - 1, freeNum |-> p.freeNum + 1]
FreeTranBuf(m, c) == [m EXCEPT !.pool[c[1]] = FreeElementRef(@, c[2])]

-----------------------------------------------------------------------------
(* GtpMemPool, for the ARQ nodes *)

\* MallocItem: the position freed last, else one of its word, else one of the
\* first word that is not full.  using_num_ ends the search early.  (When no
\* word has room it is set to pool_size_, the value that it then has.)
FreeItemPos(n) ==
    LET near == InWord(n.last \div Word) \ n.bits
        words == {w \in 0 .. (NodeNum \div Word) - 1 : ~FullWord(n.bits, w)}
    IN  CASE n.using >= NodeNum -> {}
          [] n.using < NodeNum /\ n.last \notin n.used -> {n.last}
          [] n.using < NodeNum /\ n.last \in n.used /\ near \ n.used # {} -> {Min(near \ n.used)}
          [] OTHER -> IF words = {} THEN {} ELSE {Min(InWord(Min(words)) \ n.bits)}
TakeItem(n, i) ==
    [bits |-> n.bits \cup {i}, used |-> n.used \cup {i}, quote |-> [n.quote EXCEPT ![i] = 1],
     last |-> i, using |-> n.using + 1]
FreeItem(n, i) ==
    CASE i \notin n.used -> n
      [] i \in n.used /\ n.quote[i] > 1 -> [n EXCEPT !.quote[i] = @ - 1]
      [] OTHER -> [bits |-> n.bits \ {i}, used |-> n.used \ {i},
                   quote |-> [n.quote EXCEPT ![i] = 0],
                   last |-> i, using |-> IF n.using > 0 THEN n.using - 1 ELSE 0]

-----------------------------------------------------------------------------
(* The holders *)

\* A place gives up its buffer, or takes over a new reference to one.
Put(m, x, c) == [m EXCEPT !.at[x] = c]
Drop(m, x) == IF m.at[x] = Empty THEN m ELSE FreeTranBuf(Put(m, x, Empty), m.at[x])
Share(m, x, c) == Put(RefAddOne(m, c), x, c)

\* A place gets a buffer of its own of class k; when there is none it stays empty.
Allot(m, x, k) == {Put(Taken(m, c), x, c) : c \in MallocTranBuf(m, k)}
Short(m, k) == IF MallocTranBuf(m, k) = {} THEN {m} ELSE {}

\* A node for a reference to c; PushArqNode and PopArqNode.
Listed(m, i, c) ==
    LET n == [m EXCEPT !.node = TakeItem(@, i)]
    IN  [n EXCEPT !.arq = @ \cup {[node |-> i, cell |-> c]}]
Unlisted(m, e) ==
    LET n == [m EXCEPT !.node = FreeItem(@, e.node)]
    IN  [n EXCEPT !.arq = @ \ {e}]

\* CloneBoostNode: a copy of the packet in a buffer of class k, with a node.
WithNode(m, c) ==
    IF FreeItemPos(m.node) = {} THEN {FreeTranBuf(Taken(m, c), c)}
    ELSE {Listed(Taken(m, c), i, c) : i \in FreeItemPos(m.node)}
CloneBoostNode(m, k) ==
    Short(m, k) \cup UNION {WithNode(m, c) : c \in MallocTranBuf(m, k)}

\* PacketEntryList: node and reference, then a boost copy when boosting is on.
Boosted(m) == {m} \cup UNION {CloneBoostNode(m, k) : k \in Classes}
PacketEntryList(m, c) ==
    IF FreeItemPos(m.node) = {} THEN {m}
    ELSE UNION {Boosted(Listed(RefAddOne(m, c), i, c)) : i \in FreeItemPos(m.node)}

\* A node leaves the list with its buffer: PopArqNode, FreeTranBuf, FreeItem.
Unlist(m, e) == FreeTranBuf(Unlisted(m, e), e.cell)

\* The loops over the list, for the nodes in the order in which they stand.
Unlisting(m, nodes) ==
    LET u[n \in 0 .. Len(nodes)] == IF n = 0 THEN m ELSE Unlist(u[n - 1], nodes[n])
    IN  u
UnlistAll(m, nodes) == Unlisting(m, nodes)[Len(nodes)]

\* Mutant of PushPack: what the slot held is not freed.
PushPackKeep(m, x, c) == Share(m, x, c)

\* PushPack of Fec2Buffer: slot x takes packet c and frees what it held.
PushPack(m, x, c) ==
    IF m.at[x] = Empty THEN Share(m, x, c) ELSE FreeTranBuf(Share(m, x, c), m.at[x])

\* HorizontalEncode and the others: the line is started, continued in place or
\* in a larger buffer (ReAllocateEncodeMem), or restarted; then it is sent
\* (SendFecCodePacket) when it is complete.
Afresh(m, x) == UNION {Allot(m, x, k) \cup Short(m, k) : k \in Classes}
Started(m) == Afresh(Drop(m, "line"), "line")
ReAllocated(m) ==
    UNION {{FreeTranBuf(Put(Taken(m, c), "line", c), m.at["line"]) : c \in MallocTranBuf(m, k)}
               \cup Short(m, k) : k \in Classes}
Encode(m) ==
    LET lines == Started(m) \cup IF m.at["line"] = Empty THEN {} ELSE {m} \cup ReAllocated(m)
    IN  lines \cup {Drop(l, "line") : l \in lines}

\* ReorderEnqueue: delivered at once, or copied into a slot that is freed first,
\* or delivered together with what the slot holds (ReorderFlush).
Reorder(m) ==
    {m, Drop(m, "reorder")} \cup Afresh(Drop(m, "reorder"), "reorder")

\* RestoreData*: a parity that gives no packet is freed; the packet that it
\* gives lies in the same buffer, is delivered and goes into the cache.
Restore(m) ==
    {Drop(m, "parity")} \cup
    {Drop(PushPack(r[1], r[2], m.at["parity"]), "parity") : r \in Reorder(m) \X Slots}

\* What arrives is tried with the parity that is there.
Tried(m) == {m} \cup IF m.at["parity"] = Empty THEN {} ELSE Restore(m)

-----------------------------------------------------------------------------
(* Calls *)

AppHolds(c) == mem.app[c] > 0
Busy == MapThenSumSet(LAMBDA c : mem.app[c], Cells) >= MaxPacks
Keep(m, c) == [m EXCEPT !.app[c] = @ + 1]      \* the application has one more,
Give(m, c) == [m EXCEPT !.app[c] = @ - 1]      \* or forgets one

\* GtpMallocPackMem for a new buffer; when there is none nothing changes.
GtpMallocPackMem ==
    ~Busy /\ \E k \in Classes : \E c \in MallocTranBuf(mem, k) : mem' = Keep(Taken(mem, c), c)

\* GtpMallocPackMem behind the packets a buffer already has.
GtpMallocPackMemBehind ==
    \E c \in Cells : AppHolds(c) /\ ~Busy /\ mem' = Keep(RefAddOne(mem, c), c)

\* GtpFreePackMem: after a call with the packet, or without one.
Free(m, c) == FreeTranBuf(Give(m, c), c)
GtpFreePackMem == \E c \in Cells : AppHolds(c) /\ mem' = Free(mem, c)

\* GtpFrameSend: FramePostHandler encodes the packet and lists it for ARQ, each
\* when it is switched on; then the application frees it.
GtpFrameSend ==
    \E c \in Cells :
        /\ AppHolds(c)
        /\ \E m \in {mem} \cup Encode(mem) :
             \E q \in {m} \cup PacketEntryList(m, c) : mem' = Free(q, c)

\* GtpPacketReceive of a DATA packet that is no repeat: the FEC cache keeps it,
\* parity may restore another one, and ReorderEnqueue delivers or copies it.
ReceiveData ==
    \E c \in Cells :
        /\ AppHolds(c)
        /\ \E m \in {mem} \cup UNION {Tried(PushPack(mem, x, c)) : x \in Slots} :
             \E q \in Reorder(m) : mem' = Free(q, c)

\* PackPostHandler frees every packet but DATA, and so does the application.
Consume(m, c) == Free(FreeTranBuf(m, c), c)

\* CachedFecEncodePack
Cache(m, c) == Share(Drop(m, "parity"), "parity", c)

ReceiveFec ==
    \E c \in Cells :
        /\ AppHolds(c)
        /\ \E m \in {mem} \cup Tried(Cache(mem, c)) : mem' = Consume(m, c)

\* ACK and NACK: some nodes leave the list, in groups (FreeTranBuf of a vector).
ReceiveReport ==
    \E c \in Cells, E \in SUBSET mem.arq :
        /\ AppHolds(c)
        /\ \E nodes \in SetToSeqs(E) : mem' = Consume(UnlistAll(mem, nodes), c)

\* TranFailedPostHandler: a node is given up, or a reliable one gets a new copy.
TranFailed ==
    \/ \E e \in mem.arq : mem' = Unlist(mem, e)
    \/ \E k \in Classes : mem.arq # {} /\ mem' \in CloneBoostNode(mem, k)

\* Timer and arrivals empty places: gap timeout, ClearResource, PopPack.
Expire == \E x \in Places : mem.at[x] # Empty /\ mem' = Drop(mem, x)

\* ReorderClear, then PopAllPack of the FEC: encoder, parity, cache.
Dropping(m, places) ==
    LET d[n \in 0 .. Len(places)] == IF n = 0 THEN m ELSE Drop(d[n - 1], places[n])
    IN  d
DropAll(m) ==
    {Dropping(m, <<"reorder", "line", "parity">> \o slots)[3 + Len(slots)]
        : slots \in SetToSeqs(Slots)}

\* The list is cleared when ARQ is switched off, and before the session goes.
ClearArqList ==
    mem.arq # {} /\ \E nodes \in SetToSeqs(mem.arq) : mem' = UnlistAll(mem, nodes)
ResetSession == mem' \in DropAll(mem)
DelSession == \E nodes \in SetToSeqs(mem.arq) : mem' \in DropAll(UnlistAll(mem, nodes))

-----------------------------------------------------------------------------
\* The pools start empty; what is in the word of a pool without a bitmap is not
\* known.
CreateTranBufPool(k, bits) ==
    [bits |-> bits, used |-> {}, ref |-> [i \in Positions(k) |-> 0], last |-> 0,
     usedNum |-> 0, freeNum |-> Sizes[k]]
Uncleared(k) == IF Words(k) = 0 THEN Positions(k) ELSE {}
NodePool ==
    [bits |-> {}, used |-> {}, quote |-> [i \in Nodes |-> 0], last |-> 0, using |-> 0]
Init ==
    \E bits \in [Classes -> SUBSET UNION {Uncleared(k) : k \in Classes}] :
        /\ \A k \in Classes : bits[k] \subseteq Uncleared(k)
        /\ mem = [pool |-> [k \in Classes |-> CreateTranBufPool(k, bits[k])],
                  node |-> NodePool,
                  app |-> [c \in Cells |-> 0], arq |-> {}, at |-> [x \in Places |-> Empty]]

Next ==
    \/ GtpMallocPackMem \/ GtpMallocPackMemBehind \/ GtpFreePackMem
    \/ GtpFrameSend \/ ReceiveData \/ ReceiveFec \/ ReceiveReport
    \/ TranFailed \/ Expire \/ ClearArqList \/ ResetSession \/ DelSession

Spec == Init /\ [][Next]_vars

-----------------------------------------------------------------------------
(* Properties *)

RefIn(m, c) == m.pool[c[1]].ref[c[2]]
HoldersIn(m, c) ==
    m.app[c] + Cardinality({e \in m.arq : e.cell = c})
             + Cardinality({x \in Places : m.at[x] = c})
Holders(c) == HoldersIn(mem, c)
Ref(c) == RefIn(mem, c)

\* No buffer is lost: the counter of one that is in use is never above the number
\* of those who keep it, whatever calls and handlers have run and in whatever
\* order they let go of it, so that it is back in the pool when the last one has
\* (FreeTranBuf).  This holds although some packets are freed twice.
NeverLost ==
    \A k \in Classes : \A i \in mem.pool[k].used :
        Ref(<<k, i>>) \in 1 .. Holders(<<k, i>>)

\* No buffer goes back to the pool, to be handed out again, while somebody may
\* still use it: referenceCounter is, in the words of src/src/tranmempool.h:155,
\* "a counter for the memory is quoted, non zero means the memory is using and
\* can't recovery".  It does not hold: PackPostHandler frees a FEC packet that
\* CachedFecEncodePack keeps, and the application, which pairs GtpFreePackMem
\* with GtpMallocPackMem, frees it a second time.
HeldInUse == \A c \in Cells : Holders(c) > 0 => c[2] \in mem.pool[c[1]].used

\* The bitmap that MallocTranBufElement and MallocItem search, the flags that
\* FreeTranBuf and FreeItem look at and the counters agree, also after a buffer
\* has been freed twice, and the nodes in use are those of the list.
BooksAgree ==
    /\ \A k \in Classes :
         LET p == mem.pool[k]
         IN  /\ p.used \subseteq p.bits /\ (Words(k) > 0 => p.bits = p.used)
             /\ p.usedNum = Cardinality(p.used) /\ p.freeNum = Sizes[k] - p.usedNum
    /\ mem.node.bits = mem.node.used
    /\ mem.node.used = {e.node : e \in mem.arq}
    /\ mem.node.using = Cardinality(mem.arq)

\* The application is refused a buffer only when every buffer of the class it
\* asks for and of the larger ones that the bitmaps cover is in somebody's hands,
\* and a packet only goes without a node when all nodes are listed.
NoFalseShortage ==
    /\ \A k \in Classes : MallocTranBuf(mem, k) = {} =>
           \A c \in Cells : c[1] >= k /\ c[2] < Words(c[1]) * Word => Holders(c) > 0
    /\ FreeItemPos(mem.node) = {} => Cardinality(mem.arq) = NodeNum
=============================================================================
